------------------------- MODULE TimeoutScopeProofs -------------------------
(***************************************************************************)
(* Proofs about TimeoutScope: what each pinger's timers bound, for every   *)
(* timeout and however long the awaits without a timer last.               *)
(***************************************************************************)
EXTENDS TimeoutScope, TLAPS

AllKinds == {"wrapped", "check", "watch", "quic"}

Timer(k, i) == Awaits(k)[i].timer

\* The awaits of each pinger, one by one (with_timeout, tonic, quinn).
LEMMA AwaitsAre ==
  ASSUME NEW k \in AllKinds
  PROVE  /\ k = "wrapped" => /\ Len(Awaits(k)) = 2
                             /\ Timer(k, 1) = "whole" /\ Timer(k, 2) = "whole"
         /\ k \in {"check", "watch"} =>
              /\ Len(Awaits(k)) = 5
              /\ Timer(k, 1) = "none" /\ Timer(k, 2) = "own" /\ Timer(k, 3) = "none"
              /\ Timer(k, 4) = "own" /\ Timer(k, 5) = "none"
         /\ k = "quic" =>
              /\ Len(Awaits(k)) = 3
              /\ Timer(k, 1) = "none" /\ Timer(k, 2) = "own" /\ Timer(k, 3) = "none"
              /\ \A i \in 1..3 : Awaits(k)[i].what = "connecting" => i = 2
<1>1. /\ Awaits("wrapped") = with_timeout /\ Awaits("check") = GrpcCheck
      /\ Awaits("watch") = GrpcWatch /\ Awaits("quic") = Quic
  BY Zenon DEF Awaits
<1>2. CASE k = "wrapped"
  BY <1>1, <1>2 DEF with_timeout, Await, Timer
<1>3. CASE k = "check"
  BY <1>1, <1>3 DEF GrpcCheck, Await, Timer
<1>4. CASE k = "watch"
  BY <1>1, <1>4 DEF GrpcWatch, Await, Timer
<1>5. CASE k = "quic"
  BY <1>1, <1>5 DEF Quic, Await, Timer
<1> QED
  BY <1>2, <1>3, <1>4, <1>5 DEF AllKinds

\* How many timers of their own lie behind the i-th await.
Fuses(k, i) ==
  IF k \in {"check", "watch"} THEN IF i <= 2 THEN 0 ELSE IF i <= 4 THEN 1 ELSE 2
  ELSE IF k = "quic" /\ i = 3 THEN 1 ELSE 0

\* An await of its own timer burns one more fuse than the one before it, and
\* only the pingers on with_timeout have a timer over the whole call.
LEMMA FuseFacts ==
  ASSUME NEW k \in AllKinds, NEW i \in 1..Len(Awaits(k))
  PROVE  /\ Timer(k, i) \in {"whole", "own", "none"}
         /\ Timer(k, i) = "whole" <=> k = "wrapped"
         /\ Fuses(k, i) \in 0..2
         /\ k = "quic" => Fuses(k, i) + (IF Timer(k, i) = "own" THEN 1 ELSE 0) <= 1
         /\ Fuses(k, i) + (IF Timer(k, i) = "own" THEN 1 ELSE 0) <= 2
         /\ i + 1 \in 1..Len(Awaits(k)) =>
              Fuses(k, i + 1) = Fuses(k, i) + (IF Timer(k, i) = "own" THEN 1 ELSE 0)
<1>1. CASE k = "wrapped"
  <2>1. Len(Awaits(k)) = 2
    BY <1>1, AwaitsAre
  <2>2. i \in 1..2
    BY <2>1
  <2>3. i \in {1, 2}
    BY <2>2
  <2>4. CASE i = 1
    BY <1>1, <2>1, <2>4, AwaitsAre DEF Fuses
  <2>5. CASE i = 2
    BY <1>1, <2>1, <2>5, AwaitsAre DEF Fuses
  <2> QED
    BY <2>3, <2>4, <2>5
<1>2. CASE k \in {"check", "watch"}
  <2>1. Len(Awaits(k)) = 5
    BY <1>2, AwaitsAre
  <2>2. i \in 1..5
    BY <2>1
  <2>3. i \in {1, 2, 3, 4, 5}
    BY <2>2
  <2>4. CASE i = 1
    BY <1>2, <2>1, <2>4, AwaitsAre DEF Fuses
  <2>5. CASE i = 2
    BY <1>2, <2>1, <2>5, AwaitsAre DEF Fuses
  <2>6. CASE i = 3
    BY <1>2, <2>1, <2>6, AwaitsAre DEF Fuses
  <2>7. CASE i = 4
    BY <1>2, <2>1, <2>7, AwaitsAre DEF Fuses
  <2>8. CASE i = 5
    BY <1>2, <2>1, <2>8, AwaitsAre DEF Fuses
  <2> QED
    BY <2>3, <2>4, <2>5, <2>6, <2>7, <2>8
<1>3. CASE k = "quic"
  <2>1. Len(Awaits(k)) = 3
    BY <1>3, AwaitsAre
  <2>2. i \in 1..3
    BY <2>1
  <2>3. i \in {1, 2, 3}
    BY <2>2
  <2>4. CASE i = 1
    BY <1>3, <2>1, <2>4, AwaitsAre DEF Fuses
  <2>5. CASE i = 2
    BY <1>3, <2>1, <2>5, AwaitsAre DEF Fuses
  <2>6. CASE i = 3
    <3>1. i + 1 \notin 1..Len(Awaits(k))
      BY <2>1, <2>6
    <3>2. Timer(k, i) = "none" /\ Fuses(k, i) = 1
      BY <1>3, <2>6, AwaitsAre DEF Fuses
    <3> QED
      BY <1>3, <3>1, <3>2
  <2> QED
    BY <2>3, <2>4, <2>5, <2>6
<1> QED
  BY <1>1, <1>2, <1>3 DEF AllKinds

\* An account of the time: what was not spent loosely is covered by the timers
\* behind and, where the present await has one, by its own.  A call that timed
\* out did so on the dot.
Bounded ==
  /\ Here.timer = "whole" => loose = 0 /\ now <= timeout
  /\ Here.timer = "own" => /\ now - armed <= timeout
                           /\ armed - loose <= Fuses(kind, at) * timeout
  /\ Here.timer = "none" => now - loose <= Fuses(kind, at) * timeout
  /\ out = "timedout" => Expired

SInv == TypeOK /\ Bounded

\* The call begins with nothing spent.
LEMMA InitSInv == Init => SInv
<1> SUFFICES ASSUME Init PROVE SInv
  OBVIOUS
<1> USE ScopeAssumption
<1>1. /\ kind \in AllKinds /\ timeout \in Nat /\ now = 0 /\ at = 1 /\ armed = 0
      /\ loose = 0 /\ out = "none"
  BY DEF Init, AllKinds
<1>2. 1 \in 1..Len(Awaits(kind))
  BY <1>1, AwaitsAre DEF AllKinds
<1>3. TypeOK
  BY <1>1, <1>2 DEF Init, TypeOK
<1>4. Fuses(kind, 1) \in 0..2
  BY <1>1, <1>2, FuseFacts
<1>5. Fuses(kind, 1) = 0
  BY DEF Fuses
<1> QED
  BY <1>1, <1>3, <1>5 DEF SInv, Bounded

\* What every step knows.
LEMMA ScopeFacts ==
  ASSUME TypeOK
  PROVE  /\ kind \in AllKinds /\ timeout \in Nat /\ now \in Nat /\ armed \in Nat
         /\ loose \in Nat /\ armed <= now /\ loose <= now /\ Horizon \in Nat
         /\ at \in 1..Len(Awaits(kind)) /\ Len(Awaits(kind)) \in Nat
         /\ Here.timer = Timer(kind, at)
         /\ Here.timer \in {"whole", "own", "none"}
         /\ Fuses(kind, at) \in 0..2
<1>1. kind \in AllKinds /\ timeout \in Nat /\ Horizon \in Nat
  BY ScopeAssumption DEF TypeOK, AllKinds
<1>2. /\ now \in Nat /\ armed \in Nat /\ armed <= now /\ loose \in Nat /\ loose <= now
  BY <1>1 DEF TypeOK
<1>3. at \in 1..Len(Awaits(kind))
  BY DEF TypeOK
<1>4. Len(Awaits(kind)) \in Nat
  BY <1>1, AwaitsAre DEF AllKinds
<1>5. Here.timer = Timer(kind, at)
  BY DEF Here, Timer
<1> QED
  BY <1>1, <1>2, <1>3, <1>4, <1>5, FuseFacts

\* Time passes only while no timer over the await has expired.
LEMMA TickSInv == SInv /\ Tick => SInv'
<1> SUFFICES ASSUME SInv, Tick PROVE SInv'
  OBVIOUS
<1>1. TypeOK /\ Bounded
  BY DEF SInv
<1>2. /\ Here' = Here /\ out = "none" /\ now' = now + 1
      /\ loose' = IF Here.timer = "none" THEN loose + 1 ELSE loose
      /\ UNCHANGED <<timeout, armed, at, kind, out>>
  BY DEF Tick, Here, Pending
<1>3. TypeOK'
  BY <1>1, <1>2, ScopeFacts DEF TypeOK, Tick
<1>4. Here.timer = "whole" => now < timeout
  BY <1>1, ScopeFacts DEF Tick, Expired, Since
<1>5. Here.timer = "own" => now < armed + timeout
  BY <1>1, ScopeFacts DEF Tick, Expired, Since
<1>6. Fuses(kind, at)' = Fuses(kind, at) /\ (out = "timedout")' = FALSE
  BY <1>2
<1> DEFINE spent == Fuses(kind, at) * timeout
<1>7. /\ spent \in Int /\ spent' = spent /\ now \in Nat /\ armed \in Nat /\ loose \in Nat
      /\ timeout \in Nat
  BY <1>1, <1>2, <1>6, ScopeFacts
<1>8. /\ Here.timer = "whole" => loose = 0
      /\ Here.timer = "own" => armed - loose <= spent
      /\ Here.timer = "none" => now - loose <= spent
  BY <1>1 DEF Bounded
<1> HIDE DEF spent
<1>9. /\ Here'.timer = "whole" => loose' = 0 /\ now' <= timeout'
      /\ Here'.timer = "own" => now' - armed' <= timeout' /\ armed' - loose' <= spent'
      /\ Here'.timer = "none" => now' - loose' <= spent'
      /\ out' # "timedout"
  BY <1>2, <1>4, <1>5, <1>7, <1>8
<1>10. Bounded'
  BY <1>9 DEF Bounded, spent
<1> QED
  BY <1>3, <1>10 DEF SInv

\* The next await begins with its own timer fresh, the whole call's running.
LEMMA ProceedSInv == SInv /\ Proceed => SInv'
<1> SUFFICES ASSUME SInv, Proceed PROVE SInv'
  OBVIOUS
<1>1. TypeOK /\ Bounded /\ out = "none"
  BY DEF SInv, Proceed, Pending
<1>2. CASE at = Len(Awaits(kind))
  <2>1. /\ UNCHANGED <<kind, timeout, now, at, armed, loose>> /\ out' = "ok"
    BY <1>2 DEF Proceed
  <2>2. Here' = Here /\ Fuses(kind, at)' = Fuses(kind, at)
    BY <2>1 DEF Here
  <2>3. TypeOK'
    BY <1>1, <2>1 DEF TypeOK
  <2> QED
    BY <1>1, <2>1, <2>2, <2>3 DEF SInv, Bounded
<1>3. CASE at # Len(Awaits(kind))
  <2>1. /\ UNCHANGED <<kind, timeout, now, loose, out>> /\ at' = at + 1 /\ armed' = now
    BY <1>3 DEF Proceed
  <2>2. at + 1 \in 1..Len(Awaits(kind))
    BY <1>1, <1>3, ScopeFacts
  <2>3. TypeOK'
    BY <1>1, <2>1, <2>2, ScopeFacts DEF TypeOK
  <2>4. Here'.timer = Timer(kind, at + 1) /\ Here.timer = Timer(kind, at)
    BY <2>1 DEF Here, Timer
  <2>5. /\ Here'.timer = "whole" <=> kind = "wrapped"
        /\ Here.timer = "whole" <=> kind = "wrapped"
        /\ Here'.timer \in {"whole", "own", "none"}
        /\ Fuses(kind, at + 1) = Fuses(kind, at) + (IF Here.timer = "own" THEN 1 ELSE 0)
    BY <1>1, <2>2, <2>4, FuseFacts, ScopeFacts
  <2> DEFINE f == Fuses(kind, at)
             spent == f * timeout
             more == (f + 1) * timeout
  <2>6. /\ f \in 0..2 /\ spent \in Int /\ more = spent + timeout /\ timeout \in Nat
        /\ now \in Nat /\ armed \in Nat /\ loose \in Nat
        /\ Here.timer \in {"whole", "own", "none"}
    BY <1>1, ScopeFacts
  <2>7. Here.timer = "own" => now - loose <= more
    BY <1>1, <2>6 DEF Bounded
  <2>8. Here.timer # "whole" => now - loose <= Fuses(kind, at + 1) * timeout
    <3>1. CASE Here.timer = "own"
      BY <3>1, <2>5, <2>7
    <3>2. CASE Here.timer = "none"
      BY <3>2, <1>1, <2>5, <2>6 DEF Bounded
    <3> QED
      BY <3>1, <3>2, <2>6
  <2>9. Fuses(kind, at)' = Fuses(kind, at + 1)
    BY <2>1
  <2>10. Here.timer = "whole" => loose = 0 /\ now <= timeout
    BY <1>1 DEF Bounded
  <2> HIDE DEF f, spent, more
  <2>11. Bounded'
    BY <1>1, <2>1, <2>5, <2>6, <2>8, <2>9, <2>10 DEF Bounded
  <2> QED
    BY <2>3, <2>11 DEF SInv
<1> QED
  BY <1>2, <1>3

\* A failed await ends the call where it stands.
LEMMA FailSInv == SInv /\ Fail => SInv'
<1> SUFFICES ASSUME SInv, Fail PROVE SInv'
  OBVIOUS
<1>1. /\ UNCHANGED <<kind, timeout, now, at, armed, loose>> /\ out' = "err"
      /\ Here' = Here /\ Fuses(kind, at)' = Fuses(kind, at)
  BY DEF Fail, Here
<1> QED
  BY <1>1 DEF SInv, TypeOK, Bounded

\* A timer that fires has expired.
LEMMA TimeOutSInv == SInv /\ TimeOut => SInv'
<1> SUFFICES ASSUME SInv, TimeOut PROVE SInv'
  OBVIOUS
<1>1. /\ UNCHANGED <<kind, timeout, now, at, armed, loose>> /\ out' = "timedout"
      /\ Here' = Here /\ Expired /\ Fuses(kind, at)' = Fuses(kind, at)
  BY DEF TimeOut, Here
<1>2. Expired'
  BY <1>1 DEF Expired, Since
<1> QED
  BY <1>1, <1>2 DEF SInv, TypeOK, Bounded

\* Every step of a call keeps what its timers bound.
LEMMA NextSInv == SInv /\ [Next]_vars => SInv'
<1> SUFFICES ASSUME SInv, [Next]_vars PROVE SInv'
  OBVIOUS
<1>1. CASE UNCHANGED vars
  BY <1>1 DEF vars, SInv, TypeOK, Bounded, Here, Expired, Since
<1>2. CASE Next
  BY <1>1, <1>2, TickSInv, ProceedSInv, FailSInv, TimeOutSInv DEF Next, Done
<1> QED
  BY <1>1, <1>2

\* Every behaviour of a call stays within what its timers bound.
LEMMA ScopeInvariance == Spec => []SInv
BY InitSInv, NextSInv, PTL DEF Spec

\* Type correctness: the await is one of the pinger's, its timer in the past.
THEOREM ScopeTypeCorrect == Spec => []TypeOK
<1>1. SInv => TypeOK
  BY DEF SInv
<1> QED
  BY <1>1, ScopeInvariance, PTL

\* A pinger on with_timeout spends one timeout in all; QUIC and gRPC pings spend
\* one and two, and whatever their awaits under no timer take, for every timeout.
THEOREM BoundedPingsCorrect == Spec => []BoundedPings
<1>1. SInv => BoundedPings
  <2> SUFFICES ASSUME SInv PROVE BoundedPings
    OBVIOUS
  <2>1. TypeOK /\ Bounded
    BY DEF SInv
  <2> DEFINE f == Fuses(kind, at)
             spent == f * timeout
  <2>2. /\ f \in 0..2 /\ timeout \in Nat /\ now \in Nat /\ armed \in Nat /\ loose \in Nat
        /\ kind \in AllKinds /\ Here.timer \in {"whole", "own", "none"}
        /\ Here.timer = "whole" <=> kind = "wrapped"
        /\ kind = "quic" => f + (IF Here.timer = "own" THEN 1 ELSE 0) <= 1
        /\ f + (IF Here.timer = "own" THEN 1 ELSE 0) <= 2
    BY <2>1, ScopeFacts, FuseFacts
  <2>3. /\ f = 0 => spent = 0
        /\ f = 1 => spent = timeout
        /\ f = 2 => spent = 2 * timeout
    BY <2>2
  <2>4. /\ Here.timer = "own" => now - loose <= timeout + spent
        /\ Here.timer = "none" => now - loose <= spent
    BY <2>1, <2>2, <2>3 DEF Bounded
  <2>5. Here.timer = "whole" => loose = 0 /\ now <= timeout
    BY <2>1 DEF Bounded
  <2> HIDE DEF spent, f
  <2> QED
    BY <2>2, <2>3, <2>4, <2>5 DEF BoundedPings, AllKinds
<1> QED
  BY <1>1, ScopeInvariance, PTL

\* quic.rs: the handshake is capped by the timeout, and one that timed out
\* had exactly the timeout, however long the name took to resolve.
THEOREM HandshakeCapCorrect == Spec => []HandshakeCapped
<1>1. SInv => HandshakeCapped
  <2> SUFFICES ASSUME SInv, kind = "quic", Here.what = "connecting"
               PROVE  now - armed <= timeout /\ (out = "timedout" => now - armed = timeout)
    BY DEF HandshakeCapped
  <2>1. TypeOK /\ Bounded
    BY DEF SInv
  <2>2. at \in 1..3 /\ kind \in AllKinds
    <3>1. kind \in AllKinds /\ at \in 1..Len(Awaits(kind))
      BY <2>1, ScopeFacts
    <3>2. Len(Awaits(kind)) = 3
      BY <3>1, AwaitsAre
    <3> QED
      BY <3>1, <3>2
  <2>3. at = 2
    BY <2>2, AwaitsAre DEF Here
  <2>4. Here.timer = "own"
    BY <2>2, <2>3, AwaitsAre DEF Here, Timer
  <2>5. out = "timedout" => now >= armed + timeout
    BY <2>1, <2>4 DEF Bounded, Expired, Since
  <2> QED
    BY <2>1, <2>4, <2>5, ScopeFacts DEF Bounded
<1> QED
  BY <1>1, ScopeInvariance, PTL
=============================================================================
