-------------------------- MODULE PingDriverProofs --------------------------
(***************************************************************************)
(* Proofs about PingDriver, for any number of sessions, any counts, any    *)
(* timeouts and any scheduling delay: first the invariant IInv of types,   *)
(* counters and deadlines, then Settled, about what was logged and         *)
(* reported, and last that the driver implements PingTally.                *)
(***************************************************************************)
EXTENDS PingDriver, SumsProofs, FiniteSetTheorems

(***************************************************************************)
(* Arithmetic and logs                                                     *)
(***************************************************************************)

\* One more turn costs one more multiple of the turn's bound.
LEMMA MulStep ==
  ASSUME NEW n \in Nat, NEW k \in Nat
  PROVE  n * k \in Nat /\ (n + 1) * k = n * k + k
BY Z3

\* A percentage of a part of a non-empty whole is a natural number.
LEMMA PctNat ==
  ASSUME NEW x \in Nat, NEW n \in Nat, n # 0
  PROVE  (x * 100) \div n \in Nat
BY Z3

\* The wins of a log are a number between zero and its length.
LEMMA WinsBounded ==
  ASSUME NEW it \in Seq(Iteration)
  PROVE  Wins(it) \in Nat /\ Wins(it) <= Len(it)
<1> DEFINE W == {k \in 1..Len(it) : it[k].success}
<1>1. IsFiniteSet(1..Len(it)) /\ Cardinality(1..Len(it)) = Len(it)
  <2>1. Len(it) \in Nat
    OBVIOUS
  <2>2. /\ IsFiniteSet(1..Len(it))
        /\ Cardinality(1..Len(it)) = IF 1 > Len(it) THEN 0 ELSE Len(it) - 1 + 1
    BY <2>1, FS_Interval, SMTT(30)
  <2> QED
    BY <2>1, <2>2
<1>2. IsFiniteSet(W) /\ Cardinality(W) <= Cardinality(1..Len(it))
  BY <1>1, FS_Subset
<1> QED
  BY <1>1, <1>2, FS_CardinalityType DEF Wins

\* Logging one more turn adds one to the wins exactly when it succeeded.
LEMMA WinsAppend ==
  ASSUME NEW it \in Seq(Iteration), NEW e \in Iteration
  PROVE  /\ Append(it, e) \in Seq(Iteration)
         /\ Len(Append(it, e)) = Len(it) + 1
         /\ Wins(Append(it, e)) = Wins(it) + (IF e.success THEN 1 ELSE 0)
<1> DEFINE W(q) == {k \in 1..Len(q) : q[k].success}
           n == Len(it) + 1
<1>1. IsFiniteSet(W(it))
  BY FS_Interval, FS_Subset
<1>2. Wins(it) \in Nat
  BY WinsBounded
<1>3. /\ Append(it, e) \in Seq(Iteration)
      /\ Len(Append(it, e)) = n
      /\ Append(it, e)[n] = e
      /\ \A k \in 1..Len(it) : Append(it, e)[k] = it[k]
  OBVIOUS
<1>4. n \notin W(it)
  OBVIOUS
<1>5. ASSUME e.success
      PROVE  Wins(Append(it, e)) = Wins(it) + 1
  <2>1. W(Append(it, e)) = W(it) \cup {n}
    BY <1>3, <1>5
  <2>2. Cardinality(W(it) \cup {n}) = Cardinality(W(it)) + 1
    BY <1>1, <1>4, FS_AddElement
  <2> QED
    BY <2>1, <2>2 DEF Wins
<1>6. ASSUME ~e.success
      PROVE  Wins(Append(it, e)) = Wins(it)
  <2>1. W(Append(it, e)) = W(it)
    BY <1>3, <1>6
  <2> QED
    BY <2>1 DEF Wins
<1> QED
  BY <1>2, <1>3, <1>5, <1>6

\* The empty log has no wins.
LEMMA WinsEmpty == Wins(<<>>) = 0
<1>1. {k \in 1..Len(<<>>) : <<>>[k].success} = {}
  OBVIOUS
<1> QED
  BY <1>1, FS_EmptySet DEF Wins

(***************************************************************************)
(* The inductive invariant                                                 *)
(***************************************************************************)

\* Before any session has begun the invariant holds.
LEMMA InitIInv == Init => IInv
<1> SUFFICES ASSUME Init PROVE IInv
  OBVIOUS
<1> USE ConstantsAssumption DEF Init, Session
<1>1. TypeOK
  BY DEF TypeOK, Iteration, Kinds
<1>2. ASSUME NEW s \in Session
      PROVE  Sound(s)
  BY WinsEmpty DEF Sound, LedgerOf, Phased, Paced, Credited, Active, Turns,
                   Successes
<1> QED
  BY <1>1, <1>2 DEF IInv

\* What every proof below knows of one session's numbers.
LEMMA SessionFacts ==
  ASSUME TypeOK, NEW s \in Session
  PROVE  /\ iterations[s] \in Seq(Iteration)
         /\ Turns(s) \in Nat
         /\ Successes(s) \in Nat
         /\ Successes(s) <= Turns(s)
         /\ count[s] \in Nat /\ timeout[s] \in Nat /\ born[s] \in Nat
         /\ since[s] \in Nat /\ readyAt[s] \in Nat /\ lose[s] \in Nat
         /\ recv[s] \in Nat /\ total[s] \in Nat /\ answered[s] \in Nat
         /\ clock \in Nat
         /\ Budget(s) \in Nat
<1>1. iterations[s] \in Seq(Iteration) /\ timeout[s] \in Nat
  BY DEF TypeOK
<1>2. Turns(s) \in Nat /\ timeout[s] + 2 * Lag \in Nat
  BY <1>1, ConstantsAssumption DEF Turns
<1> QED
  BY <1>1, <1>2, WinsBounded, MulStep DEF TypeOK, Turns, Successes, Budget

\* A step of another session, at the same instant, leaves a session sound.
Untouched(x) ==
  /\ clock' = clock
  /\ pc'[x] = pc[x] /\ count'[x] = count[x] /\ timeout'[x] = timeout[x]
  /\ born'[x] = born[x] /\ since'[x] = since[x] /\ inner'[x] = inner[x]
  /\ readyAt'[x] = readyAt[x] /\ lose'[x] = lose[x] /\ recv'[x] = recv[x]
  /\ total'[x] = total[x] /\ iterations'[x] = iterations[x]
  /\ answered'[x] = answered[x] /\ report'[x] = report[x]
  /\ probe'[x] = probe[x]

\* A session that a step does not touch, at an instant that stays, stays sound.
LEMMA Frame ==
  ASSUME NEW x \in Session, Sound(x), Untouched(x)
  PROVE  Sound(x)'
BY DEF Sound, Untouched, LedgerOf, Phased, Paced, Credited, Active, Wake,
       Deadline, Budget, Turns, Successes, Hangs, Capped

\* Time passes only as far as every awake session's Lag allows (tokio's delay).
LEMMA TickIInv == IInv /\ Tick => IInv'
<1> SUFFICES ASSUME IInv, Tick PROVE IInv'
  OBVIOUS
<1>1. TypeOK
  BY DEF IInv
<1>2. TypeOK'
  BY <1>1 DEF TypeOK, Tick
<1>3. ASSUME NEW x \in Session
      PROVE  Sound(x)'
  <2>1. Sound(x) /\ UNCHANGED <<Turns(x), Successes(x), Budget(x)>>
    BY DEF IInv, Tick, Turns, Successes, Budget
  <2>2. LedgerOf(x)' /\ Phased(x)' /\ Credited(x)'
    BY <2>1 DEF Sound, LedgerOf, Phased, Credited, Tick
  <2>3. /\ Wake(x)' = Wake(x) /\ Active(x)' = Active(x)
        /\ Hangs(x)' = Hangs(x) /\ Capped(x)' = Capped(x)
    BY DEF Tick, Wake, Deadline, Active, Hangs, Capped
  <2>4. Wake(x) \in Nat
    <3>1. /\ since[x] + ResolveMax \in Nat
          /\ Deadline(x) \in Nat
          /\ since[x] \in Nat /\ readyAt[x] \in Nat
      BY <1>1, SessionFacts, ConstantsAssumption, SMTT(30) DEF Deadline
    <3> QED
      BY <3>1 DEF Wake
  <2>5. Paced(x)'
    BY <1>1, <2>1, <2>3, <2>4, SessionFacts, ConstantsAssumption, SMTT(30)
       DEF Sound, Paced, Tick
  <2> QED
    BY <2>2, <2>5 DEF Sound
<1> QED
  BY <1>2, <1>3 DEF IInv

\* main, up to its await of resolve, keeps the invariant.
LEMMA LaunchIInv ==
  ASSUME NEW s \in Session, NEW c \in Counts, NEW k \in Probes
  PROVE  IInv /\ Launch(s, c, k) => IInv'
<1> SUFFICES ASSUME IInv, Launch(s, c, k) PROVE IInv'
  OBVIOUS
<1> USE ConstantsAssumption
<1>1. TypeOK /\ Sound(s)
  BY DEF IInv
<1>2. TypeOK'
  BY <1>1 DEF TypeOK, Launch
<1>3. ASSUME NEW x \in Session, x # s
      PROVE  Sound(x)'
  <2>1. Untouched(x)
    BY <1>1, <1>3 DEF Launch, Untouched, TypeOK
  <2> QED
    BY <2>1, Frame DEF IInv
<1>4. Sound(s)'
  <2>1. UNCHANGED <<Turns(s), Successes(s)>>
    BY DEF Launch, Turns, Successes
  <2>2. LedgerOf(s)'
    BY <1>1, <2>1, SessionFacts DEF Launch, Sound, LedgerOf, Phased, Turns, TypeOK
  <2>3. Phased(s)'
    BY <1>1, <2>1, SessionFacts DEF Launch, Sound, Phased, TypeOK
  <2>4. Paced(s)'
    BY <1>1, <2>1, SessionFacts DEF Launch, Sound, Paced, Phased, Active, Wake,
                                    Deadline, Hangs, TypeOK
  <2>5. Credited(s)'
    BY <1>1, <2>1, SessionFacts DEF Launch, Sound, Credited, TypeOK
  <2> QED
    BY <2>2, <2>3, <2>4, <2>5 DEF Sound
<1> QED
  BY <1>2, <1>3, <1>4 DEF IInv

\* The return of resolve, with or without addresses, keeps the invariant.
LEMMA ResolvedIInv ==
  ASSUME NEW s \in Session
  PROVE  IInv /\ Resolved(s) => IInv'
<1> SUFFICES ASSUME IInv, Resolved(s) PROVE IInv'
  OBVIOUS
<1> USE ConstantsAssumption
<1>1. TypeOK /\ Sound(s)
  BY DEF IInv
<1>2. TypeOK'
  BY <1>1 DEF TypeOK, Resolved
<1>3. ASSUME NEW x \in Session, x # s
      PROVE  Sound(x)'
  <2>1. Untouched(x)
    BY <1>1, <1>3 DEF Resolved, Untouched, TypeOK
  <2> QED
    BY <2>1, Frame DEF IInv
<1>4. Sound(s)'
  <2>1. UNCHANGED <<Turns(s), Successes(s)>>
    BY DEF Resolved, Turns, Successes
  <2>2. LedgerOf(s)'
    BY <1>1, <2>1, SessionFacts DEF Resolved, Sound, LedgerOf, Phased, Turns, TypeOK
  <2>3. Phased(s)'
    BY <1>1, <2>1, SessionFacts DEF Resolved, Sound, Phased, TypeOK
  <2>4. Paced(s)'
    <3>1. Turns(s)' \in Nat /\ (timeout[s] + 2 * Lag)' \in Nat
      <4>1. Turns(s)' \in Nat
        BY <1>1, <2>1, SessionFacts
      <4>2. timeout'[s] \in Nat
        BY <1>2 DEF TypeOK
      <4> QED
        BY <4>1, <4>2
    <3>2. Budget(s)' \in Nat
      BY <3>1, MulStep DEF Budget
    <3>3. since'[s] = clock /\ born'[s] = clock /\ clock' = clock /\ clock \in Nat
      BY <1>1 DEF Resolved, TypeOK
    <3>4. pc'[s] = "looping"
      BY <1>1 DEF Resolved, TypeOK
    <3> QED
      BY <3>2, <3>3, <3>4 DEF Paced, Active, Wake
  <2>5. Credited(s)'
    BY <1>1, <2>1, SessionFacts DEF Resolved, Sound, Credited, TypeOK
  <2> QED
    BY <2>2, <2>3, <2>4, <2>5 DEF Sound
<1> QED
  BY <1>2, <1>3, <1>4 DEF IInv

\* The arguments of a tool call are natural numbers once defaulted.
LEMMA ArgumentsNat ==
  ASSUME NEW c \in CallCounts \cup {None}, NEW t \in Timeouts \cup {None}
  PROVE  count_or_default(c) \in Nat /\ timeout_or_default(t) \in Nat
BY ConstantsAssumption DEF count_or_default, timeout_or_default

\* A tool call, panicking or not, keeps the invariant.
LEMMA CallIInv ==
  ASSUME NEW s \in Session, NEW c \in CallCounts \cup {None},
         NEW t \in Timeouts \cup {None}, NEW k \in Probes
  PROVE  IInv /\ Call(s, c, t, k) => IInv'
<1> SUFFICES ASSUME IInv, Call(s, c, t, k) PROVE IInv'
  OBVIOUS
<1> USE ConstantsAssumption
<1>1. TypeOK /\ Sound(s)
  BY DEF IInv
<1>2. TypeOK'
  BY <1>1, ArgumentsNat DEF TypeOK, Call
<1>3. ASSUME NEW x \in Session, x # s
      PROVE  Sound(x)'
  <2>1. Untouched(x)
    BY <1>1, <1>3 DEF Call, Untouched, TypeOK
  <2> QED
    BY <2>1, Frame DEF IInv
<1>4. Sound(s)'
  <2>1. UNCHANGED <<Turns(s), Successes(s)>>
    BY DEF Call, Turns, Successes
  <2>2. LedgerOf(s)'
    <3>1. Turns(s) = 0 /\ LedgerOf(s) /\ count'[s] \in Nat
      BY <1>1, <1>2 DEF Call, Sound, Phased, Turns, TypeOK
    <3> QED
      BY <2>1, <3>1 DEF Call, LedgerOf
  <2>3. Phased(s)'
    BY <1>1, <2>1, SessionFacts DEF Call, Sound, Phased, TypeOK
  <2>4. Paced(s)'
    <3>1. Turns(s)' \in Nat /\ (timeout[s] + 2 * Lag)' \in Nat
      <4>1. Turns(s)' \in Nat
        BY <1>1, <2>1, SessionFacts
      <4>2. timeout'[s] \in Nat
        BY <1>2 DEF TypeOK
      <4> QED
        BY <4>1, <4>2
    <3>2. Budget(s)' \in Nat
      BY <3>1, MulStep DEF Budget
    <3>3. since'[s] = clock /\ born'[s] = clock /\ clock' = clock /\ clock \in Nat
      BY <1>1 DEF Call, TypeOK
    <3>4. pc'[s] \in {"looping", "panicked"}
      BY <1>1 DEF Call, TypeOK
    <3> QED
      BY <3>2, <3>3, <3>4 DEF Paced, Active, Wake
  <2>5. Credited(s)'
    BY <1>1, <2>1, SessionFacts DEF Call, Sound, Credited, TypeOK
  <2> QED
    BY <2>2, <2>3, <2>4, <2>5 DEF Sound
<1> QED
  BY <1>2, <1>3, <1>4 DEF IInv

\* The end of the process, with every call it owed an answer, keeps it too.
LEMMA AbortIInv ==
  ASSUME NEW s \in Session, NEW c \in CallCounts \cup {None}
  PROVE  IInv /\ CallAborts(s, c) => IInv'
<1> SUFFICES ASSUME IInv, CallAborts(s, c) PROVE IInv'
  OBVIOUS
<1>1. TypeOK
  BY DEF IInv
<1>2. TypeOK'
  BY <1>1 DEF TypeOK, CallAborts
<1>3. ASSUME NEW x \in Session
      PROVE  Sound(x)'
  <2>1. CASE Owed(x)
    <3>1. Sound(x) /\ pc'[x] = "aborted"
      BY <2>1 DEF IInv, CallAborts
    <3>2. report[x] = None
      BY <2>1, <3>1 DEF Sound, Phased, Owed
    <3> QED
      BY <3>1, <3>2 DEF CallAborts, Sound, LedgerOf, Phased, Paced, Credited, Active,
                        Turns, Successes
  <2>2. CASE ~Owed(x)
    <3>1. Untouched(x)
      BY <2>2 DEF CallAborts, Untouched
    <3> QED
      BY <3>1, Frame DEF IInv
  <2> QED
    BY <2>1, <2>2
<1> QED
  BY <1>2, <1>3 DEF IInv

\* The start of timed keeps the invariant.
LEMMA StartPingIInv ==
  ASSUME NEW s \in Session
  PROVE  IInv /\ StartPing(s) => IInv'
<1> SUFFICES ASSUME IInv, StartPing(s) PROVE IInv'
  OBVIOUS
<1> USE ConstantsAssumption
<1>1. TypeOK /\ Sound(s)
  BY DEF IInv
<1>2. TypeOK'
  BY <1>1 DEF TypeOK, StartPing
<1>3. ASSUME NEW x \in Session, x # s
      PROVE  Sound(x)'
  <2>1. Untouched(x)
    BY <1>1, <1>3 DEF StartPing, Untouched, TypeOK
  <2> QED
    BY <2>1, Frame DEF IInv
<1>4. Sound(s)'
  <2>1. UNCHANGED <<Turns(s), Successes(s)>>
    BY DEF StartPing, Turns, Successes
  <2>2. LedgerOf(s)'
    BY <1>1, <2>1, SessionFacts DEF StartPing, Sound, LedgerOf, Phased, Turns, TypeOK
  <2>3. Phased(s)'
    BY <1>1, <2>1, SessionFacts DEF StartPing, Sound, Phased, TypeOK
  <2>4. Paced(s)'
    <3>1. Budget(s)' = Budget(s)
      BY <2>1 DEF StartPing, Budget
    <3>2. /\ pc[s] = "looping" /\ pc'[s] \in {"pinging", "panicked"}
          /\ inner'[s] = "pending"
          /\ since'[s] = clock /\ born' = born /\ clock' = clock
          /\ timeout' = timeout /\ Capped(s)' = Capped(s)
      BY <1>1 DEF StartPing, TypeOK, Capped
    <3>3. /\ clock <= since[s] + Lag /\ born[s] <= since[s] /\ since[s] <= clock
          /\ Capped(s) => since[s] - born[s] <= Budget(s)
      BY <1>1, <3>2 DEF Sound, Paced, Active, Wake, Hangs
    <3>4. pc'[s] = "pinging" => Wake(s)' = clock + timeout[s]
      BY <3>2 DEF Wake, Deadline
    <3>5. /\ clock \in Nat /\ timeout[s] \in Nat /\ since[s] \in Nat
          /\ born[s] \in Nat /\ Budget(s) \in Nat /\ Lag \in Nat
      BY <1>1, SessionFacts
    <3>6. /\ clock <= clock + timeout[s] + Lag
          /\ born[s] <= clock
          /\ Capped(s) => clock - born[s] <= Budget(s) + Lag
      BY <3>3, <3>5
    <3> QED
      BY <3>1, <3>2, <3>4, <3>5, <3>6 DEF Paced, Active
  <2>5. Credited(s)'
    BY <1>1, <2>1, SessionFacts DEF StartPing, Sound, Credited, TypeOK
  <2> QED
    BY <2>2, <2>3, <2>4, <2>5 DEF Sound
<1> QED
  BY <1>2, <1>3, <1>4 DEF IInv

\* An answer or an error from the network keeps the invariant.
LEMMA InnerReadyIInv ==
  ASSUME NEW s \in Session, NEW r \in {"ok", "err", "panic"}
  PROVE  IInv /\ InnerReady(s, r) => IInv'
<1> SUFFICES ASSUME IInv, InnerReady(s, r) PROVE IInv'
  OBVIOUS
<1> USE ConstantsAssumption
<1>1. TypeOK /\ Sound(s)
  BY DEF IInv
<1>2. TypeOK'
  <2>1. (IF r = "ok" /\ clock <= Deadline(s) THEN answered[s] + 1
                                             ELSE answered[s]) \in Nat
    BY <1>1, SessionFacts
  <2> QED
    BY <1>1, <2>1 DEF TypeOK, InnerReady
<1>3. ASSUME NEW x \in Session, x # s
      PROVE  Sound(x)'
  <2>1. Untouched(x)
    BY <1>1, <1>3 DEF InnerReady, Untouched, TypeOK
  <2> QED
    BY <2>1, Frame DEF IInv
<1>4. Sound(s)'
  <2>1. UNCHANGED <<Turns(s), Successes(s)>>
    BY DEF InnerReady, Turns, Successes
  <2>2. LedgerOf(s)'
    BY <1>1, <2>1, SessionFacts DEF InnerReady, Sound, LedgerOf, Phased, Turns, TypeOK
  <2>3. Phased(s)'
    BY <1>1, <2>1, SessionFacts DEF InnerReady, Sound, Phased, TypeOK
  <2>4. Paced(s)'
    <3>1. Budget(s)' = Budget(s)
      BY <2>1 DEF InnerReady, Budget
    <3>2. /\ pc[s] = "pinging" /\ pc' = pc /\ inner[s] = "pending"
          /\ since' = since /\ born' = born /\ clock' = clock
          /\ timeout' = timeout /\ readyAt'[s] = clock /\ inner'[s] # "pending"
          /\ Capped(s)' = Capped(s)
      BY <1>1 DEF InnerReady, TypeOK, Capped
    <3>3. Capped(s) => clock <= Deadline(s) + Lag
      BY <1>1, <3>2 DEF Sound, Paced, Active, Hangs, Wake
    <3>4. clock <= Wake(s)' + Lag
      <4>1. clock \in Nat /\ Deadline(s) \in Nat /\ Deadline(s)' = Deadline(s)
        BY <1>1, <3>2, SessionFacts DEF Deadline
      <4>2. Wake(s)' = IF Capped(s) => clock < Deadline(s) THEN clock ELSE Deadline(s)
        BY <3>2, <4>1 DEF Wake
      <4> QED
        BY <3>3, <4>1, <4>2
    <3> QED
      BY <1>1, <3>1, <3>2, <3>4, SessionFacts DEF Sound, Paced
  <2>5. Credited(s)'
    <3>1. /\ answered'[s] = answered[s] \/ (r = "ok" /\ answered'[s] = answered[s] + 1)
          /\ pc[s] = "pinging" /\ pc'[s] = "pinging" /\ inner[s] = "pending"
          /\ inner'[s] = r
      BY <1>1 DEF InnerReady, TypeOK
    <3> QED
      BY <1>1, <2>1, <3>1, SessionFacts DEF Sound, Credited
  <2> QED
    BY <2>2, <2>3, <2>4, <2>5 DEF Sound
<1> QED
  BY <1>2, <1>3, <1>4 DEF IInv

\* A capped turn never outlives its timer by more than one poll.
LEMMA TurnInTime ==
  ASSUME NEW s \in Session, TypeOK, Sound(s), pc[s] = "pinging"
  PROVE  Capped(s) => clock <= since[s] + timeout[s] + Lag
<1> SUFFICES ASSUME Capped(s) PROVE clock <= since[s] + timeout[s] + Lag
  OBVIOUS
<1>1. clock <= Wake(s) + Lag
  BY DEF Sound, Paced, Active, Hangs
<1>2. /\ clock \in Nat /\ since[s] \in Nat /\ timeout[s] \in Nat /\ readyAt[s] \in Nat
      /\ Lag \in Nat
  BY SessionFacts, ConstantsAssumption
<1>3. Wake(s) = Deadline(s) \/ (Wake(s) = readyAt[s] /\ readyAt[s] < Deadline(s))
  BY DEF Wake
<1> QED
  BY <1>1, <1>2, <1>3 DEF Deadline

\* Both ways a turn ends, counted as won or as lost, keep the invariant.
LEMMA TurnEnds ==
  ASSUME NEW s \in Session, NEW won \in BOOLEAN, IInv, pc[s] = "pinging",
         IF won THEN CountOk(s) ELSE CountErr(s), EndTurn(s),
         inner[s] = "ok" => won
  PROVE  IInv'
<1> USE ConstantsAssumption
<1> DEFINE e == [success |-> won,
                 elapsed |-> IF won THEN clock - since[s] ELSE 0]
<1>1. TypeOK /\ Sound(s)
  BY DEF IInv
<1>2. /\ since[s] <= clock /\ born[s] <= since[s]
      /\ Capped(s) => /\ clock <= since[s] + timeout[s] + Lag
                      /\ since[s] - born[s] <= Budget(s) + Lag
  BY <1>1, TurnInTime DEF Sound, Paced
<1>3. e \in Iteration /\ iterations' = [iterations EXCEPT ![s] = Append(@, e)]
  <2>1. (IF won THEN clock - since[s] ELSE 0) \in Nat
    BY <1>1, <1>2, SessionFacts
  <2>2. CASE won
    BY <2>1, <2>2 DEF Iteration, CountOk, StartOf
  <2>3. CASE ~won
    BY <2>1, <2>3 DEF Iteration, CountErr
  <2> QED
    BY <2>2, <2>3
<1>4. iterations[s] \in Seq(Iteration) /\ iterations'[s] = Append(iterations[s], e)
  BY <1>1, <1>3 DEF TypeOK
<1>5. /\ iterations'[s] \in Seq(Iteration)
      /\ Turns(s)' = Turns(s) + 1
      /\ Successes(s)' = Successes(s) + (IF won THEN 1 ELSE 0)
  <2> HIDE DEF e
  <2>1. e.success = won
    BY DEF e
  <2> QED
    BY <1>3, <1>4, <2>1, WinsAppend DEF Turns, Successes
<1>6. TypeOK'
  <2>1. iterations' \in [Session -> Seq(Iteration)]
    BY <1>1, <1>3, <1>4, <1>5 DEF TypeOK
  <2>2. clock - since[s] \in Nat
    BY <1>1, <1>2, SessionFacts
  <2>3. /\ total' \in [Session -> Nat]
        /\ recv' \in [Session -> Nat]
        /\ lose' \in [Session -> Nat]
    <3>1. CASE won
      <4>1. CountOk(s)
        BY <3>1
      <4>2. /\ total' = [total EXCEPT ![s] = @ + (clock - since[s])]
            /\ recv' = [recv EXCEPT ![s] = IF s \in Mcp THEN @ + 1 ELSE @]
            /\ lose' = lose
        BY <4>1 DEF CountOk, StartOf
      <4>3. /\ total \in [Session -> Nat]
            /\ recv \in [Session -> Nat]
            /\ lose \in [Session -> Nat]
        BY <1>1 DEF TypeOK
      <4>4. total[s] + (clock - since[s]) \in Nat
        BY <2>2, <4>3
      <4> QED
        BY <4>2, <4>3, <4>4
    <3>2. CASE ~won
      <4>1. CountErr(s)
        BY <3>2
      <4> QED
        BY <1>1, <4>1, SMTT(30) DEF TypeOK, CountErr
    <3> QED
      BY <3>1, <3>2
  <2> QED
    BY <1>1, <2>1, <2>3 DEF TypeOK, EndTurn
<1>7. ASSUME NEW x \in Session, x # s
      PROVE  Sound(x)'
  <2>1. Untouched(x)
    <3>1. /\ lose'[x] = lose[x] /\ recv'[x] = recv[x] /\ total'[x] = total[x]
      BY <1>1, <1>7 DEF CountOk, CountErr, TypeOK
    <3>2. iterations'[x] = iterations[x]
      BY <1>1, <1>3, <1>7 DEF TypeOK
    <3> QED
      BY <1>1, <1>7, <3>1, <3>2 DEF EndTurn, Untouched, TypeOK
  <2> QED
    BY <2>1, Frame DEF IInv
<1>8. Sound(s)'
  <2>1. /\ count'[s] = count[s] /\ timeout'[s] = timeout[s]
        /\ born'[s] = born[s] /\ since'[s] = clock /\ clock' = clock
        /\ pc'[s] = "looping" /\ report'[s] = report[s]
        /\ answered'[s] = answered[s] /\ Capped(s)' = Capped(s)
    BY <1>1 DEF EndTurn, TypeOK, Capped
  <2>2. LedgerOf(s)'
    <3>1. Turns(s) < count[s]
      BY <1>1 DEF Sound, Phased
    <3>2. /\ s \in Cli => lose'[s] = lose[s] + (IF won THEN 0 ELSE 1)
          /\ s \in Mcp => recv'[s] = recv[s] + (IF won THEN 1 ELSE 0)
      BY <1>1 DEF CountOk, CountErr, TypeOK
    <3>3. LedgerOf(s) /\ Turns(s) \in Nat /\ Successes(s) \in Nat
          /\ lose[s] \in Nat /\ recv[s] \in Nat /\ count[s] \in Nat
      BY <1>1, SessionFacts DEF Sound
    <3>4. Turns(s)' <= count'[s]
      BY <1>5, <2>1, <3>1, <3>3
    <3>5. CASE won
      <4>1. Turns(s)' = Turns(s) + 1 /\ Successes(s)' = Successes(s) + 1
        BY <1>5, <3>5
      <4>2. s \in Cli => lose'[s] + Successes(s)' = Turns(s)'
        BY <3>2, <3>3, <3>5, <4>1 DEF LedgerOf
      <4>3. s \in Mcp => recv'[s] = Successes(s)'
        BY <3>2, <3>3, <3>5, <4>1 DEF LedgerOf
      <4> QED
        BY <3>4, <4>2, <4>3 DEF LedgerOf
    <3>6. CASE ~won
      <4>1. Turns(s)' = Turns(s) + 1 /\ Successes(s)' = Successes(s)
        BY <1>5, <3>3, <3>6
      <4>2. s \in Cli => lose'[s] + Successes(s)' = Turns(s)'
        BY <3>2, <3>3, <3>6, <4>1 DEF LedgerOf
      <4>3. s \in Mcp => recv'[s] = Successes(s)'
        BY <3>2, <3>3, <3>6, <4>1 DEF LedgerOf
      <4> QED
        BY <3>4, <4>2, <4>3 DEF LedgerOf
    <3> QED
      BY <3>5, <3>6
  <2>3. Phased(s)'
    BY <1>1, <2>1 DEF Sound, Phased
  <2>4. Paced(s)'
    <3>1. Budget(s)' = Budget(s) + timeout[s] + 2 * Lag
      <4>1. Turns(s) \in Nat /\ timeout[s] + 2 * Lag \in Nat
        BY <1>1, SessionFacts
      <4>2. (Turns(s) + 1) * (timeout[s] + 2 * Lag)
              = Turns(s) * (timeout[s] + 2 * Lag) + (timeout[s] + 2 * Lag)
        BY <4>1, MulStep
      <4>3. Budget(s)' = (Turns(s) + 1) * (timeout[s] + 2 * Lag)
        BY <1>5, <2>1 DEF Budget
      <4>4. Budget(s) \in Nat /\ timeout[s] \in Nat
        BY <1>1, SessionFacts
      <4> QED
        BY <4>2, <4>3, <4>4 DEF Budget
    <3>2. /\ Budget(s) \in Nat /\ timeout[s] \in Nat /\ clock \in Nat
          /\ since[s] \in Nat /\ born[s] \in Nat
      BY <1>1, SessionFacts
    <3>3. born[s] <= clock /\ (Capped(s) => clock - born[s] <= Budget(s)')
      BY <1>2, <3>1, <3>2
    <3> QED
      BY <2>1, <3>2, <3>3 DEF Paced, Active, Wake
  <2>5. Credited(s)'
    BY <1>1, <1>5, <2>1, SessionFacts DEF Sound, Credited
  <2> QED
    BY <2>2, <2>3, <2>4, <2>5 DEF Sound
<1> QED
  BY <1>6, <1>7, <1>8 DEF IInv

\* A panic in the middle of a ping keeps the invariant.
LEMMA PanicIInv ==
  ASSUME NEW s \in Session, IInv, PollPanics(s)
  PROVE  IInv'
<1>1. TypeOK /\ Sound(s)
  BY DEF IInv
<1>2. TypeOK'
  BY <1>1 DEF TypeOK, PollPanics
<1>3. ASSUME NEW x \in Session, x # s
      PROVE  Sound(x)'
  <2>1. Untouched(x)
    BY <1>1, <1>3 DEF PollPanics, Untouched, TypeOK
  <2> QED
    BY <2>1, Frame DEF IInv
<1>4. Sound(s)'
  <2>1. pc[s] = "pinging" /\ inner[s] = "panic" /\ pc'[s] = "panicked"
    BY <1>1 DEF PollPanics, TypeOK
  <2>2. UNCHANGED <<Turns(s), Successes(s)>>
    BY DEF PollPanics, Turns, Successes
  <2>3. LedgerOf(s)' /\ Phased(s)' /\ Paced(s)'
    BY <1>1, <2>1, <2>2 DEF PollPanics, Sound, LedgerOf, Phased, Paced, Active
  <2>4. Credited(s)'
    BY <1>1, <2>1, <2>2, SessionFacts DEF PollPanics, Sound, Credited
  <2> QED
    BY <2>3, <2>4 DEF Sound
<1> QED
  BY <1>2, <1>3, <1>4 DEF IInv

\* A poll of with_timeout that ends the turn keeps the invariant.
LEMMA PollIInv ==
  ASSUME NEW s \in Session, IInv, Poll(s)
  PROVE  IInv'
<1>1. CASE PollReady(s)
  <2>1. (inner[s] = "ok") \in BOOLEAN
    OBVIOUS
  <2> QED
    BY <1>1, <2>1, TurnEnds DEF PollReady
<1>2. CASE PollTimeout(s)
  <2>1. CountErr(s) /\ EndTurn(s) /\ pc[s] = "pinging" /\ inner[s] # "ok"
    BY <1>2 DEF PollTimeout, TimerFires
  <2> QED
    BY <2>1, TurnEnds
<1>3. CASE PollPanics(s)
  BY <1>3, PanicIInv
<1> QED
  BY <1>1, <1>2, <1>3 DEF Poll

\* The numbers of a report are natural: no subtraction of main or run_pings
\* goes below zero and none of their divisions is by zero.
LEMMA ReportIsNumbers ==
  ASSUME NEW s \in Session, IInv
  PROVE  (IF s \in Cli THEN display_statistic(s) ELSE Summary(s)) \in Numbers
<1>3. TypeOK /\ Sound(s)
  BY DEF IInv
<1>1. CASE s \in Cli
  <2>1. /\ lose[s] \in Nat /\ count[s] \in Nat /\ lose[s] <= count[s]
        /\ count[s] - lose[s] \in Nat
    BY <1>3, <1>1, SessionFacts DEF Sound, LedgerOf
  <2>2. /\ cli_pct(lose[s], count[s]) \in Nat
        /\ cli_pct(count[s] - lose[s], count[s]) \in Nat
    BY <2>1, PctNat DEF cli_pct
  <2> QED
    BY <1>3, <1>1, <2>1, <2>2, SessionFacts DEF display_statistic, Numbers
<1>2. CASE s \notin Cli
  <2>1. /\ recv[s] \in Nat /\ count[s] \in Nat
        /\ count[s] - recv[s] \in Nat
    BY <1>3, <1>2, SessionFacts DEF Sound, LedgerOf, Session
  <2>2. mcp_pct(count[s] - recv[s], count[s]) \in Nat
    BY <2>1, PctNat DEF mcp_pct
  <2> QED
    BY <1>3, <1>2, <2>1, <2>2, SessionFacts DEF Summary, Numbers
<1> QED
  BY <1>1, <1>2

\* display_statistic and the Summary of run_pings keep the invariant.
LEMMA ReportIInv ==
  ASSUME NEW s \in Session, IInv, Report(s)
  PROVE  IInv'
<1> USE ConstantsAssumption
<1>1. TypeOK /\ Sound(s)
  BY DEF IInv
<1>2. report' = [report EXCEPT ![s] =
                   IF s \in Cli THEN display_statistic(s) ELSE Summary(s)]
  BY DEF Report
<1>3. (IF s \in Cli THEN display_statistic(s) ELSE Summary(s)) \in Numbers
  BY ReportIsNumbers
<1>4. TypeOK'
  <2> DEFINE v == IF s \in Cli THEN display_statistic(s) ELSE Summary(s)
  <2> HIDE DEF v
  <2>1. v \in Numbers /\ report' = [report EXCEPT ![s] = v]
    BY <1>2, <1>3 DEF v
  <2>2. report' \in [Session -> Numbers \cup {None}]
    BY <1>1, <2>1 DEF TypeOK
  <2> QED
    BY <1>1, <2>2 DEF TypeOK, Report
<1>5. ASSUME NEW x \in Session, x # s
      PROVE  Sound(x)'
  <2>1. Untouched(x)
    BY <1>1, <1>5 DEF Report, Untouched, TypeOK
  <2> QED
    BY <2>1, Frame DEF IInv
<1>6. Sound(s)'
  <2>1. UNCHANGED <<Turns(s), Successes(s), Budget(s)>>
    BY DEF Report, Turns, Successes, Budget
  <2>2. /\ pc[s] = "looping" /\ pc'[s] = "done" /\ Turns(s) = count[s]
        /\ since'[s] = clock /\ clock' = clock /\ Capped(s)' = Capped(s)
    BY <1>1 DEF Report, TypeOK, Capped
  <2>3. LedgerOf(s)' /\ Phased(s)' /\ Credited(s)'
    BY <1>1, <2>1, <2>2 DEF Report, Sound, LedgerOf, Phased, Credited
  <2>4. Paced(s)'
    <3>1. /\ clock <= since[s] + Lag
          /\ Capped(s) => since[s] - born[s] <= Budget(s)
          /\ born[s] <= since[s] /\ since[s] <= clock
      BY <1>1, <2>2 DEF Sound, Paced, Active, Wake, Hangs
    <3> QED
      BY <1>1, <2>1, <2>2, <3>1, SessionFacts, SMTT(30) DEF Report, Paced, Active
  <2> QED
    BY <2>3, <2>4 DEF Sound
<1> QED
  BY <1>4, <1>5, <1>6 DEF IInv

\* Every step of the two loops keeps the invariant.
LEMMA NextIInv == IInv /\ [Next]_vars => IInv'
<1> SUFFICES ASSUME IInv, [Next]_vars PROVE IInv'
  OBVIOUS
<1>1. CASE UNCHANGED vars
  BY <1>1 DEF vars, IInv, TypeOK, Sound, LedgerOf, Phased, Paced, Credited,
              Active, Wake, Deadline, Budget, Turns, Successes, Hangs, Capped
<1>2. CASE Next
  BY <1>1, <1>2, TickIInv, LaunchIInv, CallIInv, AbortIInv, ResolvedIInv,
     StartPingIInv, InnerReadyIInv, PollIInv, ReportIInv DEF Next, Step, Quiet
<1> QED
  BY <1>1, <1>2

\* Every behaviour of the driver keeps the inductive invariant.
LEMMA Invariance == Spec => []IInv
BY InitIInv, NextIInv, PTL DEF Spec

(***************************************************************************)
(* The theorems                                                            *)
(***************************************************************************)

\* Type correctness: no u64 subtraction of the loops underflows and no
\* percentage divides by zero, whatever counts are asked for.
THEOREM TypeCorrect == Spec => []TypeOK
<1>1. IInv => TypeOK
  BY DEF IInv
<1> QED
  BY <1>1, Invariance, PTL

\* The single counter of each loop agrees with the log.
THEOREM LedgerCorrect == Spec => []Ledger
<1>1. IInv => Ledger
  BY DEF IInv, Sound, Ledger
<1> QED
  BY <1>1, Invariance, PTL

\* with_timeout never turns an answer that was there in time into a loss.
THEOREM AnswerInTimeCorrect == Spec => []AnswerInTimeCounts
<1>1. IInv => AnswerInTimeCounts
  <2> SUFFICES ASSUME IInv, NEW s \in Session, pc[s] \in {"looping", "done"}
               PROVE  answered[s] <= Successes(s)
    BY DEF AnswerInTimeCounts
  <2>1. TypeOK /\ Credited(s)
    BY DEF IInv, Sound
  <2> QED
    BY <2>1, SessionFacts DEF Credited
<1> QED
  BY <1>1, Invariance, PTL

\* The report of a capped session comes within count * (timeout + 2 Lag) + Lag.
THEOREM ReportInTimeCorrect == Spec => []ReportInTime
<1>1. IInv => ReportInTime
  BY DEF IInv, Sound, Paced, Phased, Budget, ReportInTime
<1> QED
  BY <1>1, Invariance, PTL

(***************************************************************************)
(* What the driver reports: the times it logs, the total, the numbers of   *)
(* the report, and that main and run_pings implement PingTally.            *)
(***************************************************************************)


\* timed() counts an instant at most once: the total fits between the start
\* of the loop and the last clock reading.
Walled(s) == total[s] <= since[s] - born[s]

\* Every time a capped session logged is bounded by its pinger's timeout.
Logged(s) ==
  Capped(s) => \A k \in 1..Turns(s) : iterations[s][k].elapsed <= timeout[s] + Lag

\* A report is never recomputed and its inputs never change afterwards.
Reported(s) ==
  pc[s] = "done" =>
    report[s] = IF s \in Cli THEN display_statistic(s) ELSE Summary(s)

Settled == \A s \in Session : Walled(s) /\ Logged(s) /\ Reported(s)

\* Before any session has begun there is nothing to report.
LEMMA InitSettled == Init => Settled
<1> SUFFICES ASSUME Init, NEW s \in Session
             PROVE  Walled(s) /\ Logged(s) /\ Reported(s)
  BY DEF Settled
<1>1. /\ total[s] = 0 /\ since[s] = 0 /\ born[s] = 0 /\ pc[s] = "idle"
      /\ iterations[s] = <<>>
  BY DEF Init
<1> QED
  BY <1>1 DEF Walled, Logged, Reported, Turns

\* A step that leaves a session's numbers alone leaves it settled.
LEMMA FrameSettled ==
  ASSUME NEW x \in Session, Walled(x) /\ Logged(x) /\ Reported(x), Untouched(x)
  PROVE  Walled(x)' /\ Logged(x)' /\ Reported(x)'
BY DEF Walled, Logged, Reported, Untouched, Turns, display_statistic, Summary,
       Capped

\* A turn that ends adds no more than its own time to the total and to the log.
LEMMA TurnSettles ==
  ASSUME NEW s \in Session, NEW won \in BOOLEAN, IInv, pc[s] = "pinging",
         IF won THEN CountOk(s) ELSE CountErr(s), EndTurn(s),
         Walled(s) /\ Logged(s) /\ Reported(s)
  PROVE  Walled(s)' /\ Logged(s)' /\ Reported(s)'
<1> DEFINE d == IF won THEN clock - since[s] ELSE 0
           e == [success |-> won, elapsed |-> d]
<1>1. TypeOK /\ Sound(s)
  BY DEF IInv
<1>2. /\ since[s] <= clock /\ born[s] <= since[s]
      /\ Capped(s) => clock <= since[s] + timeout[s] + Lag
  BY <1>1, TurnInTime DEF Sound, Paced
<1>3. /\ clock \in Nat /\ since[s] \in Nat /\ born[s] \in Nat
      /\ timeout[s] \in Nat /\ total[s] \in Nat /\ Lag \in Nat
      /\ iterations[s] \in Seq(Iteration)
  BY <1>1, SessionFacts, ConstantsAssumption
<1>4. d \in Nat /\ d <= clock - since[s] /\ (Capped(s) => d <= timeout[s] + Lag)
  BY <1>2, <1>3, SMTT(30)
<1>5. total'[s] = total[s] + d /\ iterations'[s] = Append(iterations[s], e)
  <2>1. total \in [Session -> Nat] /\ iterations \in [Session -> Seq(Iteration)]
    BY <1>1 DEF TypeOK
  <2>2. CASE won
    BY <2>1, <2>2, <1>3 DEF CountOk, StartOf
  <2>3. CASE ~won
    <3>1. total' = total /\ total[s] + 0 = total[s]
      BY <1>3, <2>3 DEF CountErr
    <3>2. iterations' = [iterations EXCEPT ![s] = Append(@, e)]
      BY <2>3 DEF CountErr
    <3> QED
      BY <2>1, <2>3, <3>1, <3>2
  <2> QED
    BY <2>2, <2>3
<1>6. /\ since'[s] = clock /\ born'[s] = born[s] /\ timeout'[s] = timeout[s]
      /\ pc'[s] = "looping" /\ Capped(s)' = Capped(s)
  BY <1>1 DEF EndTurn, TypeOK, Capped
<1>7. Walled(s)'
  <2> HIDE DEF d
  <2> QED
    BY <1>2, <1>3, <1>4, <1>5, <1>6, SMTT(30) DEF Walled
<1>8. Logged(s)'
  <2> HIDE DEF d
  <2>1. e.elapsed = d
    OBVIOUS
  <2> HIDE DEF e
  <2> SUFFICES ASSUME Capped(s), NEW k \in 1..Len(iterations'[s])
               PROVE  iterations'[s][k].elapsed <= timeout[s] + Lag
    BY <1>6 DEF Logged, Turns
  <2>2. /\ Len(Append(iterations[s], e)) = Len(iterations[s]) + 1
        /\ Append(iterations[s], e)[Len(iterations[s]) + 1] = e
        /\ \A j \in 1..Len(iterations[s]) :
             Append(iterations[s], e)[j] = iterations[s][j]
    BY <1>3
  <2>3. CASE k = Len(iterations[s]) + 1
    BY <1>4, <1>5, <2>1, <2>2, <2>3
  <2>4. CASE k # Len(iterations[s]) + 1
    <3>1. k \in 1..Len(iterations[s])
      BY <1>3, <1>5, <2>2, <2>4
    <3> QED
      BY <1>5, <2>2, <3>1 DEF Logged, Turns
  <2> QED
    BY <2>3, <2>4
<1>9. Reported(s)'
  BY <1>6 DEF Reported
<1> QED
  BY <1>7, <1>8, <1>9

\* Beginning a session fixes the timeout while its log is still empty.
LEMMA BeginSettles ==
  ASSUME NEW s \in Session, IInv, Walled(s),
         \/ \E c \in Counts, k \in Probes : Launch(s, c, k)
         \/ \E c \in CallCounts \cup {None}, t \in Timeouts \cup {None}, k \in Probes :
              Call(s, c, t, k)
         \/ Resolved(s)
  PROVE  Walled(s)' /\ Logged(s)' /\ Reported(s)'
<1>1. TypeOK /\ Sound(s)
  BY DEF IInv
<1>2. /\ clock \in Nat /\ since[s] \in Nat /\ born[s] \in Nat
      /\ since[s] <= clock
  BY <1>1, SessionFacts DEF Sound, Paced
<1>3. pc[s] \in {"idle", "resolving"}
  BY <1>1 DEF Launch, Call, Resolved
<1>4. total[s] = 0 /\ iterations[s] = <<>>
  BY <1>1, <1>3 DEF Sound, Phased
<1>5. /\ total' = total /\ iterations' = iterations
      /\ since'[s] = clock /\ born'[s] \in {born[s], clock}
      /\ pc'[s] # "done"
  BY <1>1 DEF Launch, Call, Resolved, TypeOK
<1>6. Walled(s)'
  BY <1>2, <1>4, <1>5 DEF Walled
<1>7. Logged(s)'
  BY <1>4, <1>5 DEF Logged, Turns
<1> QED
  BY <1>5, <1>6, <1>7 DEF Reported

\* Starting a ping, an answer from the network and the report itself move no
\* number of the log.
LEMMA QuietStepSettles ==
  ASSUME NEW s \in Session, IInv, Walled(s) /\ Logged(s) /\ Reported(s),
         \/ StartPing(s)
         \/ \E r \in {"ok", "err", "panic"} : InnerReady(s, r)
         \/ Report(s)
         \/ PollPanics(s)
  PROVE  Walled(s)' /\ Logged(s)' /\ Reported(s)'
<1>1. TypeOK /\ Sound(s)
  BY DEF IInv
<1>2. /\ clock \in Nat /\ since[s] \in Nat /\ born[s] \in Nat
      /\ total[s] \in Nat /\ since[s] <= clock
  BY <1>1, SessionFacts DEF Sound, Paced
<1>3. /\ total' = total /\ iterations' = iterations /\ born' = born
      /\ timeout' = timeout /\ count' = count /\ lose' = lose /\ recv' = recv
      /\ since'[s] \in {since[s], clock} /\ probe' = probe
  BY <1>1 DEF StartPing, InnerReady, Report, PollPanics, TypeOK
<1>4. Walled(s)'
  BY <1>2, <1>3 DEF Walled
<1>5. Logged(s)'
  BY <1>3 DEF Logged, Turns, Capped
<1>6. Reported(s)'
  <2>1. CASE Report(s)
    <3>1. report'[s] = IF s \in Cli THEN display_statistic(s) ELSE Summary(s)
      BY <1>1, <2>1 DEF Report, TypeOK
    <3> QED
      BY <1>3, <3>1 DEF Reported, display_statistic, Summary
  <2>2. CASE \/ StartPing(s) \/ PollPanics(s)
             \/ \E r \in {"ok", "err", "panic"} : InnerReady(s, r)
    <3>1. pc'[s] # "done"
      BY <1>1, <2>2 DEF StartPing, InnerReady, PollPanics, TypeOK
    <3> QED
      BY <3>1 DEF Reported
  <2> QED
    BY <2>1, <2>2
<1> QED
  BY <1>4, <1>5, <1>6

\* The steps of session s.
Moves(s) ==
  \/ \E c \in Counts, k \in Probes : Launch(s, c, k)
  \/ \E c \in CallCounts \cup {None}, t \in Timeouts \cup {None}, k \in Probes :
              Call(s, c, t, k)
  \/ Resolved(s)
  \/ Step(s)
  \/ \E r \in {"ok", "err", "panic"} : InnerReady(s, r)

\* The process ends.
Aborts == \E s \in Session, c \in CallCounts \cup {None} : CallAborts(s, c)

\* Every step is a tick, a stutter, an abort or a move of one session.
LEMMA NextSplit ==
  ASSUME [Next]_vars
  PROVE  Tick \/ UNCHANGED vars \/ Aborts \/ \E s \in Session : Moves(s)
BY DEF Next, Quiet, Moves, Aborts

\* A move of one session touches no other (each call is a task of its own).
LEMMA MovesAlone ==
  ASSUME IInv, NEW s \in Session, Moves(s), NEW x \in Session, x # s
  PROVE  Untouched(x)
<1>1. TypeOK
  BY DEF IInv
<1>2. ASSUME NEW c \in Counts, NEW k \in Probes, Launch(s, c, k) PROVE Untouched(x)
  BY <1>1, <1>2 DEF Launch, Untouched, TypeOK
<1>3. ASSUME NEW c \in CallCounts \cup {None}, NEW t \in Timeouts \cup {None},
             NEW k \in Probes, Call(s, c, t, k)
      PROVE Untouched(x)
  BY <1>1, <1>3 DEF Call, Untouched, TypeOK
<1>4. ASSUME Resolved(s) PROVE Untouched(x)
  BY <1>1, <1>4 DEF Resolved, Untouched, TypeOK
<1>5. ASSUME StartPing(s) PROVE Untouched(x)
  BY <1>1, <1>5 DEF StartPing, Untouched, TypeOK
<1>6. ASSUME Poll(s) PROVE Untouched(x)
  <2>1. CASE PollPanics(s)
    BY <1>1, <2>1 DEF PollPanics, Untouched, TypeOK
  <2>2. CASE ~PollPanics(s)
    <3>1. EndTurn(s) /\ (CountOk(s) \/ CountErr(s))
      BY <1>6, <2>2 DEF Poll, PollReady, PollTimeout
    <3> QED
      BY <1>1, <3>1, ZenonT(40) DEF EndTurn, CountOk, CountErr, Untouched, TypeOK
  <2> QED
    BY <2>1, <2>2
<1>7. ASSUME Report(s) PROVE Untouched(x)
  BY <1>1, <1>7 DEF Report, Untouched, TypeOK
<1>8. ASSUME NEW r \in {"ok", "err", "panic"}, InnerReady(s, r) PROVE Untouched(x)
  BY <1>1, <1>8 DEF InnerReady, Untouched, TypeOK
<1> QED
  BY <1>2, <1>3, <1>4, <1>5, <1>6, <1>7, <1>8 DEF Moves, Step

\* Every step keeps the reported numbers settled.
LEMMA NextSettled == IInv /\ Settled /\ [Next]_vars => Settled'
<1> SUFFICES ASSUME IInv, Settled, [Next]_vars, NEW x \in Session
             PROVE  Walled(x)' /\ Logged(x)' /\ Reported(x)'
  BY DEF Settled
<1>1. Walled(x) /\ Logged(x) /\ Reported(x)
  BY DEF Settled
<1>2. CASE Tick
  BY <1>1, <1>2 DEF Tick, Walled, Logged, Reported, Turns, display_statistic,
                    Summary, Capped
<1>3. CASE UNCHANGED vars
  BY <1>1, <1>3 DEF vars, Walled, Logged, Reported, Turns, display_statistic,
                    Summary, Capped
<1>6. CASE Aborts
  <2>1. pc'[x] = "done" => pc[x] = "done"
    BY <1>6 DEF Aborts, CallAborts
  <2> QED
    BY <1>1, <1>6, <2>1 DEF Aborts, CallAborts, Walled, Logged, Reported, Turns,
                            display_statistic, Summary, Capped
<1>4. ASSUME NEW s \in Session, Moves(s), s # x
      PROVE  Walled(x)' /\ Logged(x)' /\ Reported(x)'
  BY <1>1, <1>4, MovesAlone, FrameSettled
<1>5. ASSUME Moves(x)
      PROVE  Walled(x)' /\ Logged(x)' /\ Reported(x)'
  <2>1. CASE Poll(x)
    <3>1. CASE PollReady(x)
      <4>1. (inner[x] = "ok") \in BOOLEAN
        OBVIOUS
      <4> QED
        BY <1>1, <3>1, <4>1, TurnSettles DEF PollReady
    <3>2. CASE PollTimeout(x)
      BY <1>1, <3>2, TurnSettles DEF PollTimeout
    <3>3. CASE PollPanics(x)
      BY <1>1, <3>3, QuietStepSettles
    <3> QED
      BY <2>1, <3>1, <3>2, <3>3 DEF Poll
  <2> QED
    BY <1>1, <1>5, <2>1, BeginSettles, QuietStepSettles DEF Moves, Step
<1> QED
  BY <1>2, <1>3, <1>4, <1>5, <1>6, NextSplit

\* Every behaviour of the driver keeps its reported numbers settled.
LEMMA SettledInvariance == Spec => []Settled
BY InitSettled, NextSettled, Invariance, PTL DEF Spec

(***************************************************************************)
(* The times                                                               *)
(***************************************************************************)

\* "the whole ping() call respects the timeout", up to one poll's delay.
THEOREM ElapsedCorrect == Spec => []ElapsedBounded
<1>1. Settled => ElapsedBounded
  BY DEF Settled, Logged, ElapsedBounded
<1> QED
  BY <1>1, SettledInvariance, PTL

\* The reported total never exceeds the time the loop took.
THEOREM TotalCorrect == Spec => []TotalWithinWall
<1>1. IInv /\ Settled => TotalWithinWall
  <2> SUFFICES ASSUME IInv, Settled, NEW s \in Session
               PROVE  total[s] <= (IF Active(s) THEN clock ELSE since[s]) - born[s]
    BY DEF TotalWithinWall
  <2>1. TypeOK /\ Paced(s) /\ Walled(s)
    BY DEF IInv, Sound, Settled
  <2> QED
    BY <2>1, SessionFacts DEF Paced, Walled
<1> QED
  BY <1>1, Invariance, SettledInvariance, PTL

(***************************************************************************)
(* The sum                                                                 *)
(***************************************************************************)

\* One more iteration adds its time to the sum of the log.
LEMMA SumGrows ==
  ASSUME NEW it \in Seq(Iteration), NEW e \in Iteration
  PROVE  Total(Elapsed(Append(it, e))) = Total(Elapsed(it)) + e.elapsed
<1>1. e.elapsed \in Nat /\ \A k \in 1..Len(it) : it[k].elapsed \in Nat
  <2>1. \A i \in Iteration : i.elapsed \in Nat
    BY DEF Iteration
  <2>2. \A k \in 1..Len(it) : it[k] \in Iteration
    OBVIOUS
  <2> QED
    BY <2>1, <2>2, Zenon
<1>2. Elapsed(it) \in Seq(Nat)
  BY <1>1 DEF Elapsed
<1>3. /\ Len(Append(it, e)) = Len(it) + 1 /\ Append(it, e)[Len(it) + 1] = e
      /\ \A k \in 1..Len(it) : Append(it, e)[k] = it[k]
      /\ Len(it) \in Nat
  OBVIOUS
<1> DEFINE a == Elapsed(Append(it, e))
           b == Append(Elapsed(it), e.elapsed)
<1>4. /\ a = [k \in 1..(Len(it) + 1) |-> a[k]]
      /\ \A k \in 1..(Len(it) + 1) : a[k] = Append(it, e)[k].elapsed
  BY <1>3 DEF Elapsed
<1>5. /\ b = [k \in 1..(Len(it) + 1) |-> b[k]] /\ b[Len(it) + 1] = e.elapsed
      /\ \A k \in 1..Len(it) : b[k] = it[k].elapsed
  <2>1. Len(Elapsed(it)) = Len(it) /\ \A k \in 1..Len(it) : Elapsed(it)[k] = it[k].elapsed
    BY <1>3 DEF Elapsed
  <2> QED
    BY <1>1, <1>2, <1>3, <2>1
<1> HIDE DEF a, b
<1>6. ASSUME NEW k \in 1..(Len(it) + 1) PROVE a[k] = b[k]
  <2>1. k = Len(it) + 1 \/ k \in 1..Len(it)
    BY <1>3
  <2> QED
    BY <1>3, <1>4, <1>5, <2>1, ZenonT(40)
<1>7. a = b
  BY <1>4, <1>5, <1>6, Zenon
<1> QED
  BY <1>1, <1>2, <1>7, TotalAppend, Zenon DEF a, b

\* A turn that ends adds to the total what it adds to the log.
LEMMA TurnAdds ==
  ASSUME NEW s \in Session, TypeOK, since[s] <= clock, CountOk(s) \/ CountErr(s)
  PROVE  \E e \in Iteration : /\ total'[s] = total[s] + e.elapsed
                               /\ iterations'[s] = Append(iterations[s], e)
<1>1. /\ total \in [Session -> Nat] /\ iterations \in [Session -> Seq(Iteration)]
      /\ clock - since[s] \in Nat /\ total[s] \in Nat
  <2>1. total \in [Session -> Nat] /\ iterations \in [Session -> Seq(Iteration)]
    BY DEF TypeOK
  <2>2. clock \in Nat /\ since[s] \in Nat /\ total[s] \in Nat
    BY SessionFacts, Zenon
  <2>3. clock - since[s] \in Nat
    BY <2>2
  <2> QED
    BY <2>1, <2>2, <2>3, Zenon
<1>2. CASE CountOk(s)
  <2> DEFINE e == [success |-> TRUE, elapsed |-> clock - since[s]]
  <2>1. e \in Iteration /\ e.elapsed = clock - since[s]
    BY <1>1 DEF Iteration
  <2>2. total'[s] = total[s] + (clock - since[s]) /\ iterations'[s] = Append(iterations[s], e)
    BY <1>1, <1>2 DEF CountOk, StartOf
  <2> QED
    BY <2>1, <2>2
<1>3. CASE CountErr(s)
  <2> DEFINE e == [success |-> FALSE, elapsed |-> 0]
  <2>1. e \in Iteration /\ e.elapsed = 0
    BY DEF Iteration
  <2>2. total'[s] = total[s] + 0 /\ iterations'[s] = Append(iterations[s], e)
    BY <1>1, <1>3 DEF CountErr
  <2> QED
    BY <2>1, <2>2
<1> QED
  BY <1>2, <1>3

\* What a session reports as total is the sum of the times in its log, however
\* many turns it took: no time is lost, and none is added twice.
THEOREM TotalIsSumCorrect == Spec => []TotalIsSum
<1>1. Init => TotalIsSum
  <2> SUFFICES ASSUME Init, NEW s \in Session PROVE total[s] = Total(Elapsed(iterations[s]))
    BY DEF TotalIsSum
  <2>1. total[s] = 0 /\ iterations[s] = <<>>
    BY DEF Init
  <2>2. Elapsed(<<>>) = <<>>
    BY DEF Elapsed
  <2> QED
    BY <2>1, <2>2, TotalEmpty
<1>2. IInv /\ TotalIsSum /\ [Next]_vars => TotalIsSum'
  <2> SUFFICES ASSUME IInv, TotalIsSum, [Next]_vars, NEW x \in Session
               PROVE  total'[x] = Total(Elapsed(iterations'[x]))
    BY DEF TotalIsSum, Elapsed
  <2>1. total[x] = Total(Elapsed(iterations[x]))
    BY DEF TotalIsSum
  <2>2. CASE total'[x] = total[x] /\ iterations'[x] = iterations[x]
    BY <2>1, <2>2
  <2>3. CASE Tick \/ UNCHANGED vars \/ Aborts
    BY <2>2, <2>3 DEF Tick, vars, Aborts, CallAborts
  <2>4. ASSUME NEW s \in Session, Moves(s), s # x
        PROVE  total'[x] = total[x] /\ iterations'[x] = iterations[x]
    BY <2>4, MovesAlone DEF Untouched
  <2>5. CASE PollReady(x) \/ PollTimeout(x)
    <3>1. CountOk(x) \/ CountErr(x)
      BY <2>5 DEF PollReady, PollTimeout
    <3>2. TypeOK /\ since[x] <= clock
      BY DEF IInv, Sound, Paced
    <3>3. PICK e \in Iteration : /\ total'[x] = total[x] + e.elapsed
                                 /\ iterations'[x] = Append(iterations[x], e)
      BY <3>1, <3>2, TurnAdds
    <3>4. iterations[x] \in Seq(Iteration)
      BY <3>2, SessionFacts
    <3> QED
      BY <2>1, <3>3, <3>4, SumGrows
  <2>6. ASSUME Moves(x), ~(PollReady(x) \/ PollTimeout(x))
        PROVE  total'[x] = total[x] /\ iterations'[x] = iterations[x]
    BY <2>6 DEF Moves, Step, Poll, PollPanics, Launch, Call, Resolved, StartPing,
                Report, InnerReady
  <2> QED
    BY <2>2, <2>3, <2>4, <2>5, <2>6, NextSplit
<1> QED
  BY <1>1, <1>2, Invariance, PTL DEF Spec

(***************************************************************************)
(* The numbers of the report                                               *)
(***************************************************************************)

\* Truncating division: what u64 `/` leaves over is less than the divisor.
LEMMA DivBounds ==
  ASSUME NEW a \in Nat, NEW n \in Nat, n > 0
  PROVE  /\ a \div n \in Nat
         /\ n * (a \div n) <= a
         /\ a < n * (a \div n) + n
BY Z3

\* Products with a positive factor are ordered like the other factor.
LEMMA MulOrder ==
  ASSUME NEW n \in Nat, n > 0, NEW p \in Int, NEW q \in Int, p < q
  PROVE  n * p + n <= n * q
<1>1. n * (q - p - 1) >= 0
  BY Z3
<1>2. n * (q - p - 1) = n * q - n * p - n
  BY Z3
<1>3. n * p \in Int /\ n * q \in Int
  BY Z3
<1> QED
  BY <1>1, <1>2, <1>3

\* The percentage both binaries compute, truncated.
Pct(x, n) == (x * 100) \div n

\* What is said of the percentages of two parts: each is one, only the whole is
\* 100, and the two truncations lose at most one point together.
Shares(x, y, n) ==
  /\ Pct(x, n) \in 0..100
  /\ Pct(x, n) = 100 <=> y = 0
  /\ Pct(x, n) + Pct(y, n) \in {99, 100}

\* It holds of the parts of any whole.
LEMMA PctParts ==
  ASSUME NEW x \in Nat, NEW y \in Nat, NEW n \in Nat, n > 0, x + y = n
  PROVE  Shares(x, y, n)
<1> DEFINE p == (x * 100) \div n
           q == (y * 100) \div n
<1>1. /\ p \in Nat /\ n * p <= x * 100 /\ x * 100 < n * p + n
      /\ q \in Nat /\ n * q <= y * 100 /\ y * 100 < n * q + n
  <2>1. x * 100 \in Nat /\ y * 100 \in Nat
    OBVIOUS
  <2> QED
    BY <2>1, DivBounds
<1> HIDE DEF p, q
<1>2. /\ n * p \in Nat /\ n * q \in Nat /\ n * (p + q) = n * p + n * q
      /\ n * 100 = x * 100 + y * 100
  BY <1>1, Z3
<1>3. p <= 100
  <2> SUFFICES ASSUME 100 < p PROVE FALSE
    BY <1>1
  <2>1. n * 100 + n <= n * p
    BY <1>1, MulOrder
  <2> QED
    BY <2>1, <1>1, <1>2
<1>4. p + q <= 100
  <2> SUFFICES ASSUME 100 < p + q PROVE FALSE
    BY <1>1
  <2>1. n * 100 + n <= n * (p + q)
    BY <1>1, MulOrder
  <2> QED
    BY <2>1, <1>1, <1>2
<1>5. p + q >= 99
  <2> SUFFICES ASSUME p + q < 99 PROVE FALSE
    BY <1>1
  <2>1. n * (p + q) + n <= n * 99
    BY <1>1, MulOrder
  <2>2. n * 99 = n * 100 - n
    BY Z3
  <2> QED
    BY <2>1, <2>2, <1>1, <1>2
<1>6. y = 0 => p = 100
  <2> SUFFICES ASSUME y = 0, p < 100 PROVE FALSE
    BY <1>1, <1>3
  <2>1. n * p + n <= n * 100
    BY <1>1, MulOrder
  <2> QED
    BY <2>1, <1>1, <1>2
<1>7. p = 100 => y = 0
  BY <1>1, <1>2
<1> QED
  BY <1>1, <1>3, <1>4, <1>5, <1>6, <1>7 DEF Shares, Pct, p, q

\* The numbers a finished session derives from its one counter are the log's.
LEMMA ReportedNumbers ==
  ASSUME IInv, Settled, NEW s \in Session, pc[s] = "done"
  PROVE  LET w == Successes(s)
             l == count[s] - Successes(s)
         IN  /\ w \in Nat /\ l \in Nat /\ count[s] \in Nat /\ w + l = count[s]
             /\ report[s].recv = w
             /\ report[s].lose = l
             /\ s \in Cli => /\ report[s].recv_pct = cli_pct(w, count[s])
                             /\ report[s].lose_pct = cli_pct(l, count[s])
             /\ s \notin Cli => report[s].lose_pct = mcp_pct(l, count[s])
<1>1. TypeOK /\ LedgerOf(s) /\ Turns(s) = count[s] /\ Reported(s)
  BY DEF IInv, Sound, Phased, Settled
<1>2. /\ Successes(s) \in Nat /\ Successes(s) <= count[s] /\ count[s] \in Nat
      /\ lose[s] \in Nat /\ recv[s] \in Nat
  BY <1>1, SessionFacts
<1>3. CASE s \in Cli
  <2>1. lose[s] = count[s] - Successes(s) /\ count[s] - lose[s] = Successes(s)
    BY <1>1, <1>2, <1>3 DEF LedgerOf
  <2>2. report[s] = display_statistic(s)
    BY <1>1, <1>3 DEF Reported
  <2> QED
    BY <1>2, <1>3, <2>1, <2>2 DEF display_statistic
<1>4. CASE s \notin Cli
  <2>1. recv[s] = Successes(s)
    BY <1>1, <1>4 DEF LedgerOf, Session
  <2>2. report[s] = Summary(s)
    BY <1>1, <1>4 DEF Reported
  <2> QED
    BY <1>2, <1>4, <2>1, <2>2 DEF Summary
<1> QED
  BY <1>3, <1>4

\* The numbers printed are the numbers of the log, for every count, zero too.
THEOREM ReportHonestCorrect == Spec => []ReportHonest
<1>1. IInv /\ Settled => ReportHonest
  <2> SUFFICES ASSUME IInv, Settled, NEW s \in Session, pc[s] = "done"
               PROVE  LET r == report[s]
                      IN  /\ r.recv = Successes(s)
                          /\ r.recv + r.lose = count[s]
                          /\ r.lose_pct \in 0..100
                          /\ (r.lose_pct = 100) <=> (r.recv = 0 /\ count[s] > 0)
                          /\ s \in Cli /\ count[s] > 0 =>
                               r.recv_pct + r.lose_pct \in {99, 100}
    BY DEF ReportHonest
  <2> DEFINE w == Successes(s)
             l == count[s] - Successes(s)
  <2>1. /\ w \in Nat /\ l \in Nat /\ count[s] \in Nat /\ w + l = count[s]
        /\ report[s].recv = w
        /\ report[s].lose = l
        /\ s \in Cli => /\ report[s].recv_pct = cli_pct(w, count[s])
                        /\ report[s].lose_pct = cli_pct(l, count[s])
        /\ s \notin Cli => report[s].lose_pct = mcp_pct(l, count[s])
    BY ReportedNumbers
  <2> HIDE DEF w, l
  <2>2. report[s].recv = Successes(s)
    BY <2>1 DEF w
  <2>3. CASE count[s] = 0
    <3>1. w = 0 /\ l = 0
      BY <2>1, <2>3
    <3>2. report[s].lose_pct = 0
      BY <2>1, <2>3, <3>1 DEF cli_pct, mcp_pct
    <3> QED
      BY <2>1, <2>2, <2>3, <3>1, <3>2
  <2>4. CASE count[s] > 0
    <3> DEFINE p == Pct(l, count[s])
               q == Pct(w, count[s])
    <3>1. /\ p \in 0..100
          /\ p = 100 <=> w = 0
          /\ p + q \in {99, 100}
      <4>1. l + w = count[s] /\ l \in Nat /\ w \in Nat /\ count[s] \in Nat
        BY <2>1
      <4>2. Shares(l, w, count[s])
        BY <2>4, <4>1, PctParts, ZenonT(40)
      <4> QED
        BY <4>2, ZenonT(40) DEF Shares
    <3>2. cli_pct(l, count[s]) = p /\ mcp_pct(l, count[s]) = p
          /\ cli_pct(w, count[s]) = q
      <4>1. Pct(0, count[s]) = 0
        BY <2>1, <2>4, Z3 DEF Pct
      <4>2. \A x \in Nat : cli_pct(x, count[s]) = IF x = 0 THEN 0 ELSE Pct(x, count[s])
        BY DEF cli_pct, Pct
      <4>3. \A x \in Nat : mcp_pct(x, count[s]) = Pct(x, count[s])
        BY <2>1, <2>4 DEF mcp_pct, Pct
      <4> QED
        BY <2>1, <4>1, <4>2, <4>3
    <3>3. q \in Int
      BY <2>1, <2>4, PctNat DEF Pct
    <3> HIDE DEF p, q
    <3>4. report[s].lose_pct = p /\ (s \in Cli => report[s].recv_pct = q)
      BY <2>1, <3>2
    <3> QED
      BY <2>1, <2>2, <2>4, <3>1, <3>3, <3>4
  <2> QED
    BY <2>1, <2>3, <2>4
<1> QED
  BY <1>1, Invariance, SettledInvariance, PTL

(***************************************************************************)
(* The refinement                                                          *)
(***************************************************************************)

\* A session's tally as PingTally sees it, and that a step leaves it alone.
Verdict(s) ==
  IF report[s] = None THEN None ELSE <<report[s].recv, report[s].lose>>

Missed(s) == Turns(s) - Successes(s)

SameTally(s) ==
  /\ Phase(s)' = Phase(s) /\ count'[s] = count[s]
  /\ Successes(s)' = Successes(s) /\ Missed(s)' = Missed(s)
  /\ Verdict(s)' = Verdict(s)

\* A step that touches nothing of a session leaves its tally alone.
LEMMA UntouchedTally ==
  ASSUME NEW x \in Session, Untouched(x)
  PROVE  SameTally(x)
BY DEF Untouched, SameTally, Phase, Missed, Verdict, Turns, Successes

\* A step that leaves every tally alone is a stuttering step of PingTally.
LEMMA TallyStutters ==
  ASSUME TypeOK, TypeOK', \A x \in Session : SameTally(x)
  PROVE  UNCHANGED Tally!vars
<1>1. count' = count
  BY DEF TypeOK, SameTally
<1> QED
  BY <1>1 DEF SameTally, Tally!vars, Verdict, Missed

\* main and run_pings begin as PingTally begins.
LEMMA InitTally == Init => Tally!Init
<1> SUFFICES ASSUME Init PROVE Tally!Init
  OBVIOUS
<1>1. ASSUME NEW s \in Session
      PROVE  /\ Phase(s) = "idle" /\ Successes(s) = 0 /\ Missed(s) = 0
             /\ Verdict(s) = None
  <2>1. pc[s] = "idle" /\ iterations[s] = <<>> /\ report[s] = None
    BY DEF Init
  <2>2. Successes(s) = 0 /\ Turns(s) = 0
    BY <2>1, WinsEmpty DEF Successes, Turns
  <2> QED
    BY <2>1, <2>2 DEF Phase, Missed, Verdict
<1> QED
  BY <1>1 DEF Init, Tally!Init, Missed, Verdict

\* Beginning a session asks PingTally for its quota, or is void at once.
LEMMA BeginAsks ==
  ASSUME IInv, IInv', NEW s \in Session, NEW n,
         NEW p \in {"open", "void"},
         n \in Counts \cup {count_or_default(c) : c \in CallCounts \cup {None}},
         pc[s] = "idle", Phase(s)' = p,
         count' = [count EXCEPT ![s] = n],
         UNCHANGED <<iterations, report>>,
         \A x \in Session \ {s} : SameTally(x)
  PROVE  Tally!Next
<1>1. /\ Phase(s) = "idle"
      /\ \A x \in Session \ {s} : Phase(x)' = Phase(x)
  BY DEF Phase, SameTally
<1>2. /\ [x \in Session |-> Phase(x)]'
           = [[x \in Session |-> Phase(x)] EXCEPT ![s] = p]
      /\ [x \in Session |-> Phase(x)][s] = "idle"
  BY <1>1
<1>3. \A x \in Session : /\ Successes(x)' = Successes(x)
                         /\ Turns(x)' = Turns(x)
  BY DEF Successes, Turns
<1>4. Tally!Ask(s, n, p)
  BY <1>2, <1>3 DEF Tally!Ask
<1> QED
  BY <1>4 DEF Tally!Next

\* Sessions that a panic or an abort ends are abandoned, and only those.
LEMMA EndAbandons ==
  ASSUME NEW S \in SUBSET Session,
         \A x \in S : Phase(x) # "delivered" /\ Phase(x)' = "void",
         \A x \in Session \ S : Phase(x)' = Phase(x),
         UNCHANGED <<count, iterations, report>>
  PROVE  Tally!Next
<1>1. [x \in Session |-> Phase(x)]'
        = [x \in Session |-> IF x \in S THEN "void" ELSE [y \in Session |-> Phase(y)][x]]
  OBVIOUS
<1>2. \A x \in S : [y \in Session |-> Phase(y)][x] # "delivered"
  OBVIOUS
<1>3. \A x \in Session : /\ Successes(x)' = Successes(x)
                         /\ Turns(x)' = Turns(x)
  BY DEF Successes, Turns
<1>4. Tally!Abandon(S)
  BY <1>1, <1>2, <1>3 DEF Tally!Abandon
<1> QED
  BY <1>4 DEF Tally!Next

\* A turn that ends is one ping won or one ping lost.
LEMMA TurnCounts ==
  ASSUME IInv, IInv', NEW s \in Session, NEW won \in BOOLEAN,
         pc[s] = "pinging",
         IF won THEN CountOk(s) ELSE CountErr(s), EndTurn(s),
         \A x \in Session \ {s} : SameTally(x)
  PROVE  Tally!Next
<1>1. TypeOK /\ Sound(s)
  BY DEF IInv
<1>2. \E d \in Nat : iterations'[s]
                       = Append(iterations[s], [success |-> won, elapsed |-> d])
  <2>1. since[s] <= clock /\ clock \in Nat /\ since[s] \in Nat
    BY <1>1, SessionFacts DEF Sound, Paced
  <2>2. CASE won
    <3>1. iterations' = [iterations EXCEPT ![s] =
                           Append(@, [success |-> won, elapsed |-> clock - since[s]])]
      BY <2>2 DEF CountOk, StartOf
    <3>2. clock - since[s] \in Nat
      BY <2>1
    <3> QED
      BY <1>1, <3>1, <3>2 DEF TypeOK
  <2>3. CASE ~won
    <3>1. iterations' = [iterations EXCEPT ![s] =
                           Append(@, [success |-> won, elapsed |-> 0])]
      BY <2>3 DEF CountErr
    <3> QED
      BY <1>1, <3>1 DEF TypeOK
  <2> QED
    BY <2>2, <2>3
<1>3. /\ Turns(s)' = Turns(s) + 1
      /\ Successes(s)' = Successes(s) + (IF won THEN 1 ELSE 0)
      /\ Turns(s) \in Nat /\ Successes(s) \in Nat /\ count[s] \in Nat
  <2>1. PICK d \in Nat : iterations'[s]
                       = Append(iterations[s], [success |-> won, elapsed |-> d])
    BY <1>2
  <2> DEFINE e == [success |-> won, elapsed |-> d]
  <2>2. e \in Iteration /\ e.success = won
    BY DEF Iteration
  <2> HIDE DEF e
  <2>3. iterations'[s] = Append(iterations[s], e)
    BY <2>1 DEF e
  <2> QED
    BY <1>1, <2>2, <2>3, WinsAppend, SessionFacts DEF Turns, Successes
<1>4. /\ Phase(s) = "open" /\ Phase(s)' = "open" /\ Turns(s) < count[s]
      /\ count' = count /\ report' = report
  BY <1>1 DEF EndTurn, Phase, Sound, Phased, TypeOK
<1>5. /\ [x \in Session |-> Phase(x)]' = [x \in Session |-> Phase(x)]
      /\ [x \in Session |-> Phase(x)][s] = "open"
      /\ Successes(s) + Missed(s) < count[s]
  BY <1>3, <1>4 DEF SameTally, Missed
<1>6. CASE won
  <2>1. /\ Successes(s)' = Successes(s) + 1
        /\ Missed(s)' = Missed(s)
    BY <1>3, <1>6 DEF Missed
  <2>2. \A x \in Session \ {s} : /\ Successes(x)' = Successes(x)
                                 /\ Missed(x)' = Missed(x)
    BY DEF SameTally
  <2>3. /\ [x \in Session |-> Successes(x)]'
             = [[x \in Session |-> Successes(x)] EXCEPT ![s] = @ + 1]
        /\ [x \in Session |-> Missed(x)]' = [x \in Session |-> Missed(x)]
    BY <2>1, <2>2
  <2>4. Tally!Win(s)
    BY <1>4, <1>5, <2>3 DEF Tally!Win, Tally!Owing, Missed
  <2> QED
    BY <2>4 DEF Tally!Next
<1>7. CASE ~won
  <2>1. /\ Successes(s)' = Successes(s)
        /\ Missed(s)' = Missed(s) + 1
    BY <1>3, <1>7 DEF Missed
  <2>2. \A x \in Session \ {s} : /\ Successes(x)' = Successes(x)
                                 /\ Missed(x)' = Missed(x)
    BY DEF SameTally
  <2>3. /\ [x \in Session |-> Successes(x)]' = [x \in Session |-> Successes(x)]
        /\ [x \in Session |-> Missed(x)]'
             = [[x \in Session |-> Missed(x)] EXCEPT ![s] = @ + 1]
    BY <2>1, <2>2
  <2>4. Tally!Lose(s)
    BY <1>4, <1>5, <2>3 DEF Tally!Lose, Tally!Owing, Missed
  <2> QED
    BY <2>4 DEF Tally!Next
<1> QED
  BY <1>6, <1>7

\* The report delivers the true tally.
LEMMA ReportDelivers ==
  ASSUME IInv, IInv', NEW s \in Session, Report(s),
         \A x \in Session \ {s} : SameTally(x)
  PROVE  Tally!Next
<1>1. TypeOK /\ Sound(s) /\ TypeOK'
  BY DEF IInv
<1>2. /\ pc[s] = "looping" /\ pc'[s] = "done" /\ Turns(s) = count[s]
      /\ count' = count /\ iterations' = iterations
      /\ Successes(s)' = Successes(s) /\ Turns(s)' = Turns(s)
  BY <1>1 DEF Report, TypeOK, Successes, Turns
<1>3. Successes(s) \in Nat /\ count[s] \in Nat
  BY <1>1, SessionFacts
<1>4. Phase(s) = "open" /\ Phase(s)' = "delivered"
  BY <1>2 DEF Phase
<1>5. report'[s] # None
  <2>1. (IF s \in Cli THEN display_statistic(s) ELSE Summary(s)) \in Numbers
    BY ReportIsNumbers
  <2> QED
    BY <1>1, <2>1, ConstantsAssumption DEF Report, TypeOK
<1>6. /\ report'[s].recv = Successes(s)
      /\ report'[s].lose = count[s] - Successes(s)
  <2>1. /\ report'[s] = IF s \in Cli THEN display_statistic(s) ELSE Summary(s)
        /\ LedgerOf(s) /\ lose[s] \in Nat /\ recv[s] \in Nat
    BY <1>1, SessionFacts DEF Report, TypeOK, Sound
  <2>2. CASE s \in Cli
    <3>1. lose[s] = count[s] - Successes(s) /\ count[s] - lose[s] = Successes(s)
      BY <1>2, <1>3, <2>1, <2>2 DEF LedgerOf
    <3> QED
      BY <2>1, <2>2, <3>1 DEF display_statistic
  <2>3. CASE s \notin Cli
    <3>1. recv[s] = Successes(s)
      BY <2>1, <2>3 DEF LedgerOf, Session
    <3> QED
      BY <2>1, <2>3, <3>1 DEF Summary
  <2> QED
    BY <2>2, <2>3
<1>7. /\ Verdict(s)' = <<Successes(s), Missed(s)>>
      /\ \A x \in Session : /\ Successes(x)' = Successes(x)
                            /\ Missed(x)' = Missed(x)
  BY <1>2, <1>5, <1>6 DEF Verdict, Missed, SameTally
<1>8. /\ [x \in Session |-> Phase(x)]'
           = [[x \in Session |-> Phase(x)] EXCEPT ![s] = "delivered"]
      /\ [x \in Session |-> Phase(x)][s] = "open"
      /\ [x \in Session |-> Verdict(x)]'
           = [[x \in Session |-> Verdict(x)] EXCEPT ![s] = <<Successes(s), Missed(s)>>]
      /\ Successes(s) + Missed(s) = count[s]
  <2>1. \A x \in Session \ {s} : /\ Phase(x)' = Phase(x)
                                 /\ Verdict(x)' = Verdict(x)
    BY DEF SameTally
  <2>2. Successes(s) + Missed(s) = count[s]
    BY <1>2, <1>3 DEF Missed
  <2> QED
    BY <1>4, <1>7, <2>1, <2>2
<1>9. Tally!Deliver(s)
  BY <1>2, <1>7, <1>8 DEF Tally!Deliver, Missed, Verdict
<1> QED
  BY <1>9 DEF Tally!Next

\* A panic in the loop abandons one session.
LEMMA Abandoned ==
  ASSUME NEW s \in Session, pc[s] \in {"looping", "pinging"}, pc'[s] = "panicked",
         UNCHANGED <<count, iterations, report>>,
         \A x \in Session \ {s} : SameTally(x)
  PROVE  Tally!Next
<1> DEFINE S == {s}
<1>1. S \in SUBSET Session /\ \A x \in S : Phase(x) # "delivered" /\ Phase(x)' = "void"
  BY DEF Phase
<1>2. \A x \in Session \ S : Phase(x)' = Phase(x)
  BY DEF SameTally
<1> HIDE DEF S
<1> QED
  BY <1>1, <1>2, EndAbandons

\* Every step of the driver is a step of PingTally or none.
LEMMA NextTally ==
  ASSUME IInv, IInv', [Next]_vars
  PROVE  [Tally!Next]_(Tally!vars)
<1>1. TypeOK /\ TypeOK'
  BY DEF IInv
<1>2. CASE Tick \/ UNCHANGED vars
  <2>1. \A x \in Session : SameTally(x)
    BY <1>2 DEF Tick, vars, SameTally, Phase, Missed, Verdict, Turns, Successes
  <2> QED
    BY <1>1, <2>1, TallyStutters
<1>3. ASSUME NEW s \in Session, Moves(s)
      PROVE  [Tally!Next]_(Tally!vars)
  <2>1. \A x \in Session \ {s} : SameTally(x)
    BY <1>3, MovesAlone, UntouchedTally
  <2>2. ASSUME NEW c \in Counts, NEW k \in Probes, Launch(s, c, k)
        PROVE  Tally!Next
    <3>1. /\ pc[s] = "idle" /\ pc'[s] \in {"resolving", "panicked"}
          /\ count' = [count EXCEPT ![s] = c]
          /\ UNCHANGED <<iterations, report>>
      BY <1>1, <2>2 DEF Launch, TypeOK
    <3>2. Phase(s)' \in {"open", "void"}
      BY <3>1 DEF Phase
    <3> QED
      BY <2>1, <3>1, <3>2, BeginAsks
  <2>3. ASSUME NEW c \in CallCounts \cup {None}, NEW t \in Timeouts \cup {None},
               NEW k \in Probes, Call(s, c, t, k)
        PROVE  Tally!Next
    <3>1. /\ pc[s] = "idle" /\ pc'[s] \in {"looping", "panicked"}
          /\ count' = [count EXCEPT ![s] = count_or_default(c)]
          /\ UNCHANGED <<iterations, report>>
      BY <1>1, <2>3 DEF Call, TypeOK
    <3>2. Phase(s)' \in {"open", "void"}
      BY <3>1 DEF Phase
    <3> QED
      BY <2>1, <3>1, <3>2, BeginAsks
  <2>4. ASSUME Poll(s)
        PROVE  Tally!Next
    <3>1. CASE PollReady(s)
      <4>1. (inner[s] = "ok") \in BOOLEAN
        OBVIOUS
      <4> QED
        BY <2>1, <3>1, <4>1, TurnCounts DEF PollReady
    <3>2. CASE PollTimeout(s)
      BY <2>1, <3>2, TurnCounts DEF PollTimeout
    <3>3. CASE PollPanics(s)
      <4>1. /\ pc[s] = "pinging" /\ pc'[s] = "panicked"
            /\ UNCHANGED <<count, iterations, report>>
        BY <1>1, <3>3 DEF PollPanics, TypeOK
      <4> QED
        BY <2>1, <4>1, Abandoned
    <3> QED
      BY <2>4, <3>1, <3>2, <3>3 DEF Poll
  <2>5. ASSUME Report(s)
        PROVE  Tally!Next
    BY <2>1, <2>5, ReportDelivers
  <2>7. ASSUME StartPing(s), pc'[s] = "panicked"
        PROVE  Tally!Next
    <3>1. pc[s] = "looping" /\ UNCHANGED <<count, iterations, report>>
      BY <2>7 DEF StartPing
    <3> QED
      BY <2>1, <2>7, <3>1, Abandoned
  <2>6. ASSUME \/ Resolved(s) \/ (StartPing(s) /\ pc'[s] # "panicked")
               \/ \E r \in {"ok", "err", "panic"} : InnerReady(s, r)
        PROVE  UNCHANGED Tally!vars
    <3>1. /\ pc[s] \in {"resolving", "looping", "pinging"}
          /\ pc'[s] \in {"looping", "pinging"}
          /\ UNCHANGED <<count, iterations, report>>
      BY <1>1, <2>6 DEF Resolved, StartPing, InnerReady, TypeOK
    <3>2. SameTally(s)
      BY <3>1 DEF SameTally, Phase, Missed, Verdict, Turns, Successes
    <3> QED
      BY <1>1, <2>1, <3>2, TallyStutters
  <2> QED
    BY <1>3, <2>2, <2>3, <2>4, <2>5, <2>6, <2>7 DEF Moves, Step
<1>4. CASE Aborts
  <2> DEFINE S == {x \in Session : Owed(x)}
  <2>1. /\ UNCHANGED <<count, iterations, report>>
        /\ \A x \in Session : pc'[x] = IF Owed(x) THEN "aborted" ELSE pc[x]
    BY <1>4 DEF Aborts, CallAborts
  <2>2. \A x \in S : Phase(x) # "delivered" /\ Phase(x)' = "void"
    BY <2>1 DEF Phase, Owed
  <2>3. \A x \in Session \ S : Phase(x)' = Phase(x)
    BY <2>1 DEF Phase
  <2> QED
    BY <2>1, <2>2, <2>3, EndAbandons
<1> QED
  BY <1>2, <1>3, <1>4, NextSplit

\* main and run_pings implement PingTally: every ping is won or lost once and
\* the delivered verdict is the true tally, for any number of sessions.
THEOREM TallyRefined == Spec => RefinesTally
<1>1. Init => Tally!Init
  BY InitTally
<1>2. IInv /\ IInv' /\ [Next]_vars => [Tally!Next]_(Tally!vars)
  BY NextTally
<1> QED
  BY <1>1, <1>2, Invariance, PTL DEF Spec, RefinesTally, Tally!Spec
=============================================================================
