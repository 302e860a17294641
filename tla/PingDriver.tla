----------------------------- MODULE PingDriver -----------------------------
(***************************************************************************)
(* The loop that drives a pinger, in both of its forms:                    *)
(*   - knockknock's main(): one run of the command line tool, which counts *)
(*     LOSSES and derives the number of answers at the end;                *)
(*   - knockknock-mcp's run_pings(): one call of a tool, which counts      *)
(*     ANSWERS and derives the losses, and keeps a log of iterations.      *)
(* Sessions run concurrently (the MCP server runs each call as a task of   *)
(* its own).  One turn of the loop is zpinger::timed(pinger): read the     *)
(* clock, await ping(), read the clock again.  ping() is with_timeout(d,   *)
(* fut): when the task is polled the inner future is looked at FIRST, and  *)
(* only if it is still pending is the timer consulted.  The pingers of     *)
(* gRPC and QUIC are not wrapped in with_timeout (see TimeoutScope).       *)
(*                                                                         *)
(* A session may also end without a report: get_uri panics on some targets *)
(* and on some URLs of a playlist, and Vec::with_capacity on some counts.  *)
(*                                                                         *)
(* Time is discrete.  A task that can move is polled at most Lag ticks     *)
(* after the instant that woke it: Tick may not run past that.             *)
(***************************************************************************)
EXTENDS Sums, FiniteSets

CONSTANTS
  Cli,             \* runs of the command line tool
  Mcp,             \* calls of a tool of the MCP server
  Counts,          \* values of --count
  CallCounts,      \* values of the `count` argument of a tool
  Probes,          \* what may be pinged: see Kinds
  Timeouts,        \* values of the `timeout_ms` argument, in ticks
  None,            \* an optional argument that is absent; a report not made
  DefaultCount,    \* DEFAULT_COUNT
  DefaultTimeout,  \* DEFAULT_TIMEOUT, DEFAULT_TIMEOUT_MS
  VecCapacity,     \* the largest count whose log has a size in bytes
  Memory,          \* the largest count whose log the allocator can provide
  ResolveMax,      \* ticks the system resolver takes at most
  Lag,             \* ticks between a wake-up and the poll it causes, at most
  LastCall         \* BOUND: no session begins after this instant, and after it
                   \* time goes on only for sessions that have a wake-up ahead

Session == Cli \cup Mcp

\* What a session pings, as far as its driver can tell:
\*   capped     a pinger in with_timeout, at a target get_uri can read;
\*   playlist   the same for HLS: get_uri also reads the URLs of playlists;
\*   uncapped   gRPC and QUIC, some of whose awaits have no timer;
\*   illegible  a target on which get_uri panics (uri.rs:59).
Kinds == {"capped", "playlist", "uncapped", "illegible"}

\* What the command line prints and what a tool call returns.
Numbers == [recv : Nat, lose : Nat, total : Nat, recv_pct : Nat, lose_pct : Nat]
           \cup [recv : Nat, lose : Nat, total : Nat, lose_pct : Nat]

ASSUME ConstantsAssumption ==
  /\ Cli \cap Mcp = {}
  /\ Counts \subseteq Nat
  /\ CallCounts \subseteq Nat
  /\ Probes \subseteq Kinds
  /\ Timeouts \subseteq Nat
  /\ None \notin Nat \cup Numbers
  /\ DefaultCount \in Nat
  /\ DefaultTimeout \in Nat
  /\ VecCapacity \in Nat
  /\ Memory \in Nat /\ Memory <= VecCapacity
  /\ ResolveMax \in Nat
  /\ Lag \in Nat
  /\ LastCall \in Nat

VARIABLES
  clock,       \* the monotonic clock behind Instant::now()
  pc,          \* where the session's task is
  count,       \* the session's `count`
  timeout,     \* the pinger's `timeout`
  probe,       \* what is pinged
  born,        \* instant the loop was entered
  since,       \* instant the current phase was entered; `start` while pinging
  inner,       \* what the inner future of with_timeout has come to
  readyAt,     \* instant the inner future became ready
  lose,        \* main's `lose_count` (command line only)
  recv,        \* run_pings' `recv` (MCP only)
  total,       \* `total_time`, `total`
  iterations,  \* run_pings' `iterations`; main prints the same lines
  answered,    \* HISTORY: pings whose answer was there by their deadline
  report       \* display_statistic's line, PingReport's summary

vars == <<clock, pc, count, timeout, probe, born, since, inner, readyAt, lose, recv,
          total, iterations, answered, report>>

Iteration == [success : BOOLEAN, elapsed : Nat]

\* The loop's own progress: turns finished.  `for _ in 0..count` has no
\* counter of its own in either source, the iterator is the log's length.
Turns(s) == Len(iterations[s])

\* The successful iterations of a log.
Wins(it) == Cardinality({k \in 1..Len(it) : it[k].success})

Successes(s) == Wins(iterations[s])

----------------------------------------------------------------------------
(* Arguments *)

\* c.unwrap_or(DEFAULT_COUNT).max(1)
count_or_default(c) ==
  LET n == IF c = None THEN DefaultCount ELSE c
  IN  IF n < 1 THEN 1 ELSE n

\* Duration::from_millis(t.unwrap_or(DEFAULT_TIMEOUT_MS)); zero is kept.
timeout_or_default(t) == IF t = None THEN DefaultTimeout ELSE t

----------------------------------------------------------------------------
(* The clock and the scheduler *)

\* MUTANT of Deadline: every turn gets twice the configured time.
LateDeadline(s) == since[s] + 2 * timeout[s] + 1

\* tokio::time::timeout(d, fut): armed when the future is first polled.
Deadline(s) == since[s] + timeout[s]

\* The whole ping() is under the timer.
Capped(s) == probe[s] # "uncapped"

\* The instant that wakes the session's task: the answer or the timer,
\* whichever comes first; between two turns nothing is awaited.
Wake(s) ==
  IF pc[s] = "resolving" THEN since[s] + ResolveMax
  ELSE IF pc[s] = "looping" THEN since[s]
  ELSE IF inner[s] # "pending" /\ (Capped(s) => readyAt[s] < Deadline(s)) THEN readyAt[s]
  ELSE Deadline(s)

Active(s) == pc[s] \in {"resolving", "looping", "pinging"}

\* An await under no timer, and nothing has come: nothing will wake the task.
Hangs(s) == pc[s] = "pinging" /\ inner[s] = "pending" /\ ~Capped(s)

Tick ==
  /\ \/ \E s \in Session : Active(s) /\ ~Hangs(s)
     \/ clock < LastCall
  /\ \A s \in Session : Active(s) /\ ~Hangs(s) => clock < Wake(s) + Lag
  /\ clock' = clock + 1
  /\ UNCHANGED <<pc, count, timeout, probe, born, since, inner, readyAt, lose, recv,
                 total, iterations, answered, report>>

----------------------------------------------------------------------------
(* Beginning a session *)

\* knockknock: main() up to the await in zpinger::resolve, which no timeout
\* of the pinger covers.  resolve reads the target with get_uri before that
\* await, whatever the pinger: a panic there ends main.
Launch(s, c, k) ==
  /\ s \in Cli
  /\ pc[s] = "idle"
  /\ clock <= LastCall
  /\ pc' = [pc EXCEPT ![s] = IF k = "illegible" THEN "panicked" ELSE "resolving"]
  /\ count' = [count EXCEPT ![s] = c]
  /\ timeout' = [timeout EXCEPT ![s] = DefaultTimeout]
  /\ probe' = [probe EXCEPT ![s] = k]
  /\ since' = [since EXCEPT ![s] = clock]
  /\ UNCHANGED <<clock, born, inner, readyAt, lose, recv, total, iterations,
                 answered, report>>

\* The lookup returns (an empty list on failure: the loop runs all the same).
Resolved(s) ==
  /\ pc[s] = "resolving"
  /\ pc' = [pc EXCEPT ![s] = "looping"]
  /\ since' = [since EXCEPT ![s] = clock]
  /\ born' = [born EXCEPT ![s] = clock]
  /\ UNCHANGED <<clock, count, timeout, probe, inner, readyAt, lose, recv, total,
                 iterations, answered, report>>

\* The memory a count asks Vec::with_capacity for is there, or is known to be
\* too much before it is asked for.
Allocates(c) == count_or_default(c) \in 0..Memory \/ count_or_default(c) > VecCapacity

\* knockknock-mcp: a tool's handler up to the loop of run_pings.  A count
\* beyond the capacity of a Vec panics, and this call ends there.
Call(s, c, t, k) ==
  /\ s \in Mcp
  /\ pc[s] = "idle"
  /\ clock <= LastCall
  /\ Allocates(c)
  /\ pc' = [pc EXCEPT ![s] = IF count_or_default(c) > VecCapacity
                             THEN "panicked" ELSE "looping"]
  /\ count' = [count EXCEPT ![s] = count_or_default(c)]
  /\ timeout' = [timeout EXCEPT ![s] = timeout_or_default(t)]
  /\ probe' = [probe EXCEPT ![s] = k]
  /\ since' = [since EXCEPT ![s] = clock]
  /\ born' = [born EXCEPT ![s] = clock]
  /\ UNCHANGED <<clock, inner, readyAt, lose, recv, total, iterations,
                 answered, report>>

\* Calls the server process still has to answer, those not yet made included.
Owed(s) == s \in Mcp /\ pc[s] \notin {"done", "panicked"}

\* A tool's handler whose count is within a Vec's capacity but not within the
\* memory at hand: handle_alloc_error aborts the process, and with it every
\* call that it serves.
CallAborts(s, c) ==
  /\ s \in Mcp
  /\ pc[s] = "idle"
  /\ clock <= LastCall
  /\ ~Allocates(c)
  /\ pc' = [x \in Session |-> IF Owed(x) THEN "aborted" ELSE pc[x]]
  /\ UNCHANGED <<clock, count, timeout, probe, born, since, inner, readyAt, lose,
                 recv, total, iterations, answered, report>>

----------------------------------------------------------------------------
(* One turn of the loop *)

\* MUTANT of StartOf: the clock is read once, before the loop.
StartHoisted(s) == born[s]

\* `start` of timed(): read afresh by every call.
StartOf(s) == since[s]

\* timed(): Instant::now(), then the first poll of ping(), in which the pinger
\* reads its target.
StartPing(s) ==
  /\ pc[s] = "looping"
  /\ Turns(s) < count[s]
  /\ pc' = [pc EXCEPT ![s] = IF probe[s] = "illegible" THEN "panicked" ELSE "pinging"]
  /\ since' = [since EXCEPT ![s] = clock]
  /\ inner' = [inner EXCEPT ![s] = "pending"]
  /\ UNCHANGED <<clock, count, timeout, probe, born, readyAt, lose, recv, total,
                 iterations, answered, report>>

\* The exchange with the server ends, well or badly, whenever the network
\* pleases; the task is woken but not yet polled.  What arrived may also be a
\* playlist with a URL on which get_uri will panic (hls.rs:195).
InnerReady(s, r) ==
  /\ pc[s] = "pinging"
  /\ inner[s] = "pending"
  /\ r = "panic" => probe[s] = "playlist"
  /\ inner' = [inner EXCEPT ![s] = r]
  /\ readyAt' = [readyAt EXCEPT ![s] = clock]
  /\ answered' = [answered EXCEPT ![s] =
                    IF r = "ok" /\ clock <= Deadline(s) THEN @ + 1 ELSE @]
  /\ UNCHANGED <<clock, pc, count, timeout, probe, born, since, lose, recv, total,
                 iterations, report>>

\* MUTANT of CountOk: the sum and the log read different clocks.
CountOkFromBorn(s) ==
  /\ total' = [total EXCEPT ![s] = @ + clock - born[s]]
  /\ recv' = [recv EXCEPT ![s] = IF s \in Mcp THEN @ + 1 ELSE @]
  /\ iterations' = [iterations EXCEPT ![s] =
                      Append(@, [success |-> TRUE, elapsed |-> clock - since[s]])]
  /\ UNCHANGED lose

\* The Ok arm of the loop's match.
CountOk(s) ==
  LET elapsed == clock - StartOf(s)
  IN  /\ total' = [total EXCEPT ![s] = @ + elapsed]
      /\ recv' = [recv EXCEPT ![s] = IF s \in Mcp THEN @ + 1 ELSE @]
      /\ iterations' = [iterations EXCEPT ![s] =
                          Append(@, [success |-> TRUE, elapsed |-> elapsed])]
      /\ UNCHANGED lose

\* MUTANT of CountErr: a failed turn is not counted.
CountErrDropped(s) ==
  /\ iterations' = [iterations EXCEPT ![s] =
                      Append(@, [success |-> FALSE, elapsed |-> 0])]
  /\ UNCHANGED <<total, recv, lose>>

\* MUTANT of CountErr: a failed turn is counted twice.
CountErrTwice(s) ==
  /\ lose' = [lose EXCEPT ![s] = IF s \in Cli THEN @ + 2 ELSE @]
  /\ iterations' = [iterations EXCEPT ![s] =
                      Append(@, [success |-> FALSE, elapsed |-> 0])]
  /\ UNCHANGED <<total, recv>>

\* The Err arm.
CountErr(s) ==
  /\ lose' = [lose EXCEPT ![s] = IF s \in Cli THEN @ + 1 ELSE @]
  /\ iterations' = [iterations EXCEPT ![s] =
                      Append(@, [success |-> FALSE, elapsed |-> 0])]
  /\ UNCHANGED <<total, recv>>

EndTurn(s) ==
  /\ pc' = [pc EXCEPT ![s] = "looping"]
  /\ since' = [since EXCEPT ![s] = clock]
  /\ UNCHANGED <<clock, count, timeout, probe, born, inner, readyAt, answered, report>>

\* The poll finds the inner future ready, however late the poll is.
PollReady(s) ==
  /\ pc[s] = "pinging"
  /\ inner[s] \in {"ok", "err"}
  /\ IF inner[s] = "ok" THEN CountOk(s) ELSE CountErr(s)
  /\ EndTurn(s)

\* The poll unwinds: main ends, or the task of the call does; no report.
PollPanics(s) ==
  /\ pc[s] = "pinging"
  /\ inner[s] = "panic"
  /\ pc' = [pc EXCEPT ![s] = "panicked"]
  /\ UNCHANGED <<clock, count, timeout, probe, born, since, inner, readyAt, lose,
                 recv, total, iterations, answered, report>>

\* MUTANT of TimerFires: the timer is consulted before the inner future.
TimerFirst(s) == clock >= Deadline(s)

\* MUTANT of TimerFires: ping() is awaited without with_timeout.
TimerNever(s) == FALSE

\* Timeout::poll reaches the timer only when the inner future is pending.
TimerFires(s) == Capped(s) /\ inner[s] = "pending" /\ clock >= Deadline(s)

\* The poll finds nothing but the timer expired: Err(TimedOut), and the
\* inner future is dropped, whatever it was still waiting for.
PollTimeout(s) ==
  /\ pc[s] = "pinging"
  /\ TimerFires(s)
  /\ CountErr(s)
  /\ EndTurn(s)

----------------------------------------------------------------------------
(* The report *)

\* Integer percentages.  main guards the division by the numerator, run_pings
\* by the count: a count of zero reaches only the first.
cli_pct(x, n) == IF x = 0 THEN 0 ELSE (x * 100) \div n

mcp_pct(x, n) == IF n = 0 THEN 0 ELSE (x * 100) \div n

\* display_statistic(total_time, count, count - lose_count, lose_count)
display_statistic(s) ==
  LET r == count[s] - lose[s]
  IN  [recv |-> r, lose |-> lose[s], total |-> total[s],
       recv_pct |-> cli_pct(r, count[s]),
       lose_pct |-> cli_pct(lose[s], count[s])]

\* MUTANT of Summary: the number of losses is reported as that of answers.
SummarySwapped(s) ==
  [recv |-> count[s] - recv[s], lose |-> recv[s], total |-> total[s],
   lose_pct |-> mcp_pct(recv[s], count[s])]

\* The Summary that run_pings builds, with lose = count - recv.
Summary(s) ==
  LET l == count[s] - recv[s]
  IN  [recv |-> recv[s], lose |-> l, total |-> total[s],
       lose_pct |-> mcp_pct(l, count[s])]

Report(s) ==
  /\ pc[s] = "looping"
  /\ Turns(s) = count[s]
  /\ pc' = [pc EXCEPT ![s] = "done"]
  /\ since' = [since EXCEPT ![s] = clock]
  /\ report' = [report EXCEPT ![s] =
                  IF s \in Cli THEN display_statistic(s) ELSE Summary(s)]
  /\ UNCHANGED <<clock, count, timeout, probe, born, inner, readyAt, lose, recv,
                 total, iterations, answered>>

----------------------------------------------------------------------------

Init ==
  /\ clock = 0
  /\ pc = [s \in Session |-> "idle"]
  /\ count = [s \in Session |-> 0]
  /\ timeout = [s \in Session |-> 0]
  /\ probe = [s \in Session |-> "capped"]
  /\ born = [s \in Session |-> 0]
  /\ since = [s \in Session |-> 0]
  /\ inner = [s \in Session |-> "pending"]
  /\ readyAt = [s \in Session |-> 0]
  /\ lose = [s \in Session |-> 0]
  /\ recv = [s \in Session |-> 0]
  /\ total = [s \in Session |-> 0]
  /\ iterations = [s \in Session |-> <<>>]
  /\ answered = [s \in Session |-> 0]
  /\ report = [s \in Session |-> None]

Poll(s) == PollReady(s) \/ PollTimeout(s) \/ PollPanics(s)

Step(s) == StartPing(s) \/ Poll(s) \/ Report(s)

\* Nothing is left to do: every session that began has ended.
Quiet ==
  /\ clock >= LastCall
  /\ \A s \in Session : ~Active(s)
  /\ UNCHANGED vars

Next ==
  \/ Tick
  \/ \E s \in Session, c \in Counts, k \in Probes : Launch(s, c, k)
  \/ \E s \in Session, c \in CallCounts \cup {None}, t \in Timeouts \cup {None},
       k \in Probes : Call(s, c, t, k)
  \/ \E s \in Session, c \in CallCounts \cup {None} : CallAborts(s, c)
  \/ \E s \in Session : Resolved(s)
  \/ \E s \in Session : Step(s)
  \/ \E s \in Session, r \in {"ok", "err", "panic"} : InnerReady(s, r)
  \/ Quiet

Spec == Init /\ [][Next]_vars

\* The runtime polls a task that was woken, the resolver returns, time goes
\* on.  The network promises nothing: InnerReady is not fair.
Fairness ==
  /\ WF_vars(Tick)
  /\ \A s \in Session : WF_vars(Resolved(s)) /\ WF_vars(Step(s))

FairSpec == Spec /\ Fairness

----------------------------------------------------------------------------
(* Properties *)

\* Every variable has its type: in particular the u64 subtractions of main
\* and run_pings never go below zero.
TypeOK ==
  /\ clock \in Nat
  /\ pc \in [Session -> {"idle", "resolving", "looping", "pinging", "done",
                         "panicked", "aborted"}]
  /\ count \in [Session -> Nat]
  /\ timeout \in [Session -> Nat]
  /\ probe \in [Session -> Kinds]
  /\ born \in [Session -> Nat]
  /\ since \in [Session -> Nat]
  /\ inner \in [Session -> {"pending", "ok", "err", "panic"}]
  /\ readyAt \in [Session -> Nat]
  /\ lose \in [Session -> Nat]
  /\ recv \in [Session -> Nat]
  /\ total \in [Session -> Nat]
  /\ iterations \in [Session -> Seq(Iteration)]
  /\ answered \in [Session -> Nat]
  /\ report \in [Session -> Numbers \cup {None}]

\* The one counter each loop keeps agrees with what happened: main's
\* lose_count with the failures printed, run_pings' recv with the successes
\* logged; and the loop never turns more often than it was asked to.
LedgerOf(s) ==
  /\ Turns(s) <= count[s]
  /\ s \in Cli => lose[s] + Successes(s) = Turns(s)
  /\ s \in Mcp => recv[s] = Successes(s)

Ledger == \A s \in Session : LedgerOf(s)

\* A ping whose answer was there at its deadline is never reported lost,
\* however late the task is polled: with_timeout looks at the inner future
\* before it looks at the timer.
AnswerInTimeCounts ==
  \A s \in Session :
    pc[s] \in {"looping", "done"} => answered[s] <= Successes(s)

\* The time of one successful ping() is within its timeout, up to the delay
\* of one poll ("the whole ping() call respects the timeout"), for every
\* pinger that is wrapped in with_timeout.
ElapsedBounded ==
  \A s \in Session : Capped(s) =>
    \A k \in 1..Turns(s) : iterations[s][k].elapsed <= timeout[s] + Lag

\* The reported total never exceeds the time the loop really took: timed()
\* counts no instant twice.
TotalWithinWall ==
  \A s \in Session :
    total[s] <= (IF Active(s) THEN clock ELSE since[s]) - born[s]

\* What the total is made of: the times of the log, failures counting 0, each
\* once.
Elapsed(it) == [k \in 1..Len(it) |-> it[k].elapsed]

TotalIsSum == \A s \in Session : total[s] = Total(Elapsed(iterations[s]))

\* A session of such a pinger reports at most count * (timeout + 2 polls)
\* after it entered its loop, whatever the network does.
ReportInTime ==
  \A s \in Session :
    pc[s] = "done" /\ Capped(s) =>
      since[s] - born[s] <= count[s] * (timeout[s] + 2 * Lag) + Lag

\* The numbers printed are the numbers of the log, add up to the count, and
\* the percentages are percentages, a count of zero included.
ReportHonest ==
  \A s \in Session :
    pc[s] = "done" =>
      LET r == report[s]
      IN  /\ r.recv = Successes(s)
          /\ r.recv + r.lose = count[s]
          /\ r.lose_pct \in 0..100
          /\ (r.lose_pct = 100) <=> (r.recv = 0 /\ count[s] > 0)
          /\ s \in Cli /\ count[s] > 0 => r.recv_pct + r.lose_pct \in {99, 100}

----------------------------------------------------------------------------
(* The inductive invariant behind the safety properties. *)

\* Before its loop a session has done nothing; only a ping may be running
\* while turns are still owed; a report exists exactly when one is due.
Phased(s) ==
  /\ pc[s] \in {"idle", "resolving"} =>
       iterations[s] = <<>> /\ total[s] = 0 /\ answered[s] = 0
  /\ pc[s] = "pinging" => Turns(s) < count[s]
  /\ pc[s] = "done" => Turns(s) = count[s]
  /\ pc[s] # "done" => report[s] = None

\* The time the turns finished so far may have taken.
Budget(s) == Turns(s) * (timeout[s] + 2 * Lag)

\* No phase outlives its wake-up by more than Lag, so the n-th turn ends
\* within n * (timeout + 2 Lag) of the loop's start, if the turns are capped.
Paced(s) ==
  /\ since[s] <= clock
  /\ pc[s] \in {"looping", "pinging", "done"} => born[s] <= since[s]
  /\ Active(s) /\ ~Hangs(s) => clock <= Wake(s) + Lag
  /\ pc[s] = "pinging" /\ inner[s] # "pending" =>
       since[s] <= readyAt[s] /\ readyAt[s] <= clock
  /\ Capped(s) =>
       /\ pc[s] = "looping" => since[s] - born[s] <= Budget(s)
       /\ pc[s] = "pinging" => since[s] - born[s] <= Budget(s) + Lag
       /\ pc[s] = "done" => since[s] - born[s] <= Budget(s) + Lag

\* An answer that came in time and is not yet counted is the one the running
\* ping is about to be polled for.
Credited(s) ==
  pc[s] # "aborted" =>
    answered[s] <= Successes(s)
                   + (IF pc[s] = "pinging" /\ inner[s] = "ok" THEN 1 ELSE 0)

Sound(s) == LedgerOf(s) /\ Phased(s) /\ Paced(s) /\ Credited(s)

IInv == TypeOK /\ \A s \in Session : Sound(s)

(* The session as PingTally sees it. *)
Phase(s) ==
  CASE pc[s] = "idle"                      -> "idle"
    [] pc[s] \in {"panicked", "aborted"} -> "void"
    [] pc[s] = "done"                      -> "delivered"
    [] OTHER                               -> "open"

Tally == INSTANCE PingTally WITH
  NoVerdict <- None,
  Quotas    <- Counts \cup {count_or_default(c) : c \in CallCounts \cup {None}},
  phase     <- [s \in Session |-> Phase(s)],
  quota     <- count,
  wins      <- [s \in Session |-> Successes(s)],
  losses    <- [s \in Session |-> Turns(s) - Successes(s)],
  verdict   <- [s \in Session |-> IF report[s] = None THEN None
                                  ELSE <<report[s].recv, report[s].lose>>]

\* main and run_pings implement PingTally: each turn of the loop is one ping
\* won or lost, never both and never neither, and the numbers computed from
\* a single counter are the true tally.
RefinesTally == Tally!Spec

\* A session ends without a report for one of three reasons only: get_uri
\* panicked on its target, or on a URL of a playlist it fetched, or a call that
\* asked for more memory than there is took the server process down.
Excused(s) ==
  \/ probe[s] = "illegible"
  \/ probe[s] = "playlist" /\ inner[s] = "panic"
  \/ s \in Mcp /\ pc[s] = "aborted"

\* Every session that begins and whose pinger is wrapped in with_timeout
\* delivers its report, even if no answer ever comes, or is excused.  For
\* gRPC and QUIC nothing is promised: the first message of a watch, for one,
\* is awaited for ever.  A tool call with a count beyond a Vec's capacity
\* panics before it begins.
EverySessionReports ==
  \A s \in Session : Active(s) /\ Capped(s) ~> pc[s] = "done" \/ Excused(s)

=============================================================================
