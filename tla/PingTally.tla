----------------------------- MODULE PingTally -----------------------------
(***************************************************************************)
(* What a session of knockknock promises, without clocks, timers or        *)
(* counters: it makes exactly as many pings as it was asked to, each is    *)
(* won or lost once, and the verdict it delivers, if it lives to deliver   *)
(* one, is the true tally.                                                 *)
(***************************************************************************)
EXTENDS Integers

CONSTANTS Session, Quotas, NoVerdict

VARIABLES phase, quota, wins, losses, verdict

vars == <<phase, quota, wins, losses, verdict>>

Init ==
  /\ phase = [s \in Session |-> "idle"]
  /\ quota = [s \in Session |-> 0]
  /\ wins = [s \in Session |-> 0]
  /\ losses = [s \in Session |-> 0]
  /\ verdict = [s \in Session |-> NoVerdict]

\* A session is opened for n pings, or is void (a panic before the first).
Ask(s, n, p) ==
  /\ phase[s] = "idle"
  /\ phase' = [phase EXCEPT ![s] = p]
  /\ quota' = [quota EXCEPT ![s] = n]
  /\ UNCHANGED <<wins, losses, verdict>>

\* Sessions end without a verdict: a panic ends one, an abort several.
Abandon(S) ==
  /\ \A s \in S : phase[s] # "delivered"
  /\ phase' = [s \in Session |-> IF s \in S THEN "void" ELSE phase[s]]
  /\ UNCHANGED <<quota, wins, losses, verdict>>

Owing(s) == phase[s] = "open" /\ wins[s] + losses[s] < quota[s]

Win(s) ==
  /\ Owing(s)
  /\ wins' = [wins EXCEPT ![s] = @ + 1]
  /\ UNCHANGED <<phase, quota, losses, verdict>>

Lose(s) ==
  /\ Owing(s)
  /\ losses' = [losses EXCEPT ![s] = @ + 1]
  /\ UNCHANGED <<phase, quota, wins, verdict>>

Deliver(s) ==
  /\ phase[s] = "open"
  /\ wins[s] + losses[s] = quota[s]
  /\ phase' = [phase EXCEPT ![s] = "delivered"]
  /\ verdict' = [verdict EXCEPT ![s] = <<wins[s], losses[s]>>]
  /\ UNCHANGED <<quota, wins, losses>>

Next ==
  \/ \E s \in Session :
       \/ \E n \in Quotas, p \in {"open", "void"} : Ask(s, n, p)
       \/ Win(s)
       \/ Lose(s)
       \/ Deliver(s)
  \/ \E S \in SUBSET Session : Abandon(S)

Spec == Init /\ [][Next]_vars
=============================================================================
