---------------------------- MODULE TicketCount -----------------------------
(***************************************************************************)
(* What the first version of the notifier promises beyond EventCount: the  *)
(* announced waiters stand in a line, and a notification goes to the one   *)
(* that announced itself first.  Only when nobody stands in the line is a  *)
(* sleeper woken.  Every operation is one atomic step.                     *)
(***************************************************************************)
EXTENDS Sequences, FiniteSets

CONSTANT Waiters                    \* the threads that may wait

VARIABLES
    phase,      \* where each waiter is in its two-phase wait
    line        \* the announced waiters nothing has been decided about

tcVars == <<phase, line>>

Parked == {w \in Waiters : phase[w] = "parked"}

TCInit ==
    /\ phase = [w \in Waiters |-> "out"]
    /\ line = <<>>

Announce(w) ==
    /\ phase[w] = "out"
    /\ phase' = [phase EXCEPT ![w] = "prewait"]
    /\ line' = Append(line, w)

\* The first in the line goes to sleep or changes its mind.
Decide(p) ==
    /\ line # <<>>
    /\ phase' = [phase EXCEPT ![Head(line)] = p]
    /\ line' = Tail(line)

\* A woken waiter returns from commit_wait or cancel_wait.
Leave(w) ==
    /\ phase[w] = "woken"
    /\ phase' = [phase EXCEPT ![w] = "out"]
    /\ UNCHANGED line

WakeOne ==
    \/ Decide("woken")
    \/ /\ line = <<>>
       /\ \E w \in Parked : phase' = [phase EXCEPT ![w] = "woken"]
       /\ UNCHANGED line

WakeAll ==
    /\ phase' = [w \in Waiters |-> IF phase[w] = "out" THEN "out" ELSE "woken"]
    /\ line' = <<>>

TCNext ==
    \/ \E w \in Waiters : Announce(w) \/ Leave(w)
    \/ Decide("parked") \/ Decide("out")
    \/ WakeOne \/ WakeAll
=============================================================================
