----------------------------- MODULE EventCount -----------------------------
(***************************************************************************)
(* What the executor's notifier promises (core/nonblocking_notifier.h):    *)
(* a two-phase wait for a predicate the notifier itself knows nothing of.  *)
(* A waiter announces itself (prepare_wait), re-checks its predicate, and  *)
(* then takes the announcement back (cancel_wait) or goes to sleep         *)
(* (commit_wait).  A notification that finds announced waiters leaves a    *)
(* signal for one of them; otherwise it wakes one sleeping waiter.         *)
(*                                                                         *)
(* Every operation is one atomic step here.  NonblockingNotifierV2 is the  *)
(* algorithm with its compare-and-swap loops and waiter stack, and         *)
(* implements this module; WorkStealing is its client, the worker loop.    *)
(***************************************************************************)
EXTENDS Integers, FiniteSets

CONSTANT Waiters                    \* the threads that may wait

ASSUME WaitersAssumption == IsFiniteSet(Waiters)

VARIABLES
    phase,      \* where each waiter is in its two-phase wait
    signals     \* wake-ups left for announced waiters, not consumed yet

ecVars == <<phase, signals>>

Phase == {"out", "prewait", "parked", "woken"}

In(p) == {w \in Waiters : phase[w] = p}
Announced == In("prewait")
Parked    == In("parked")

ECTypeOK ==
    /\ phase \in [Waiters -> Phase]
    /\ signals \in Nat

\* The assertion of _check_state: a signal is always meant for a waiter that
\* announced itself and has neither committed nor cancelled yet.
SignalsBounded == signals <= Cardinality(Announced)

ECInit ==
    /\ phase = [w \in Waiters |-> "out"]
    /\ signals = 0

PrepareWait(w) ==
    /\ phase[w] = "out"
    /\ phase' = [phase EXCEPT ![w] = "prewait"]
    /\ UNCHANGED signals

\* A waiting signal is consumed and the waiter does not sleep.
CommitWait(w) ==
    /\ phase[w] = "prewait"
    /\ \/ /\ signals > 0
          /\ signals' = signals - 1
          /\ phase' = [phase EXCEPT ![w] = "out"]
       \/ /\ signals = 0
          /\ phase' = [phase EXCEPT ![w] = "parked"]
          /\ UNCHANGED signals

\* The waiter takes a signal with it only if there are as many signals as
\* announced waiters, since one of them must then be its own.
CancelWait(w) ==
    /\ phase[w] = "prewait"
    /\ phase' = [phase EXCEPT ![w] = "out"]
    /\ signals' = IF signals = Cardinality(Announced) THEN signals - 1 ELSE signals

\* A woken waiter returns from commit_wait.
Resume(w) ==
    /\ phase[w] = "woken"
    /\ phase' = [phase EXCEPT ![w] = "out"]
    /\ UNCHANGED signals

NotifyOne ==
    \/ /\ signals < Cardinality(Announced)
       /\ signals' = signals + 1
       /\ UNCHANGED phase
    \/ /\ signals = Cardinality(Announced)
       /\ \E w \in Parked : phase' = [phase EXCEPT ![w] = "woken"]
       /\ UNCHANGED signals
    \/ /\ signals = Cardinality(Announced)
       /\ Parked = {}
       /\ UNCHANGED ecVars

NotifyAll ==
    /\ signals' = Cardinality(Announced)
    /\ phase' = [w \in Waiters |-> IF phase[w] = "parked" THEN "woken" ELSE phase[w]]

ECNext ==
    \/ \E w \in Waiters : PrepareWait(w) \/ CommitWait(w) \/ CancelWait(w) \/ Resume(w)
    \/ NotifyOne
    \/ NotifyAll

ECSpec == ECInit /\ [][ECNext]_ecVars
=============================================================================
