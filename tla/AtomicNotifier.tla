--------------------------- MODULE AtomicNotifier ---------------------------
(***************************************************************************)
(* The notifier a C++20 build may use instead (core/atomic_notifier.h):    *)
(* one word of a count of waiters and an epoch, and the waiting operations *)
(* of std::atomic.  A notification bumps the epoch, and a waiter sleeps    *)
(* only while the epoch is the one it saw when it announced itself.        *)
(*                                                                         *)
(* Since the notifier keeps no list of sleepers, what it promises shows in *)
(* its use: notifiers make work known and then notify, waiters check for   *)
(* work between prepare_wait and commit_wait, as the worker loop does.     *)
(***************************************************************************)
EXTENDS Integers, FiniteSets

CONSTANTS
    Waiters,        \* threads that wait for work
    Notifiers,      \* threads that make work known
    MaxWork         \* bound on the work that is made known in all

VARIABLES
    state,      \* _state
    epoch,      \* Waiter::epoch
    pc,         \* where each thread is
    seen,       \* the value of _state a thread has loaded
    all,        \* which notification a notifier performs
    work,       \* pieces of work nobody has taken
    made,       \* pieces of work made known so far
    eligible    \* the sleepers a notifier's change of the word can wake

\* Threads are finitely many.
WorkAssumed == IsFiniteSet(Notifiers) /\ MaxWork \in Nat

vars == <<state, epoch, pc, seen, all, work, made, eligible>>

Word == [waiters : 0 .. Cardinality(Waiters), epoch : 0 .. MaxWork]
NoWord == [waiters |-> 0, epoch |-> 0]

Init ==
    /\ state = NoWord
    /\ epoch = [w \in Waiters |-> 0]
    /\ pc = [t \in Waiters \cup Notifiers |-> IF t \in Waiters THEN "out" ELSE "idle"]
    /\ seen = [t \in Waiters \cup Notifiers |-> NoWord]
    /\ all = [n \in Notifiers |-> FALSE]
    /\ work = 0
    /\ made = 0
    /\ eligible = [n \in Notifiers |-> {}]

Goto(t, l) == pc' = [pc EXCEPT ![t] = l]
Load(t) == seen' = [seen EXCEPT ![t] = state]
Forget(t) == seen' = [seen EXCEPT ![t] = NoWord]     \* no longer needed

----------------------------------------------------------------------------
(* Waiting *)

TakeWork(w) ==
    /\ pc[w] = "out"
    /\ work > 0
    /\ work' = work - 1
    /\ UNCHANGED <<state, epoch, pc, seen, all, made, eligible>>

PrepareWait(w) ==
    /\ pc[w] = "out"
    /\ state' = [state EXCEPT !.waiters = @ + 1]
    /\ epoch' = [epoch EXCEPT ![w] = state.epoch]
    /\ Goto(w, "recheck")
    /\ UNCHANGED <<seen, all, work, made, eligible>>

\* The waiter looks for work once more.
Recheck(w) ==
    /\ pc[w] = "recheck"
    /\ Goto(w, IF work > 0 THEN "leave" ELSE "commit")
    /\ UNCHANGED <<state, epoch, seen, all, work, made, eligible>>

\* commit_wait loads the word, at its start and after every wait.
CommitLoad(w) ==
    /\ pc[w] = "commit"
    /\ IF state.epoch = epoch[w]
       THEN Goto(w, "wait") /\ Load(w)
       ELSE Goto(w, "leave") /\ Forget(w)
    /\ UNCHANGED <<state, epoch, all, work, made, eligible>>

\* _state.wait: blocks only while the word is the one that was loaded.
Wait(w) ==
    /\ pc[w] = "wait"
    /\ Goto(w, IF state = seen[w] THEN "blocked" ELSE "commit")
    /\ UNCHANGED <<state, epoch, seen, all, work, made, eligible>>

\* A thread that is unblocked, for whatever reason, compares again.
Unblocked(S) ==
    /\ pc' = [t \in DOMAIN pc |-> IF t \in S THEN "wait" ELSE pc[t]]
    /\ eligible' = [n \in Notifiers |-> eligible[n] \ S]

SpuriousWakeup(w) ==
    /\ pc[w] = "blocked"
    /\ Unblocked({w})
    /\ UNCHANGED <<state, epoch, seen, all, work, made>>

\* The end of commit_wait, and cancel_wait.
Leave(w) ==
    /\ pc[w] = "leave"
    /\ state' = [state EXCEPT !.waiters = @ - 1]
    /\ Goto(w, "out")
    /\ UNCHANGED <<epoch, seen, all, work, made, eligible>>

----------------------------------------------------------------------------
(* Notifying *)

MakeWork(n) ==
    /\ pc[n] = "idle"
    /\ made < MaxWork
    /\ made' = made + 1
    /\ work' = work + 1
    /\ all' \in {[all EXCEPT ![n] = a] : a \in BOOLEAN}
    /\ Goto(n, "load")
    /\ UNCHANGED <<state, epoch, seen, eligible>>

LoadOrReturn(n) ==
    IF state.waiters > 0 THEN Load(n) /\ Goto(n, "swap") ELSE Forget(n) /\ Goto(n, "idle")

NotifyLoad(n) ==
    /\ pc[n] = "load"
    /\ LoadOrReturn(n)
    /\ UNCHANGED <<state, epoch, all, work, made, eligible>>

\* The compare-and-swap of the word; only a thread that blocked before it took
\* effect can be woken by the call that follows.
NotifySwap(n) ==
    /\ pc[n] = "swap"
    /\ IF state = seen[n]
       THEN /\ state' = [state EXCEPT !.epoch = @ + 1]
            /\ eligible' = [eligible EXCEPT ![n] = {w \in Waiters : pc[w] = "blocked"}]
            /\ Goto(n, "wake")
            /\ Forget(n)
       ELSE /\ LoadOrReturn(n)
            /\ UNCHANGED <<state, eligible>>
    /\ UNCHANGED <<epoch, all, work, made>>

\* _state.notify_one or notify_all.
Woken(n, S) ==
    /\ IF all[n] THEN S = eligible[n]
       ELSE S \subseteq eligible[n] /\ Cardinality(S) = IF eligible[n] = {} THEN 0 ELSE 1

Wake(n) ==
    /\ pc[n] = "wake"
    /\ \E S \in SUBSET Waiters :
          /\ Woken(n, S)
          /\ pc' = [t \in DOMAIN pc |->
                       IF t \in S THEN "wait" ELSE IF t = n THEN "idle" ELSE pc[t]]
          /\ eligible' = [m \in Notifiers |-> IF m = n THEN {} ELSE eligible[m] \ S]
    /\ UNCHANGED <<state, epoch, seen, all, work, made>>

Next ==
    \/ \E w \in Waiters :
          \/ TakeWork(w) \/ PrepareWait(w) \/ Recheck(w) \/ CommitLoad(w)
          \/ Wait(w) \/ SpuriousWakeup(w) \/ Leave(w)
    \/ \E n \in Notifiers :
          MakeWork(n) \/ NotifyLoad(n) \/ NotifySwap(n) \/ Wake(n)

Spec == Init /\ [][Next]_vars

----------------------------------------------------------------------------
(* Properties *)

Announced == {w \in Waiters : pc[w] \in {"recheck", "commit", "wait", "blocked", "leave"}}

\* The waiters that stay asleep unless somebody notifies.
Asleep ==
    {w \in Waiters : \/ pc[w] = "blocked"
                     \/ pc[w] \in {"commit", "wait"} /\ epoch[w] = state.epoch}

\* The waiters that a call to come can still wake.
Notifying == {n \in Notifiers : pc[n] # "idle"}

\* The count is that of the announced waiters (the destructor asserts that it is
\* zero), and while anybody sleeps every piece of work that is known has a waiter
\* that is up to take it, or a notification for it that is still under way.
Consistent ==
    /\ state \in Word
    /\ state.waiters = Cardinality(Announced)
    /\ \A n \in Notifiers : \A w \in eligible[n] : pc[w] = "blocked" /\ epoch[w] # state.epoch
    /\ Asleep # {} => work <= Cardinality(Waiters \ Asleep) + Cardinality(Notifying)
=============================================================================
