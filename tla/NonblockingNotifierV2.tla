----------------------- MODULE NonblockingNotifierV2 ------------------------
(***************************************************************************)
(* The notifier a C++17 build uses (core/nonblocking_notifier.h): an event *)
(* count in one 64-bit word that packs the top of the stack of sleeping    *)
(* waiters, the number of announced waiters, the number of pending         *)
(* signals, and an epoch that tells two stacks with the same top apart.    *)
(*                                                                         *)
(* A step is one access to shared memory: a load or a compare-and-swap of  *)
(* the word, an access to a waiter's next field, or a critical section of  *)
(* a waiter's mutex.  A failed compare-and-swap reloads the word, as       *)
(* compare_exchange_weak does.  Waiting threads follow the two-phase       *)
(* protocol in any way they like; other threads notify one or all.         *)
(***************************************************************************)
EXTENDS Integers, FiniteSets

CONSTANTS
    Waiters,        \* threads that own a Waiter
    Notifiers,      \* threads that notify
    None,           \* kStackMask: no waiter
    MaxEpoch        \* bound on how often one waiter goes to sleep

ASSUME NotifierAssumption ==
    /\ IsFiniteSet(Waiters)
    /\ Waiters \cap Notifiers = {}
    /\ None \notin Waiters
    /\ MaxEpoch \in Nat

VARIABLES
    state,      \* _state
    next,       \* Waiter::next: what was below the waiter when it was pushed
    epoch,      \* Waiter::epoch
    wstate,     \* Waiter::state
    pc,         \* where each thread is
    seen,       \* each thread's local copy of _state
    below,      \* a notifier's local copy of next
    all,        \* which notification a notifier performs
    cur         \* the waiter a notifier unparks next

vars == <<state, next, epoch, wstate, pc, seen, below, all, cur>>

Threads == Waiters \cup Notifiers

Top == [stack : Waiters \cup {None}, epoch : Nat]
Word == [stack : Waiters \cup {None}, epoch : Nat, waiters : Nat, signals : Nat]

NoTop == [stack |-> None, epoch |-> 0]
NoWord == [stack |-> None, epoch |-> 0, waiters |-> 0, signals |-> 0]
TopOf(s) == [stack |-> s.stack, epoch |-> s.epoch]

WaiterPC == {"out", "recheck", "commit", "push", "cancel", "take", "park", "blocked"}
NotifierPC == {"idle", "next", "swap", "unpark", "wake"}

TypeOK ==
    /\ state \in Word
    /\ next \in [Waiters -> Top]
    /\ epoch \in [Waiters -> Nat]
    /\ wstate \in [Waiters -> {"notsignaled", "waiting", "signaled"}]
    /\ pc \in [Threads -> WaiterPC \cup NotifierPC]
    /\ seen \in [Threads -> Word]
    /\ below \in [Notifiers -> Top]
    /\ all \in [Notifiers -> BOOLEAN]
    /\ cur \in [Notifiers -> Waiters \cup {None}]

Init ==
    /\ state = NoWord
    /\ next = [w \in Waiters |-> NoTop]
    /\ epoch = [w \in Waiters |-> 0]
    /\ wstate = [w \in Waiters |-> "notsignaled"]
    /\ pc = [t \in Threads |-> IF t \in Waiters THEN "out" ELSE "idle"]
    /\ seen = [t \in Threads |-> NoWord]
    /\ below = [n \in Notifiers |-> NoTop]
    /\ all = [n \in Notifiers |-> FALSE]
    /\ cur = [n \in Notifiers |-> None]

Goto(t, l) == pc' = [pc EXCEPT ![t] = l]

\* The thread loads the word and goes on at l.
Load(t, l) ==
    /\ seen' = [seen EXCEPT ![t] = state]
    /\ Goto(t, l)

\* compare_exchange_weak of the word: on failure the thread sees the word anew.
\* (A local copy that is no longer needed is cleared.)
Swap(t, new, success, failure) ==
    \/ /\ state = seen[t]
       /\ state' = new
       /\ Goto(t, success)
       /\ seen' = [seen EXCEPT ![t] = NoWord]
    \/ /\ state # seen[t]
       /\ Load(t, failure)
       /\ UNCHANGED state

----------------------------------------------------------------------------
(* Waiting *)

PrepareWait(w) ==
    /\ pc[w] = "out"
    /\ epoch[w] < MaxEpoch
    /\ state' = [state EXCEPT !.waiters = @ + 1]
    /\ Goto(w, "recheck")
    /\ UNCHANGED <<next, epoch, wstate, seen, below, all, cur>>

CommitBegin(w) ==
    /\ pc[w] = "recheck"
    /\ wstate' = [wstate EXCEPT ![w] = "notsignaled"]
    /\ Load(w, "commit")
    /\ UNCHANGED <<state, next, epoch, below, all, cur>>

\* With no signal to consume, the waiter links itself above the current top.
CommitLink(w) ==
    /\ pc[w] = "commit"
    /\ IF seen[w].signals = 0
       THEN next' = [next EXCEPT ![w] = TopOf(seen[w])]
       ELSE UNCHANGED next
    /\ Goto(w, "push")
    /\ UNCHANGED <<state, epoch, wstate, seen, below, all, cur>>

CommitSwap(w) ==
    /\ pc[w] = "push"
    /\ \/ /\ seen[w].signals > 0
          /\ Swap(w, [seen[w] EXCEPT !.waiters = @ - 1, !.signals = @ - 1], "out", "commit")
          /\ UNCHANGED epoch
       \/ /\ seen[w].signals = 0
          /\ Swap(w, [seen[w] EXCEPT !.stack = w, !.epoch = epoch[w], !.waiters = @ - 1],
                  "park", "commit")
          /\ epoch' = IF state = seen[w] THEN [epoch EXCEPT ![w] = @ + 1] ELSE epoch
    /\ UNCHANGED <<next, wstate, below, all, cur>>

\* One round of _park's loop, inside the waiter's mutex.
Park(w) ==
    /\ pc[w] = "park"
    /\ \/ /\ wstate[w] = "signaled"
          /\ Goto(w, "out")
          /\ UNCHANGED wstate
       \/ /\ wstate[w] # "signaled"
          /\ wstate' = [wstate EXCEPT ![w] = "waiting"]
          /\ Goto(w, "blocked")
    /\ UNCHANGED <<state, next, epoch, seen, below, all, cur>>

\* A condition variable may wake its waiter for no reason.
SpuriousWakeup(w) ==
    /\ pc[w] = "blocked"
    /\ Goto(w, "park")
    /\ UNCHANGED <<state, next, epoch, wstate, seen, below, all, cur>>

CancelBegin(w) ==
    /\ pc[w] = "recheck"
    /\ Load(w, "cancel")
    /\ UNCHANGED <<state, next, epoch, wstate, below, all, cur>>

CancelSwap(w) ==
    /\ pc[w] = "cancel"
    /\ Swap(w, [seen[w] EXCEPT
                   !.waiters = @ - 1,
                   !.signals = IF seen[w].waiters = @ THEN @ - 1 ELSE @],
            "out", "cancel")
    /\ UNCHANGED <<next, epoch, wstate, below, all, cur>>

----------------------------------------------------------------------------
(* Notifying *)

NobodyWaits == state.stack = None /\ state.waiters = state.signals

\* What a notifier does next with the word it has just loaded: nothing, swap, or
\* first read the field below the top it is going to pop.
Branch(n, notifyAll) ==
    \/ /\ NobodyWaits
       /\ Goto(n, "idle")
       /\ seen' = [seen EXCEPT ![n] = NoWord]
    \/ /\ ~NobodyWaits
       /\ Load(n, IF notifyAll \/ state.signals < state.waiters THEN "swap" ELSE "next")

\* A failed compare-and-swap takes the notifier back to its branch.
SwapOrBranch(n, new, success) ==
    \/ /\ state = seen[n]
       /\ Swap(n, new, success, success)
    \/ /\ state # seen[n]
       /\ Branch(n, all[n])
       /\ UNCHANGED state

NotifyBegin(n) ==
    /\ pc[n] = "idle"
    /\ \E a \in BOOLEAN :
          /\ all' = [all EXCEPT ![n] = a /\ ~NobodyWaits]
          /\ Branch(n, a)
    /\ UNCHANGED <<state, next, epoch, wstate, below, cur>>

NotifyReadNext(n) ==
    /\ pc[n] = "next"
    /\ below' = [below EXCEPT ![n] = next[seen[n].stack]]
    /\ Goto(n, "swap")
    /\ UNCHANGED <<state, next, epoch, wstate, seen, all, cur>>

\* A faulty variant that empties the stack but signals no announced waiter.
NotifyAllSleepersOnly(n) ==
    /\ pc[n] = "swap" /\ all[n]
    /\ SwapOrBranch(n, [seen[n] EXCEPT !.stack = None, !.epoch = 0],
                    IF seen[n].stack = None THEN "idle" ELSE "unpark")
    /\ cur' = IF state = seen[n] THEN [cur EXCEPT ![n] = seen[n].stack] ELSE cur
    /\ UNCHANGED <<next, epoch, wstate, below, all>>

\* The whole stack is taken and every announced waiter gets a signal.
NotifyAllSwap(n) ==
    /\ pc[n] = "swap" /\ all[n]
    /\ SwapOrBranch(n, [stack |-> None, epoch |-> 0,
                        waiters |-> seen[n].waiters, signals |-> seen[n].waiters],
            IF seen[n].stack = None THEN "idle" ELSE "unpark")
    /\ cur' = IF state = seen[n] THEN [cur EXCEPT ![n] = seen[n].stack] ELSE cur
    /\ UNCHANGED <<next, epoch, wstate, below, all>>

\* An announced waiter without a signal gets one.
NotifySignalSwap(n) ==
    /\ pc[n] = "swap" /\ ~all[n]
    /\ seen[n].signals < seen[n].waiters
    /\ SwapOrBranch(n, [seen[n] EXCEPT !.signals = @ + 1], "idle")
    /\ UNCHANGED <<next, epoch, wstate, below, all, cur>>

\* The top of the stack is popped, and unlinked once the swap succeeded.
NotifyPopSwap(n) ==
    /\ pc[n] = "swap" /\ ~all[n]
    /\ seen[n].signals >= seen[n].waiters
    /\ SwapOrBranch(n, [seen[n] EXCEPT !.stack = below[n].stack, !.epoch = below[n].epoch],
                    "unpark")
    /\ below' = [below EXCEPT ![n] = NoTop]
    /\ IF state = seen[n]
       THEN /\ cur' = [cur EXCEPT ![n] = seen[n].stack]
            /\ next' = [next EXCEPT ![seen[n].stack] = NoTop]
       ELSE UNCHANGED <<cur, next>>
    /\ UNCHANGED <<epoch, wstate, all>>

\* Marks the waiter signaled in its mutex; cv.notify_one follows, if the waiter
\* was waiting, after the mutex is released.
SignalWaiter(n, w) ==
    /\ wstate' = [wstate EXCEPT ![w] = "signaled"]
    /\ Goto(n, IF wstate[w] = "waiting" THEN "wake"
               ELSE IF below'[n].stack = None THEN "idle" ELSE "unpark")
    /\ cur' = [cur EXCEPT ![n] = IF wstate[w] = "waiting" THEN w ELSE below'[n].stack]

\* One round of _unpark's loop: the next waiter is read before this one is
\* signalled, since a signalled waiter may use its fields again.
Unpark(n) ==
    /\ pc[n] = "unpark"
    /\ below' = [below EXCEPT ![n] = next[cur[n]]]
    /\ SignalWaiter(n, cur[n])
    /\ UNCHANGED <<state, next, epoch, seen, all>>

\* cv.notify_one reaches the waiter only if it still blocks.
Wake(n) ==
    /\ pc[n] = "wake"
    /\ cur' = [cur EXCEPT ![n] = below[n].stack]
    /\ pc' = [pc EXCEPT ![n] = IF below[n].stack = None THEN "idle" ELSE "unpark",
                        ![cur[n]] = IF @ = "blocked" THEN "park" ELSE @]
    /\ UNCHANGED <<state, next, epoch, wstate, seen, below, all>>

WaiterStep(w) ==
    \/ CommitLink(w) \/ CommitSwap(w) \/ Park(w) \/ CancelSwap(w)
    \/ CommitBegin(w) \/ CancelBegin(w)

NotifierStep(n) ==
    \/ NotifyReadNext(n) \/ NotifyAllSwap(n)
    \/ NotifySignalSwap(n) \/ NotifyPopSwap(n) \/ Unpark(n) \/ Wake(n)

Next ==
    \/ \E w \in Waiters : PrepareWait(w) \/ WaiterStep(w) \/ SpuriousWakeup(w)
    \/ \E n \in Notifiers : NotifyBegin(n) \/ NotifierStep(n)

Spec == Init /\ [][Next]_vars

----------------------------------------------------------------------------
(* Properties *)

Prewaiting == {w \in Waiters : pc[w] \in {"recheck", "commit", "push", "cancel"}}

\* The waiters that follow from w on in a list whose links are f: the least set that
\* holds w and what its members link to.
Reach(f, w) ==
    {v \in Waiters :
        \A S \in SUBSET Waiters :
            w \in S \cup {None} /\ (\A u \in S : f[u] \in S \cup {None}) => v \in S}

\* A list ends when no member of it comes again after itself.
Ends(f, w) == \A v \in Reach(f, w) : v \notin Reach(f, f[v])

Links == [w \in Waiters |-> next[w].stack]

\* The waiters on the stack.
Stacked == Reach(Links, state.stack)

\* The counters in the word are what _check_state asserts, and count exactly the
\* waiters between prepare_wait and the end of commit_wait or cancel_wait.
CountersAgree ==
    /\ state.waiters = Cardinality(Prewaiting)
    /\ state.signals <= state.waiters

\* The linked list in the waiters is a stack of distinct sleepers: it ends, it
\* holds only waiters that committed to sleep and were not signalled, and none of
\* them is about to be unparked by a notifier.
StackOfSleepers ==
    /\ Ends(Links, state.stack)
    /\ \A w \in Stacked : pc[w] \in {"park", "blocked"} /\ wstate[w] # "signaled"
    /\ \A n \in Notifiers : pc[n] = "unpark" => cur[n] \notin Stacked

\* The counters, the stack and the waiters' states agree.
Consistent == TypeOK /\ CountersAgree /\ StackOfSleepers

\* A sleeper that is off the stack has been taken by exactly one notifier, or is
\* signalled already, and one that was signalled in its sleep is about to be woken:
\* nobody is forgotten and nobody is signalled twice, and no waiter depends on a
\* spurious wake-up to return from commit_wait (_park, _unpark).
TakenBy(n) ==
    Reach(Links, IF pc[n] = "unpark" THEN cur[n]
                 ELSE IF pc[n] = "wake" THEN below[n].stack ELSE None)

SleeperHasOneWaker ==
    \A w \in Waiters :
        LET wakers == {n \in Notifiers : w \in TakenBy(n)} IN
        /\ Cardinality(wakers) <= 1
        /\ pc[w] \in {"park", "blocked"} =>
              (w \in Stacked \/ wstate[w] = "signaled") <=> wakers = {}
        /\ pc[w] = "blocked" /\ wstate[w] = "signaled" =>
              \E n \in Notifiers : pc[n] = "wake" /\ cur[n] = w

\* The event count this algorithm implements.
PhaseOf(w, stacked) ==
    CASE w \in Prewaiting -> "prewait"
      [] pc[w] \in {"park", "blocked"} -> IF w \in stacked THEN "parked" ELSE "woken"
      [] OTHER -> "out"

Phases == LET stacked == Stacked IN [w \in Waiters |-> PhaseOf(w, stacked)]

EC == INSTANCE EventCount WITH
    phase <- Phases,
    signals <- state.signals

\* Every behaviour of the compare-and-swap algorithm is one of the event count.
ImplementsEventCount == EC!ECSpec
=============================================================================
