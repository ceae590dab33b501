----------------------- MODULE NonblockingNotifierV1 ------------------------
(***************************************************************************)
(* The first version of the notifier (core/nonblocking_notifier.h): the    *)
(* word packs the stack of sleepers, the number of announced waiters and   *)
(* an epoch that counts the waiters something was decided about.  A waiter *)
(* takes a ticket when it announces itself, and waits in commit_wait and   *)
(* cancel_wait until the epoch has reached it: the announced waiters are   *)
(* served in their order.                                                  *)
(*                                                                         *)
(* Steps and conventions are those of NonblockingNotifierV2.  Epochs wrap  *)
(* around and are compared by the sign of their difference.                *)
(***************************************************************************)
EXTENDS Integers, FiniteSets

CONSTANTS
    Waiters,        \* threads that own a Waiter
    Notifiers,      \* threads that notify
    None,           \* kStackMask: no waiter
    EpochSize,      \* 2^kEpochBits
    MaxWaits        \* bound on the waits of all waiters together

VARIABLES
    state,      \* _state
    next,       \* Waiter::next: what was below the waiter when it was pushed
    epoch,      \* Waiter::epoch: the ticket, epoch plus waiters in front
    wstate,     \* Waiter::state
    pc,         \* where each thread is
    seen,       \* each thread's local copy of _state
    below,      \* a notifier's local copy of next
    all,        \* which notification a notifier performs
    cur         \* the waiter a notifier unparks next

vars == <<state, next, epoch, wstate, pc, seen, below, all, cur>>

\* Fewer waits than half of the epochs: the sign of a difference is exact.
NotifierAssumption == EpochSize \in Nat /\ MaxWaits \in Nat /\ 2 * MaxWaits < EpochSize

Threads == Waiters \cup Notifiers
Epochs == 0 .. EpochSize - 1
Word == [stack : Waiters \cup {None}, waiters : 0 .. Cardinality(Waiters), epoch : Epochs]
NoWord == [stack |-> None, waiters |-> 0, epoch |-> 0]

\* The program has run for long: the epoch is about to wrap around.
Start == EpochSize - 1

Advance(e, k) == (e + k) % EpochSize

Init ==
    /\ state = [NoWord EXCEPT !.epoch = Start]
    /\ next = [w \in Waiters |-> None]
    /\ epoch = [w \in Waiters |-> 0]
    /\ wstate = [w \in Waiters |-> "notsignaled"]
    /\ pc = [t \in Threads |-> IF t \in Waiters THEN "out" ELSE "idle"]
    /\ seen = [t \in Threads |-> NoWord]
    /\ below = [n \in Notifiers |-> None]
    /\ all = [n \in Notifiers |-> FALSE]
    /\ cur = [n \in Notifiers |-> None]

Goto(t, l) == pc' = [pc EXCEPT ![t] = l]

Load(t, l) ==
    /\ seen' = [seen EXCEPT ![t] = state]
    /\ Goto(t, l)

\* compare_exchange_weak; a copy that is no longer needed is cleared.
Swap(t, new, success, failure) ==
    \/ /\ state = seen[t]
       /\ state' = new
       /\ Goto(t, success)
       /\ seen' = [seen EXCEPT ![t] = NoWord]
    \/ /\ state # seen[t]
       /\ Load(t, failure)
       /\ UNCHANGED state

----------------------------------------------------------------------------
(* Waiting *)

PrepareWait(w) ==
    /\ pc[w] = "out"
    /\ Advance(state.epoch, state.waiters - Start) < MaxWaits
    /\ epoch' = [epoch EXCEPT ![w] = Advance(state.epoch, state.waiters)]
    /\ state' = [state EXCEPT !.waiters = @ + 1]
    /\ Goto(w, "recheck")
    /\ UNCHANGED <<next, wstate, seen, below, all, cur>>

CommitBegin(w) ==
    /\ pc[w] = "recheck"
    /\ wstate' = [wstate EXCEPT ![w] = "notsignaled"]
    /\ Load(w, "commit")
    /\ UNCHANGED <<state, next, epoch, below, all, cur>>

CancelBegin(w) ==
    /\ pc[w] = "recheck"
    /\ Load(w, "cancel")
    /\ UNCHANGED <<state, next, epoch, wstate, below, all, cur>>

\* int64_t(epoch of the word - ticket): positive, zero or negative.
Distance(w) ==
    LET d == (seen[w].epoch - epoch[w]) % EpochSize
    IN IF 2 * d < EpochSize THEN d ELSE d - EpochSize

\* It is not the waiter's turn yet, or it was signalled, or it decides: one that
\* commits links itself above the top it saw.
Turn(w) ==
    \/ /\ Distance(w) < 0
       /\ Load(w, pc[w])
       /\ UNCHANGED next
    \/ /\ Distance(w) > 0
       /\ Goto(w, "out")
       /\ seen' = [seen EXCEPT ![w] = NoWord]
       /\ UNCHANGED next
    \/ /\ Distance(w) = 0
       /\ pc[w] = "commit"
       /\ next' = [next EXCEPT ![w] = seen[w].stack]
       /\ Goto(w, "push")
       /\ UNCHANGED seen

Spin(w) ==
    /\ pc[w] \in {"commit", "cancel"}
    /\ Turn(w)
    /\ UNCHANGED <<state, epoch, wstate, below, all, cur>>

Decided(w) == [seen[w] EXCEPT !.waiters = @ - 1, !.epoch = Advance(@, 1)]

CommitSwap(w) ==
    /\ pc[w] = "push"
    /\ Swap(w, [Decided(w) EXCEPT !.stack = w], "park", "commit")
    /\ UNCHANGED <<next, epoch, wstate, below, all, cur>>

CancelSwap(w) ==
    /\ pc[w] = "cancel"
    /\ Distance(w) = 0
    /\ Swap(w, Decided(w), "out", "cancel")
    /\ UNCHANGED <<next, epoch, wstate, below, all, cur>>

\* One round of _park's loop, inside the waiter's mutex.
Park(w) ==
    /\ pc[w] = "park"
    /\ IF wstate[w] = "signaled"
       THEN Goto(w, "out") /\ UNCHANGED wstate
       ELSE Goto(w, "blocked") /\ wstate' = [wstate EXCEPT ![w] = "waiting"]
    /\ UNCHANGED <<state, next, epoch, seen, below, all, cur>>

SpuriousWakeup(w) ==
    /\ pc[w] = "blocked"
    /\ Goto(w, "park")
    /\ UNCHANGED <<state, next, epoch, wstate, seen, below, all, cur>>

----------------------------------------------------------------------------
(* Notifying *)

NobodyWaits == state.stack = None /\ state.waiters = 0

\* With a copy of the word, a notifier returns, swaps, or first reads the field
\* below the top it is going to pop.
Branch(n, notifyAll) ==
    IF NobodyWaits
    THEN Goto(n, "idle") /\ seen' = [seen EXCEPT ![n] = NoWord]
    ELSE Load(n, IF notifyAll \/ state.waiters > 0 THEN "swap" ELSE "next")

NotifyBegin(n) ==
    /\ pc[n] = "idle"
    /\ \E a \in BOOLEAN :
          /\ all' = [all EXCEPT ![n] = a /\ ~NobodyWaits]
          /\ Branch(n, a)
    /\ UNCHANGED <<state, next, epoch, wstate, below, cur>>

NotifyReadNext(n) ==
    /\ pc[n] = "next"
    /\ below' = [below EXCEPT ![n] = next[seen[n].stack]]
    /\ Goto(n, "swap")
    /\ UNCHANGED <<state, next, epoch, wstate, seen, all, cur>>

Pops(n) == ~all[n] /\ seen[n].waiters = 0

Notified(n) ==
    CASE all[n]  -> [stack |-> None, waiters |-> 0,
                     epoch |-> Advance(seen[n].epoch, seen[n].waiters)]
      [] Pops(n) -> [seen[n] EXCEPT !.stack = below[n]]
      [] OTHER   -> [seen[n] EXCEPT !.waiters = @ - 1, !.epoch = Advance(@, 1)]

Unparks(n) == seen[n].stack # None /\ (all[n] \/ Pops(n))

\* A faulty variant that pops a sleeper without cutting it from its chain.
NotifySwapUncut(n) ==
    /\ pc[n] = "swap"
    /\ IF state = seen[n]
       THEN /\ Swap(n, Notified(n), IF Unparks(n) THEN "unpark" ELSE "idle", "idle")
            /\ cur' = [cur EXCEPT ![n] = IF Unparks(n) THEN seen[n].stack ELSE None]
       ELSE /\ Branch(n, all[n])
            /\ UNCHANGED <<state, cur>>
    /\ below' = [below EXCEPT ![n] = None]
    /\ UNCHANGED <<next, epoch, wstate, all>>

\* The swap of a notification: everybody is served and the stack taken, or the
\* first announced waiter is served, or the top is popped and cut from its chain.
NotifySwap(n) ==
    /\ pc[n] = "swap"
    /\ IF state = seen[n]
       THEN /\ Swap(n, Notified(n), IF Unparks(n) THEN "unpark" ELSE "idle", "idle")
            /\ cur' = [cur EXCEPT ![n] = IF Unparks(n) THEN seen[n].stack ELSE None]
            /\ next' = IF Pops(n) THEN [next EXCEPT ![seen[n].stack] = None] ELSE next
       ELSE /\ Branch(n, all[n])
            /\ UNCHANGED <<state, cur, next>>
    /\ below' = [below EXCEPT ![n] = None]
    /\ UNCHANGED <<epoch, wstate, all>>

\* One round of _unpark's loop; cv.notify_one comes after the mutex is released.
Unpark(n) ==
    /\ pc[n] = "unpark"
    /\ LET w == cur[n] IN
       /\ below' = [below EXCEPT ![n] = next[w]]
       /\ wstate' = [wstate EXCEPT ![w] = "signaled"]
       /\ IF wstate[w] = "waiting"
          THEN Goto(n, "wake") /\ UNCHANGED cur
          ELSE /\ Goto(n, IF next[w] = None THEN "idle" ELSE "unpark")
               /\ cur' = [cur EXCEPT ![n] = next[w]]
    /\ UNCHANGED <<state, next, epoch, seen, all>>

Wake(n) ==
    /\ pc[n] = "wake"
    /\ cur' = [cur EXCEPT ![n] = below[n]]
    /\ pc' = [pc EXCEPT ![n] = IF below[n] = None THEN "idle" ELSE "unpark",
                        ![cur[n]] = IF @ = "blocked" THEN "park" ELSE @]
    /\ UNCHANGED <<state, next, epoch, wstate, seen, below, all>>

Next ==
    \/ \E w \in Waiters :
          \/ PrepareWait(w) \/ CommitBegin(w) \/ CancelBegin(w) \/ Spin(w)
          \/ CommitSwap(w) \/ CancelSwap(w) \/ Park(w) \/ SpuriousWakeup(w)
    \/ \E n \in Notifiers :
          NotifyBegin(n) \/ NotifyReadNext(n) \/ NotifySwap(n) \/ Unpark(n) \/ Wake(n)

Spec == Init /\ [][Next]_vars

----------------------------------------------------------------------------
(* Properties *)

TypeOK ==
    /\ state \in Word
    /\ next \in [Waiters -> Waiters \cup {None}]
    /\ epoch \in [Waiters -> Epochs]
    /\ wstate \in [Waiters -> {"notsignaled", "waiting", "signaled"}]
    /\ pc \in [Threads -> {"out", "recheck", "commit", "cancel", "push", "park", "blocked",
                           "idle", "next", "swap", "unpark", "wake"}]
    /\ seen \in [Threads -> Word]
    /\ below \in [Notifiers -> Waiters \cup {None}]
    /\ all \in [Notifiers -> BOOLEAN]
    /\ cur \in [Notifiers -> Waiters \cup {None}]

\* The chain of next fields from w on: the least set that holds w and what its
\* members link to.
Chain(w) ==
    {v \in Waiters :
        \A S \in SUBSET Waiters :
            w \in S \cup {None} /\ (\A u \in S : next[u] \in S \cup {None}) => v \in S}

Stacked == Chain(state.stack)
Taken(n) == Chain(IF pc[n] = "unpark" THEN cur[n] ELSE IF pc[n] = "wake" THEN below[n] ELSE None)

Announced == {w \in Waiters : pc[w] \in {"recheck", "commit", "cancel", "push"}}

\* A waiter whose turn has not come holds the ticket of its place in the line.
Unserved == {w \in Announced : (epoch[w] - state.epoch) % EpochSize < state.waiters}

Line ==
    [i \in 1 .. state.waiters |->
        CHOOSE w \in Unserved : epoch[w] = Advance(state.epoch, i - 1)]

\* The tickets from the epoch on are held by exactly the announced waiters that
\* were not served (the assertions of commit_wait and cancel_wait), the stack is of
\* distinct sleepers, and a sleeper that is off the stack was signalled or is in the
\* hands of exactly one notifier, which wakes it if it blocks.
Consistent ==
    /\ TypeOK
    /\ Cardinality(Unserved) = state.waiters
    /\ \A v, w \in Unserved : epoch[v] = epoch[w] => v = w
    /\ \A w \in Waiters :
          LET wakers == {n \in Notifiers : w \in Taken(n)}
              asleep == pc[w] \in {"park", "blocked"} IN
          /\ Cardinality(wakers) <= 1
          /\ w \in Stacked => asleep /\ wstate[w] # "signaled" /\ wakers = {}
          /\ asleep => w \in Stacked \/ wstate[w] = "signaled" \/ wakers # {}
          /\ pc[w] = "blocked" /\ wstate[w] = "signaled" =>
                \E n \in Notifiers : pc[n] = "wake" /\ cur[n] = w

Phases ==
    LET stacked == Stacked
        unserved == Unserved IN
    [w \in Waiters |->
        CASE w \in unserved -> "prewait"
          [] w \in stacked -> "parked"
          [] pc[w] = "out" -> "out"
          [] OTHER -> "woken"]

TC == INSTANCE TicketCount WITH phase <- Phases, line <- Line
=============================================================================
