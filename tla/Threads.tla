------------------------------ MODULE Threads -------------------------------
(***************************************************************************)
(* A thread object (simple_thread.h), the latch it counts down (latch.h)   *)
(* and the callbacks that run at the end of the thread (thread_atexit.h).  *)
(*                                                                         *)
(* Clients start the thread and join it, wait for the latch, and one of    *)
(* them destroys the object when no call is under way and the thread, if   *)
(* it was started, has been joined.  The thread counts the latch down, by  *)
(* more than is left too, and registers and cancels callbacks, also from   *)
(* within a callback.  A step is a critical section of a mutex or a piece  *)
(* of code that only its own thread sees.                                  *)
(***************************************************************************)
EXTENDS Integers, SequencesExt

CONSTANTS
    Clients,        \* threads that use the object and the latch
    LatchCount,     \* the count the latch starts with
    MaxIds          \* bound on the callbacks that are registered

VARIABLES
    life,       \* SimpleThread::state_
    handle,     \* SimpleThread::thread_, and whether the object still exists
    body,       \* where the started thread is
    count,      \* Latch::count_
    at,         \* where each client is
    woken,      \* the clients in a wait that are not blocked
    callbacks,  \* thread_atexit_manager::callbacks, the ids from the oldest on
    nextId,     \* thread_atexit_manager::next_id
    called,     \* the callbacks that ran, in their order
    cancelled   \* the ids a cancellation has found

threadVars == <<life, handle, body, count, at, woken, callbacks, nextId, called, cancelled>>
objectVars == <<life, handle, body, at, woken>>
exitVars == <<callbacks, nextId, called, cancelled>>

Init ==
    /\ life = "notstarted"
    /\ handle = "none"
    /\ body = "none"
    /\ count = LatchCount
    /\ at = [c \in Clients |-> "idle"]
    /\ woken = {}
    /\ callbacks = <<>>
    /\ nextId = 1
    /\ called = <<>>
    /\ cancelled = {}

\* What the waits of the condition variables wait for.
Started == life \in {"running", "joined"}
Holds(wait) ==
    CASE wait = "started" -> Started
      [] wait = "joined" -> life = "joined"
      [] wait = "latch" -> count = 0

Waits == {"started", "joined", "latch"}
InWait(S) == {c \in Clients : at[c] \in S}

\* notify_all of the thread's condition variable, or of the latch's.
NotifyAll(S) == woken' = woken \cup InWait(S)

Goto(c, l) == at' = [at EXCEPT ![c] = l]

----------------------------------------------------------------------------
(* The calls of clients *)

\* start and start_async: only the first call gets further than its check.
Start(c) ==
    /\ at[c] = "idle" /\ handle # "destroyed"
    /\ life = "notstarted"
    /\ life' = "starting"
    /\ \E l \in {"spawn", "spawn_async"} : Goto(c, l)
    /\ UNCHANGED <<handle, body, count, woken, exitVars>>

Spawn(c) ==
    /\ at[c] \in {"spawn", "spawn_async"}
    /\ handle' = "joinable"
    /\ body' = "begin"
    /\ IF at[c] = "spawn" THEN Goto(c, "started") /\ woken' = woken \cup {c}
       ELSE Goto(c, "idle") /\ UNCHANGED woken
    /\ UNCHANGED <<life, count, exitVars>>

\* join returns at once if the thread has finished its run, else it waits.
Join(c) ==
    /\ at[c] = "idle" /\ handle # "destroyed"
    /\ life \in {"starting", "running"}
    /\ Goto(c, "joined")
    /\ woken' = woken \cup {c}
    /\ UNCHANGED <<life, handle, body, count, exitVars>>

WaitLatch(c) ==
    /\ at[c] = "idle"
    /\ Goto(c, "latch")
    /\ woken' = woken \cup {c}
    /\ UNCHANGED <<life, handle, body, count, exitVars>>

\* A round of a wait: the predicate is looked at with the mutex held, and the
\* client blocks in the same critical section.
Look(c) ==
    /\ c \in woken
    /\ woken' = woken \ {c}
    /\ IF Holds(at[c]) THEN Goto(c, "idle") ELSE UNCHANGED at
    /\ UNCHANGED <<life, handle, body, count, exitVars>>

\* The destructor joins the thread that was spawned.
Destroy(c) ==
    /\ handle # "destroyed"
    /\ at = [d \in Clients |-> "idle"]
    /\ life \in {"notstarted", "joined"}
    /\ Goto(c, "destroy")
    /\ UNCHANGED <<life, handle, body, count, woken, exitVars>>

ThreadJoin(c) ==
    /\ at[c] = "destroy"
    /\ handle = "joinable" => body = "gone"
    /\ handle' = "destroyed"
    /\ Goto(c, "idle")
    /\ UNCHANGED <<life, body, count, woken, exitVars>>

----------------------------------------------------------------------------
(* The started thread *)

BodyBegin ==
    /\ body = "begin"
    /\ body' = "run"
    /\ life' = "running"
    /\ NotifyAll({"started", "joined"})
    /\ UNCHANGED <<handle, count, at, exitVars>>

\* A faulty variant that wakes the waiters before anything is left over only.
CountDownQuietly(n) ==
    /\ body = "run" /\ count > 0
    /\ count' = IF n > count THEN 0 ELSE count - n
    /\ IF count = n THEN NotifyAll({"latch"}) ELSE UNCHANGED woken
    /\ UNCHANGED <<life, handle, body, at, exitVars>>

CountDown(n) ==
    /\ body = "run" /\ count > 0
    /\ count' = IF n > count THEN 0 ELSE count - n
    /\ IF count' = 0 THEN NotifyAll({"latch"}) ELSE UNCHANGED woken
    /\ UNCHANGED <<life, handle, body, at, exitVars>>

\* run returns; the waiters are notified after the mutex is released.
RunEnds ==
    /\ body = "run" /\ count = 0
    /\ body' = "notify"
    /\ life' = "joined"
    /\ UNCHANGED <<handle, count, at, woken, exitVars>>

NotifyJoiners ==
    /\ body = "notify"
    /\ body' = "exit"
    /\ NotifyAll({"started", "joined"})
    /\ UNCHANGED <<life, handle, count, at, exitVars>>

----------------------------------------------------------------------------
(* Callbacks at the end of the thread: in run, and within a callback *)

Register ==
    /\ body \in {"run", "callback"}
    /\ nextId <= MaxIds
    /\ callbacks' = Append(callbacks, nextId)
    /\ nextId' = nextId + 1
    /\ UNCHANGED <<objectVars, count, called, cancelled>>

\* Only a callback that is still to run can be cancelled.
Cancel(id) ==
    /\ body \in {"run", "callback"}
    /\ Contains(callbacks, id)
    /\ callbacks' = Remove(callbacks, id)
    /\ cancelled' = cancelled \cup {id}
    /\ UNCHANGED <<objectVars, count, nextId, called>>

\* The manager's destructor takes the callback off the list before it calls it.
CallLast ==
    /\ body = "exit" /\ callbacks # <<>>
    /\ called' = Append(called, Last(callbacks))
    /\ callbacks' = Front(callbacks)
    /\ body' = "callback"
    /\ UNCHANGED <<life, handle, count, at, woken, nextId, cancelled>>

CallbackReturns ==
    /\ body = "callback"
    /\ body' = "exit"
    /\ UNCHANGED <<life, handle, count, at, woken, exitVars>>

Exit ==
    /\ body = "exit" /\ callbacks = <<>>
    /\ body' = "gone"
    /\ UNCHANGED <<life, handle, count, at, woken, exitVars>>

Next ==
    \/ \E c \in Clients :
          \/ Start(c) \/ Spawn(c) \/ Join(c) \/ WaitLatch(c) \/ Look(c)
          \/ Destroy(c) \/ ThreadJoin(c)
    \/ BodyBegin \/ (\E n \in 1 .. LatchCount : CountDown(n)) \/ RunEnds \/ NotifyJoiners
    \/ Register \/ (\E id \in 1 .. MaxIds : Cancel(id)) \/ CallLast \/ CallbackReturns \/ Exit

Spec == Init /\ [][Next]_threadVars

----------------------------------------------------------------------------
(* Properties *)

\* Nobody sleeps through what he waits for: a client blocked in start, join or wait
\* has a false predicate, or the notification is still to come.  Every callback that
\* was registered is pending, cancelled or has run, once, and callbacks that ran
\* with none registered in between ran from the latest on.  When the object is gone
\* its thread is, with all of its callbacks.
ThreadsExact ==
    /\ \A c \in InWait(Waits) :
          c \in woken \/ ~Holds(at[c]) \/ (body = "notify" /\ at[c] \in {"started", "joined"})
    /\ LET ran == ToSet(called) IN
       /\ IsInjective(called) /\ IsInjective(callbacks)
       /\ 1 .. nextId - 1 = ran \cup cancelled \cup ToSet(callbacks)
       /\ ran \cap cancelled = {} /\ ToSet(callbacks) \cap (ran \cup cancelled) = {}
       /\ body \in {"exit", "callback"} /\ called # <<>> =>
             \A id \in ToSet(callbacks) : id < Last(called) \/ \A d \in ran : d < id
    /\ handle = "destroyed" => body \in {"none", "gone"} /\ callbacks = <<>>
    /\ body # "none" => life # "notstarted"
=============================================================================
