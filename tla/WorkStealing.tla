---------------------------- MODULE WorkStealing ----------------------------
(***************************************************************************)
(* The executor's scheduler (core/executor.h): N workers, each with its    *)
(* own bounded queue, and a few shared buffers for tasks that come from    *)
(* other threads or overflow a full queue.  A worker drains its queue,     *)
(* then steals from random victims, and after enough failed attempts goes  *)
(* through the notifier's two-phase wait, re-checking every queue before   *)
(* it sleeps.  Whoever queues a task notifies afterwards.                  *)
(*                                                                         *)
(* A step is one operation on a queue, one notifier operation or one       *)
(* access to a flag; the queues and the notifier are atomic here (TaskQueue *)
(* and NonblockingNotifierV2 justify that).  What a task does is left open: *)
(* it may schedule tasks, then finishes, possibly continuing with a        *)
(* successor directly (the cache of _invoke).                              *)
(***************************************************************************)
EXTENDS EventCount, Sequences

CONSTANTS
    NumWorkers,     \* _workers.size()
    NumBuckets,     \* _buffers.size()
    Task,           \* the nodes that may ever be scheduled
    NoTask,         \* the null node pointer
    Client,         \* threads outside the pool that submit work
    Capacity,       \* size of a worker's bounded queue
    MaxSteals       \* failed attempts before a worker prepares to wait

ASSUME SchedulerAssumption ==
    /\ NumWorkers \in Nat \ {0}
    /\ NumBuckets \in Nat \ {0}
    /\ Waiters = 0 .. NumWorkers - 1
    /\ NoTask \notin Task
    /\ Capacity \in Nat
    /\ MaxSteals \in Nat

ASSUME TaskAssumption == IsFiniteSet(Task)

\* Victims are numbered as in the code: the workers first, then the buffers.
Workers == 0 .. NumWorkers - 1
Buffers == NumWorkers .. NumWorkers + NumBuckets - 1
Queues  == 0 .. NumWorkers + NumBuckets - 1

VARIABLES
    queue,      \* the tasks in each worker's queue and each buffer, oldest first
    created,    \* tasks handed to the scheduler so far
    finished,   \* tasks whose invocation has ended
    pc,         \* where each worker is in its loop
    task,       \* the task each worker invokes
    vtm,        \* each worker's preferred victim, w._vtm
    steals,     \* failed attempts in the current _explore_task
    chk,        \* next condition to check in _wait_for_task
    done,       \* w._done
    cpc,        \* where each client is
    batch,      \* what a client still has to push
    owed,       \* notifications a client still has to issue
    opc,        \* where the thread that destroys the executor is
    oid         \* how many done flags it has set

workerVars == <<pc, task, vtm, steals, chk>>
clientVars == <<cpc, batch, owed>>
ownerVars  == <<done, opc, oid>>
vars == <<ecVars, queue, created, finished, workerVars, clientVars, ownerVars>>

WorkerPC == {"explore", "prepare", "check", "cancel", "quit", "commit", "sleep",
             "invoke", "notify", "pop", "exited"}

TypeOK ==
    /\ ECTypeOK
    /\ queue \in [Queues -> Seq(Task)]
    /\ created \in SUBSET Task
    /\ finished \in SUBSET Task
    /\ pc \in [Workers -> WorkerPC]
    /\ task \in [Workers -> Task \cup {NoTask}]
    /\ vtm \in [Workers -> Queues]
    /\ steals \in [Workers -> Nat]
    /\ chk \in [Workers -> Nat]
    /\ done \in [Workers -> BOOLEAN]
    /\ cpc \in [Client -> {"idle", "push", "notify", "notifyall"}]
    /\ batch \in [Client -> SUBSET Task]
    /\ owed \in [Client -> Int]
    /\ opc \in {"using", "stopping", "notify", "join", "joined"}
    /\ oid \in Nat

Init ==
    /\ ECInit
    /\ queue = [q \in Queues |-> <<>>]
    /\ created = {} /\ finished = {}
    /\ pc = [w \in Workers |-> "explore"]
    /\ task = [w \in Workers |-> NoTask]
    /\ vtm = [w \in Workers |-> w]
    /\ steals = [w \in Workers |-> 0]
    /\ chk = [w \in Workers |-> 0]
    /\ done = [w \in Workers |-> FALSE]
    /\ cpc = [c \in Client |-> "idle"]
    /\ batch = [c \in Client |-> {}]
    /\ owed = [c \in Client |-> 0]
    /\ opc = "using" /\ oid = 0

----------------------------------------------------------------------------
(* Helpers *)

\* The order in which _wait_for_task checks the queues: the buffers, then the
\* workers by id.
QueueAt(k) == IF k < NumBuckets THEN NumWorkers + k ELSE k - NumBuckets
PositionOf(q) == IF q < NumWorkers THEN NumBuckets + q ELSE q - NumWorkers

Goto(w, l) == pc' = [pc EXCEPT ![w] = l]

\* Enter _explore_task: a fresh count of failed attempts.
GotoExplore(w) ==
    /\ Goto(w, "explore")
    /\ steals' = [steals EXCEPT ![w] = 0]

Push(q, t) == queue' = [queue EXCEPT ![q] = Append(@, t)]

----------------------------------------------------------------------------
(* _explore_task: steal, at first from the preferred victim, then from any. *)

\* A faulty variant that leaves the stolen task in the queue.
StealForgetsTop(w, q) ==
    /\ queue[q] # <<>>
    /\ task' = [task EXCEPT ![w] = Head(queue[q])]
    /\ vtm' = [vtm EXCEPT ![w] = q]
    /\ Goto(w, "invoke")
    /\ UNCHANGED <<queue, steals>>

StealFrom(w, q) ==
    /\ queue[q] # <<>>
    /\ task' = [task EXCEPT ![w] = Head(queue[q])]
    /\ queue' = [queue EXCEPT ![q] = Tail(@)]
    /\ vtm' = [vtm EXCEPT ![w] = q]
    /\ Goto(w, "invoke")
    /\ UNCHANGED steals

\* Out of attempts, the worker prepares to wait without looking at its done
\* flag; before that, a raised flag makes it leave the loop.
FailToSteal(w, q) ==
    /\ queue[q] = <<>>
    /\ steals' = [steals EXCEPT ![w] = @ + 1]
    /\ Goto(w, IF steals[w] >= MaxSteals THEN "prepare"
               ELSE IF done[w] THEN "exited" ELSE "explore")
    /\ UNCHANGED <<queue, task, vtm>>

Explore(w) ==
    /\ pc[w] = "explore"
    /\ \E q \in IF steals[w] = 0 THEN {vtm[w]} ELSE Queues :
           StealFrom(w, q) \/ FailToSteal(w, q)
    /\ UNCHANGED <<ecVars, created, finished, chk, clientVars, ownerVars>>

----------------------------------------------------------------------------
(* _wait_for_task *)

Prepare(w) ==
    /\ pc[w] = "prepare"
    /\ PrepareWait(w)
    /\ chk' = [chk EXCEPT ![w] = 0]
    /\ Goto(w, "check")
    /\ UNCHANGED <<queue, created, finished, task, vtm, steals, clientVars, ownerVars>>

\* A faulty variant that leaves the last buffer out of the re-check.
CheckMissesBuffer(w) ==
    /\ pc[w] = "check"
    /\ chk[w] \in Queues
    /\ LET q == QueueAt(chk[w]) IN
       \/ /\ q = w \/ queue[q] = <<>> \/ q = NumWorkers + NumBuckets - 1
          /\ chk' = [chk EXCEPT ![w] = @ + 1]
          /\ UNCHANGED <<pc, vtm>>
       \/ /\ q # w /\ queue[q] # <<>> /\ q # NumWorkers + NumBuckets - 1
          /\ vtm' = [vtm EXCEPT ![w] = q]
          /\ Goto(w, "cancel")
          /\ UNCHANGED chk
    /\ UNCHANGED <<ecVars, queue, created, finished, task, steals, clientVars, ownerVars>>

\* Conditions 1 and 2: all queues but the worker's own are empty.  A queue that
\* is not becomes the preferred victim.
Check(w) ==
    /\ pc[w] = "check"
    /\ chk[w] \in Queues
    /\ LET q == QueueAt(chk[w]) IN
       \/ /\ q = w \/ queue[q] = <<>>
          /\ chk' = [chk EXCEPT ![w] = @ + 1]
          /\ UNCHANGED <<pc, vtm>>
       \/ /\ q # w /\ queue[q] # <<>>
          /\ vtm' = [vtm EXCEPT ![w] = q]
          /\ Goto(w, "cancel")
          /\ UNCHANGED chk
    /\ UNCHANGED <<ecVars, queue, created, finished, task, steals, clientVars, ownerVars>>

\* A faulty variant that goes to sleep without looking at the done flag.
CheckForgetsDone(w) ==
    /\ pc[w] = "check"
    /\ chk[w] = NumWorkers + NumBuckets
    /\ Goto(w, "commit")
    /\ UNCHANGED <<ecVars, queue, created, finished, task, vtm, steals, chk,
                   clientVars, ownerVars>>

\* Condition 3: the worker is still alive.
CheckDone(w) ==
    /\ pc[w] = "check"
    /\ chk[w] = NumWorkers + NumBuckets
    /\ Goto(w, IF done[w] THEN "quit" ELSE "commit")
    /\ UNCHANGED <<ecVars, queue, created, finished, task, vtm, steals, chk,
                   clientVars, ownerVars>>

Cancel(w) ==
    /\ pc[w] \in {"cancel", "quit"}
    /\ CancelWait(w)
    /\ \/ /\ pc[w] = "cancel"
          /\ GotoExplore(w)
       \/ /\ pc[w] = "quit"
          /\ Goto(w, "exited")
          /\ UNCHANGED steals
    /\ UNCHANGED <<queue, created, finished, task, vtm, chk, clientVars, ownerVars>>

Commit(w) ==
    /\ pc[w] = "commit"
    /\ CommitWait(w)
    /\ \/ /\ signals > 0
          /\ GotoExplore(w)
       \/ /\ signals = 0
          /\ Goto(w, "sleep")
          /\ UNCHANGED steals
    /\ UNCHANGED <<queue, created, finished, task, vtm, chk, clientVars, ownerVars>>

Wake(w) ==
    /\ pc[w] = "sleep"
    /\ Resume(w)
    /\ GotoExplore(w)
    /\ UNCHANGED <<queue, created, finished, task, vtm, chk, clientVars, ownerVars>>

----------------------------------------------------------------------------
(* _exploit_task, with the part of _invoke that concerns the scheduler *)

\* The running task schedules another: into the worker's own queue, or into a
\* buffer when that queue is full.
Schedule(w) ==
    /\ pc[w] = "invoke"
    /\ \E t \in Task \ created :
          /\ created' = created \cup {t}
          /\ \/ Len(queue[w]) < Capacity /\ Push(w, t)
             \/ Len(queue[w]) >= Capacity /\ \E q \in Buffers : Push(q, t)
    /\ Goto(w, "notify")
    /\ UNCHANGED <<ecVars, finished, task, vtm, steals, chk, clientVars, ownerVars>>

Notify(w) ==
    /\ pc[w] = "notify"
    /\ NotifyOne
    /\ Goto(w, "invoke")
    /\ UNCHANGED <<queue, created, finished, task, vtm, steals, chk, clientVars, ownerVars>>

\* The task ends, and the worker goes back to its queue or continues with a
\* successor that just became ready.
Finish(w) ==
    /\ pc[w] = "invoke"
    /\ finished' = finished \cup {task[w]}
    /\ \/ /\ task' = [task EXCEPT ![w] = NoTask]
          /\ Goto(w, "pop")
          /\ UNCHANGED created
       \/ \E t \in Task \ created :
          /\ task' = [task EXCEPT ![w] = t]
          /\ created' = created \cup {t}
          /\ UNCHANGED pc
    /\ UNCHANGED <<ecVars, queue, vtm, steals, chk, clientVars, ownerVars>>

\* The owner takes the newest task of its queue, or goes to steal.
Pop(w) ==
    /\ pc[w] = "pop"
    /\ \/ /\ queue[w] # <<>>
          /\ task' = [task EXCEPT ![w] = queue[w][Len(queue[w])]]
          /\ queue' = [queue EXCEPT ![w] = SubSeq(@, 1, Len(@) - 1)]
          /\ Goto(w, "invoke")
          /\ UNCHANGED steals
       \/ /\ queue[w] = <<>>
          /\ GotoExplore(w)
          /\ UNCHANGED <<queue, task>>
    /\ UNCHANGED <<ecVars, created, finished, vtm, chk, clientVars, ownerVars>>

WorkerStep(w) ==
    \/ Explore(w) \/ Prepare(w) \/ Check(w) \/ CheckDone(w)
    \/ Cancel(w) \/ Commit(w) \/ Wake(w)
    \/ Schedule(w) \/ Notify(w) \/ Finish(w) \/ Pop(w)

----------------------------------------------------------------------------
(* Clients: push a batch of source tasks into the buffers, then notify_n. *)

Submit(c) ==
    /\ cpc[c] = "idle"
    /\ opc = "using"
    /\ \E b \in SUBSET (Task \ created) \ {{}} :
          /\ created' = created \cup b
          /\ batch' = [batch EXCEPT ![c] = b]
          /\ owed' = [owed EXCEPT ![c] = Cardinality(b)]
    /\ cpc' = [cpc EXCEPT ![c] = "push"]
    /\ UNCHANGED <<ecVars, queue, finished, workerVars, ownerVars>>

ClientPush(c) ==
    /\ cpc[c] = "push"
    /\ \E t \in batch[c], q \in Buffers :
          /\ Push(q, t)
          /\ batch' = [batch EXCEPT ![c] = @ \ {t}]
          /\ cpc' = [cpc EXCEPT ![c] = IF batch[c] # {t} THEN "push"
                                     ELSE IF owed[c] >= NumWorkers THEN "notifyall"
                                     ELSE "notify"]
    /\ UNCHANGED <<ecVars, created, finished, workerVars, owed, ownerVars>>

\* notify_n: as many single notifications as tasks were pushed ...
ClientNotify(c) ==
    /\ cpc[c] = "notify"
    /\ NotifyOne
    /\ owed' = [owed EXCEPT ![c] = @ - 1]
    /\ cpc' = [cpc EXCEPT ![c] = IF owed[c] = 1 THEN "idle" ELSE "notify"]
    /\ UNCHANGED <<queue, created, finished, workerVars, batch, ownerVars>>

\* ... or one notify_all when that is at least the number of workers.
ClientNotifyAll(c) ==
    /\ cpc[c] = "notifyall"
    /\ NotifyAll
    /\ owed' = [owed EXCEPT ![c] = 0]
    /\ cpc' = [cpc EXCEPT ![c] = "idle"]
    /\ UNCHANGED <<queue, created, finished, workerVars, batch, ownerVars>>

ClientStep(c) == ClientPush(c) \/ ClientNotify(c) \/ ClientNotifyAll(c)

----------------------------------------------------------------------------
(* _shutdown: wait for all topologies, raise every done flag, notify_all, *)
(* join.  No client submits work once the destructor runs.                *)

\* A faulty variant that waits for the clients' calls but not for their tasks.
WaitForCalls ==
    /\ opc = "using"
    /\ \A c \in Client : cpc[c] = "idle"
    /\ opc' = "stopping"
    /\ UNCHANGED <<ecVars, queue, created, finished, workerVars, clientVars, done, oid>>

WaitForAll ==
    /\ opc = "using"
    /\ \A c \in Client : cpc[c] = "idle"
    /\ created = finished
    /\ opc' = "stopping"
    /\ UNCHANGED <<ecVars, queue, created, finished, workerVars, clientVars, done, oid>>

SetDone ==
    /\ opc = "stopping"
    /\ done' = [done EXCEPT ![oid] = TRUE]
    /\ oid' = oid + 1
    /\ opc' = IF oid + 1 = NumWorkers THEN "notify" ELSE "stopping"
    /\ UNCHANGED <<ecVars, queue, created, finished, workerVars, clientVars>>

ShutdownNotify ==
    /\ opc = "notify"
    /\ NotifyAll
    /\ opc' = "join"
    /\ UNCHANGED <<queue, created, finished, workerVars, clientVars, done, oid>>

Join ==
    /\ opc = "join"
    /\ \A w \in Workers : pc[w] = "exited"
    /\ opc' = "joined"
    /\ UNCHANGED <<ecVars, queue, created, finished, workerVars, clientVars, done, oid>>

Shutdown == SetDone \/ ShutdownNotify \/ Join

\* The executor is gone; nothing else is a legitimate end of the system.
Terminated ==
    /\ opc = "joined"
    /\ UNCHANGED vars

Next ==
    \/ \E w \in Workers : WorkerStep(w)
    \/ \E c \in Client : Submit(c) \/ ClientStep(c)
    \/ WaitForAll
    \/ Shutdown
    \/ Terminated

\* The operating system runs every thread that can run.  Whether a client ever
\* submits work, and whether the executor is ever destroyed, is up to the user.
Fairness ==
    /\ \A w \in Workers : WF_vars(WorkerStep(w))
    /\ \A c \in Client : WF_vars(ClientStep(c))
    /\ WF_vars(Shutdown)

Spec == Init /\ [][Next]_vars
FairSpec == Spec /\ Fairness

----------------------------------------------------------------------------
(* Properties *)

\* A worker's place in its loop and its place in the two-phase wait agree, and it
\* holds a task exactly while it invokes one.
WaitProtocol ==
    \A w \in Workers :
        /\ phase[w] = "prewait" <=> pc[w] \in {"check", "cancel", "quit", "commit"}
        /\ phase[w] \in {"parked", "woken"} <=> pc[w] = "sleep"
        /\ task[w] # NoTask <=> pc[w] \in {"invoke", "notify"}

\* The done flags rise only once all submitted work is finished, and only they
\* let a worker leave.
ClosedWhenStopping ==
    /\ opc # "using" => created = finished /\ \A c \in Client : cpc[c] = "idle"
    /\ opc = "using" => oid = 0
    /\ opc = "stopping" => oid < NumWorkers
    /\ \A w \in Workers : done[w] => opc # "using"
    /\ \A w \in Workers : pc[w] \in {"quit", "exited"} => done[w]

\* Someone has queued a task and has not yet issued the notification for it.
NotificationPending ==
    \/ \E w \in Workers : pc[w] = "notify"
    \/ \E c \in Client : cpc[c] # "idle"

Executing(w) == pc[w] \in {"invoke", "notify", "pop"}

\* The worker is on its way to look at queue q again.
WillLook(w, q) ==
    \/ pc[w] \in {"explore", "prepare", "cancel"}
    \/ pc[w] = "sleep" /\ phase[w] = "woken"
    \/ pc[w] = "check" /\ q # w /\ PositionOf(q) >= chk[w]

\* No lost wake-up: once a queue holds a task and its notification has been
\* issued, some worker is on its way to that queue, is still executing (and will
\* search afterwards), or a signal keeps an announced worker from sleeping.
NoLostWakeup ==
    \A q \in Queues : queue[q] # <<>> /\ ~NotificationPending =>
        \/ \E w \in Workers : Executing(w) \/ WillLook(w, q)
        \/ signals > 0

\* "Due to the property of the work-stealing queue, we don't need to check the
\* queue of this worker" (_wait_for_task): outside of the exploit phase a
\* worker's own queue is empty.
OwnQueueEmptyWhileWaiting ==
    \A w \in Workers : ~Executing(w) => queue[w] = <<>>

\* A task that is queued, waits in a batch or is being invoked is unfinished, and
\* it is in one of these places only: no steal races with a pop or another steal
\* for the same task, and an overflowing task does not end up in two queues.
QueuedOnce ==
    \A q \in Queues : \A i \in 1 .. Len(queue[q]) :
        /\ queue[q][i] \in created \ finished
        /\ \A p \in Queues : \A j \in 1 .. Len(queue[p]) :
              queue[q][i] = queue[p][j] => q = p /\ i = j
        /\ \A w \in Workers : queue[q][i] # task[w]
        /\ \A c \in Client : queue[q][i] \notin batch[c]

HeldOnce ==
    \A w \in Workers : task[w] # NoTask =>
        /\ task[w] \in created \ finished
        /\ \A v \in Workers : task[w] = task[v] => w = v
        /\ \A c \in Client : task[w] \notin batch[c]

BatchedOnce ==
    \A c \in Client : \A t \in batch[c] :
        /\ t \in created \ finished
        /\ \A d \in Client : t \in batch[d] => c = d

InOnePlace == QueuedOnce /\ HeldOnce /\ BatchedOnce

\* Nobody is left behind by a shutdown: a worker leaves the loop only after all
\* tasks are finished and with no queue holding one.
CleanExit ==
    \A w \in Workers : pc[w] = "exited" =>
        created = finished /\ \A q \in Queues : queue[q] = <<>>

\* Every task handed to the scheduler is eventually executed.
EveryTaskFinishes == \A t \in Task : t \in created ~> t \in finished

\* The destructor returns once it has started to stop the workers.
ShutdownTerminates == opc = "stopping" ~> opc = "joined"
=============================================================================
