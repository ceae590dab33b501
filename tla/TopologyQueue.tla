---------------------------- MODULE TopologyQueue ----------------------------
(***************************************************************************)
(* The runs of a taskflow (core/executor.h run_until to                    *)
(* _tear_down_topology, core/topology.h, core/taskflow.h Future).  Each    *)
(* run of a taskflow is a Topology in the taskflow's queue, and only the   *)
(* front of the queue executes: a round of its tasks, again until its      *)
(* predicate says stop, an exception was thrown or the run was cancelled.  *)
(* The worker that retires the last task of a round either starts the next *)
(* round, hands the taskflow over to the next run, or, when the queue      *)
(* drains, leaves it to whoever submits next.                              *)
(*                                                                         *)
(* A round is FlowSize[f] independent tasks here; how a graph of tasks is  *)
(* scheduled is the subject of TaskGraph.                                  *)
(***************************************************************************)
EXTENDS Integers, Sequences, FiniteSets

CONSTANTS
    Client,     \* threads that submit runs
    Worker,     \* the executor's threads
    Flow,       \* taskflows
    Moved,      \* those among them that are submitted by run(Taskflow&&)
    FlowSize,   \* how many tasks each of them has
    Run,        \* topologies, numbered in the order of the calls
    Repeats,    \* the arguments of run_n
    Nobody      \* the owner of a free lock, the run of an idle thread and the
                \* taskflow of a run that was not submitted yet

Actor == Client \cup Worker

ASSUME TopologyAssumption ==
    /\ Moved \subseteq Flow
    /\ FlowSize \in [Flow -> Nat]
    /\ Run \subseteq Nat
    /\ Repeats \subseteq Nat
    /\ Client \cap Worker = {}
    /\ Nobody \notin Actor \cup Run \cup Flow

VARIABLES
    queue,      \* Taskflow::_topologies
    mutex,      \* Taskflow::_mutex
    owned,      \* Executor::_taskflows, the taskflows moved into the executor
    destroyed,  \* taskflows whose lifetime has ended
    topologies, \* _num_topologies
    sleeping,   \* the clients in _topology_cv
    tpg,        \* the state of each Topology
    flowOf,     \* Topology::_taskflow
    repeat,     \* the argument of run_n
    submitted,  \* per taskflow, the runs that entered its queue, in order
    pc, cur     \* where each thread is, and the run it works for

graphVars == <<flowOf, repeat, submitted>>
vars == <<queue, mutex, owned, destroyed, topologies, sleeping, tpg, graphVars, pc, cur>>

ClientPC == {"idle", "count", "check", "dummyCall", "dummyDecrement", "enqueue",
             "setUp", "unlock", "waitForAll"}
WorkerPC == {"idle", "invoke", "store", "retire", "decide", "again", "setUp", "unlock",
             "call", "lock", "promiseNext", "popNext", "decrementNext",
             "unlockLast", "promiseLast", "decrementLast", "erase"}

TypeOK ==
    /\ queue \in [Flow -> Seq(Run)]
    /\ mutex \in [Flow -> Actor \cup {Nobody}]
    /\ owned \in SUBSET Moved /\ destroyed \in SUBSET Flow
    /\ topologies \in Nat /\ sleeping \in SUBSET Client
    /\ tpg \in [Run -> [ready: Nat, joinCounter: Nat, cancelled: BOOLEAN,
                        raised: BOOLEAN, exception: BOOLEAN,
                        pred: Int, calls: Nat, ran: Nat, alive: BOOLEAN,
                        promise: {"pending", "value", "exception"}]]
    /\ flowOf \in [Run -> Flow \cup {Nobody}]
    /\ repeat \in [Run -> Nat]
    /\ submitted \in [Flow -> Seq(Run)]
    /\ pc \in [Actor -> ClientPC \cup WorkerPC]
    /\ cur \in [Actor -> Run \cup {Nobody}]

Init ==
    /\ queue = [f \in Flow |-> <<>>] /\ mutex = [f \in Flow |-> Nobody]
    /\ owned = {} /\ destroyed = {} /\ topologies = 0 /\ sleeping = {}
    /\ tpg = [r \in Run |-> [ready |-> 0, joinCounter |-> 0, cancelled |-> FALSE,
                             raised |-> FALSE, exception |-> FALSE, pred |-> 0,
                             calls |-> 0, ran |-> 0, alive |-> FALSE,
                             promise |-> "pending"]]
    /\ flowOf = [r \in Run |-> Nobody] /\ repeat = [r \in Run |-> 0]
    /\ submitted = [f \in Flow |-> <<>>]
    /\ pc = [a \in Actor |-> "idle"] /\ cur = [a \in Actor |-> Nobody]

----------------------------------------------------------------------------
(* Shared steps.  They constrain the variables they name and no other. *)

Goto(a, l) == pc' = [pc EXCEPT ![a] = l]

Retired(a) == /\ Goto(a, "idle")
              /\ cur' = [cur EXCEPT ![a] = Nobody]

Lock(a, f) == /\ mutex[f] = Nobody
              /\ mutex' = [mutex EXCEPT ![f] = a]

Unlock(f) == mutex' = [mutex EXCEPT ![f] = Nobody]

IncrementTopology == topologies' = topologies + 1 /\ UNCHANGED sleeping

\* The last one wakes the threads in wait_for_all.
DecrementTopology ==
    /\ topologies' = topologies - 1
    /\ sleeping' = IF topologies' = 0 THEN {} ELSE sleeping

\* The predicate of run_n: repeat-- == 0.
PredSays(r, stop) ==
    /\ stop <=> tpg[r].pred = 0
    /\ tpg' = [tpg EXCEPT ![r].pred = @ - 1]

SetUp(r) ==
    tpg' = [tpg EXCEPT ![r].ready = FlowSize[flowOf[r]],
                       ![r].joinCounter = FlowSize[flowOf[r]]]

\* A faulty Fulfilled: the exception is lost.
FulfilledWithValue(t) == [t EXCEPT !.promise = "value"]

Fulfilled(t) ==
    IF t.exception THEN [t EXCEPT !.exception = FALSE, !.promise = "exception"]
                   ELSE [t EXCEPT !.promise = "value"]

CarryOutPromise(r) == tpg' = [tpg EXCEPT ![r] = Fulfilled(@)]

InUse(f) == \E a \in Actor : cur[a] # Nobody /\ flowOf[cur[a]] = f

----------------------------------------------------------------------------
(* A client in run_until *)

\* The variants for std::move(f) first put the taskflow on the executor's list.
Own(f) == owned' = owned \cup ({f} \cap Moved)

\* run(f), run_n(f, n) and run_until with a predicate like theirs.  Only an idle client calls it, with a
\* taskflow that still exists.
Submit(c) ==
    \E r \in Run, f \in Flow \ destroyed, n \in Repeats :
        /\ pc[c] = "idle" /\ flowOf[r] = Nobody
        /\ \A q \in Run : flowOf[q] = Nobody => r <= q
        /\ f \notin owned
        /\ flowOf' = [flowOf EXCEPT ![r] = f]
        /\ repeat' = [repeat EXCEPT ![r] = n]
        /\ tpg' = [tpg EXCEPT ![r].pred = n]
        /\ Own(f)
        /\ cur' = [cur EXCEPT ![c] = r]
        /\ Goto(c, "count")
        /\ UNCHANGED <<queue, mutex, destroyed, topologies, sleeping, submitted>>

Count(c) ==
    /\ pc[c] = "count"
    /\ IncrementTopology
    /\ Goto(c, "check")
    /\ UNCHANGED <<queue, mutex, owned, destroyed, tpg, graphVars, cur>>

\* An empty taskflow, or a predicate that says stop at once, runs nothing.
Check(c) ==
    LET r == cur[c] IN
    /\ pc[c] = "check"
    /\ \/ /\ FlowSize[flowOf[r]] = 0
          /\ Goto(c, "dummyCall") /\ UNCHANGED tpg
       \/ /\ FlowSize[flowOf[r]] > 0
          /\ PredSays(r, TRUE) /\ Goto(c, "dummyCall")
       \/ /\ FlowSize[flowOf[r]] > 0
          /\ PredSays(r, FALSE) /\ Goto(c, "enqueue")
    /\ UNCHANGED <<queue, mutex, owned, destroyed, topologies, sleeping, graphVars, cur>>

\* The callback of a dummy run, and its promise.
DummyCall(c) ==
    /\ pc[c] = "dummyCall"
    /\ tpg' = [tpg EXCEPT ![cur[c]].calls = @ + 1, ![cur[c]].promise = "value"]
    /\ Goto(c, "dummyDecrement")
    /\ UNCHANGED <<queue, mutex, owned, destroyed, topologies, sleeping, graphVars, cur>>

DummyDecrement(c) ==
    /\ pc[c] = "dummyDecrement"
    /\ DecrementTopology
    /\ Retired(c)
    /\ UNCHANGED <<queue, mutex, owned, destroyed, tpg, graphVars>>

\* A faulty Enqueue: every run is set up at once.
EnqueueAndSetUp(c) ==
    LET r == cur[c]
        f == flowOf[r]
    IN
    /\ pc[c] = "enqueue"
    /\ Lock(c, f)
    /\ queue' = [queue EXCEPT ![f] = Append(@, r)]
    /\ submitted' = [submitted EXCEPT ![f] = Append(@, r)]
    /\ tpg' = [tpg EXCEPT ![r].alive = TRUE]
    /\ Goto(c, "setUp")
    /\ UNCHANGED <<owned, destroyed, topologies, sleeping, flowOf, repeat, cur>>

\* Create the topology and, under the taskflow's lock, queue it.
Enqueue(c) ==
    LET r == cur[c]
        f == flowOf[r]
    IN
    /\ pc[c] = "enqueue"
    /\ Lock(c, f)
    /\ queue' = [queue EXCEPT ![f] = Append(@, r)]
    /\ submitted' = [submitted EXCEPT ![f] = Append(@, r)]
    /\ tpg' = [tpg EXCEPT ![r].alive = TRUE]
    /\ Goto(c, IF Len(queue'[f]) = 1 THEN "setUp" ELSE "unlock")
    /\ UNCHANGED <<owned, destroyed, topologies, sleeping, flowOf, repeat, cur>>

\* _set_up_topology, by a client or by a worker: under the lock.
SetUpTopology(a) ==
    /\ pc[a] = "setUp"
    /\ SetUp(cur[a])
    /\ Goto(a, "unlock")
    /\ UNCHANGED <<queue, mutex, owned, destroyed, topologies, sleeping, graphVars, cur>>

\* The lock is released where its guard's scope ends, and with it the call.
Leave(a) ==
    /\ pc[a] = "unlock"
    /\ Unlock(flowOf[cur[a]])
    /\ Retired(a)
    /\ UNCHANGED <<queue, owned, destroyed, topologies, sleeping, tpg, graphVars>>

----------------------------------------------------------------------------
(* A client elsewhere *)

\* Future::cancel, by whoever holds the future that run_until returned: a weak
\* pointer to the topology is locked if it still exists.
CancelRun(r) ==
    /\ tpg[r].alive /\ ~tpg[r].cancelled
    /\ \A c \in Client : cur[c] # r
    /\ tpg' = [tpg EXCEPT ![r].cancelled = TRUE]
    /\ UNCHANGED <<queue, mutex, owned, destroyed, topologies, sleeping, graphVars, pc, cur>>

\* wait_for_all: test under _topology_mutex, sleep until woken, test again.
WaitForAll(c) ==
    /\ pc[c] = "idle"
    /\ topologies > 0
    /\ Goto(c, "waitForAll")
    /\ sleeping' = sleeping \cup {c}
    /\ UNCHANGED <<queue, mutex, owned, destroyed, topologies, tpg, graphVars, cur>>

WakeFromWait(c) ==
    /\ pc[c] = "waitForAll" /\ c \notin sleeping
    /\ IF topologies = 0
         THEN Goto(c, "idle") /\ UNCHANGED sleeping
         ELSE sleeping' = sleeping \cup {c} /\ UNCHANGED pc
    /\ UNCHANGED <<queue, mutex, owned, destroyed, topologies, tpg, graphVars, cur>>

\* The owner of a taskflow may end its lifetime once it has seen the promises of
\* all of its runs and no thread is submitting it.
Destroy(f) ==
    /\ f \notin Moved \cup destroyed
    /\ \A r \in Run : flowOf[r] = f => tpg[r].promise # "pending"
    /\ \A c \in Client : cur[c] # Nobody => flowOf[cur[c]] # f
    /\ destroyed' = destroyed \cup {f}
    /\ UNCHANGED <<queue, mutex, owned, topologies, sleeping, tpg, graphVars, pc, cur>>

----------------------------------------------------------------------------
(* A worker *)

\* A worker is given a task of run r; a task of a cancelled run is not executed.
Invoke(w, r) ==
    /\ pc[w] = "idle" /\ tpg[r].ready > 0
    /\ tpg' = [tpg EXCEPT ![r].ready = @ - 1]
    /\ cur' = [cur EXCEPT ![w] = r]
    /\ Goto(w, IF tpg[r].cancelled THEN "retire" ELSE "invoke")
    /\ UNCHANGED <<queue, mutex, owned, destroyed, topologies, sleeping, graphVars>>

\* The task returns, or throws: _process_exception marks and cancels the run, and
\* the first to mark it stores its exception.
Execute(w) ==
    LET r == cur[w] IN
    /\ pc[w] = "invoke"
    /\ \/ /\ tpg' = [tpg EXCEPT ![r].ran = @ + 1]
          /\ Goto(w, "retire")
       \/ /\ tpg' = [tpg EXCEPT ![r].ran = @ + 1, ![r].raised = TRUE, ![r].cancelled = TRUE]
          /\ Goto(w, IF tpg[r].raised THEN "retire" ELSE "store")
    /\ UNCHANGED <<queue, mutex, owned, destroyed, topologies, sleeping, graphVars, cur>>

StoreException(w) ==
    /\ pc[w] = "store"
    /\ tpg' = [tpg EXCEPT ![cur[w]].exception = TRUE]
    /\ Goto(w, "retire")
    /\ UNCHANGED <<queue, mutex, owned, destroyed, topologies, sleeping, graphVars, cur>>

\* The worker that retires the last task tears the topology down.
Retire(w) ==
    LET r == cur[w] IN
    /\ pc[w] = "retire"
    /\ tpg' = [tpg EXCEPT ![r].joinCounter = @ - 1]
    /\ IF tpg[r].joinCounter = 1 THEN Goto(w, "decide") /\ UNCHANGED cur
                                 ELSE Retired(w)
    /\ UNCHANGED <<queue, mutex, owned, destroyed, topologies, sleeping, graphVars>>

\* Case 1 of _tear_down_topology is one more round, case 2 the end of the run.
Decide(w) ==
    LET r == cur[w] IN
    /\ pc[w] = "decide"
    /\ IF tpg[r].exception \/ tpg[r].cancelled
         THEN Goto(w, "call") /\ UNCHANGED tpg
         ELSE \E stop \in BOOLEAN :
                /\ PredSays(r, stop)
                /\ Goto(w, IF stop THEN "call" ELSE "again")
    /\ UNCHANGED <<queue, mutex, owned, destroyed, topologies, sleeping, graphVars, cur>>

RunAgain(w) ==
    /\ pc[w] = "again"
    /\ Lock(w, flowOf[cur[w]])
    /\ Goto(w, "setUp")
    /\ UNCHANGED <<queue, owned, destroyed, topologies, sleeping, tpg, graphVars, cur>>

Callback(w) ==
    /\ pc[w] = "call"
    /\ tpg' = [tpg EXCEPT ![cur[w]].calls = @ + 1]
    /\ Goto(w, "lock")
    /\ UNCHANGED <<queue, mutex, owned, destroyed, topologies, sleeping, graphVars, cur>>

\* A faulty TearDown: a run that is queued behind this one is overlooked.
TearDownOverlooksNext(w) ==
    LET f == flowOf[cur[w]] IN
    /\ pc[w] = "lock"
    /\ Lock(w, f)
    /\ Goto(w, "unlockLast")
    /\ queue' = [queue EXCEPT ![f] = Tail(@)]
    /\ UNCHANGED <<owned, destroyed, topologies, sleeping, tpg, graphVars, cur>>

\* Under the lock: is another run queued?  If not, this one leaves the queue and
\* the worker keeps the topology to itself.
TearDown(w) ==
    LET f == flowOf[cur[w]] IN
    /\ pc[w] = "lock"
    /\ Lock(w, f)
    /\ IF Len(queue[f]) > 1
         THEN Goto(w, "promiseNext") /\ UNCHANGED queue
         ELSE Goto(w, "unlockLast") /\ queue' = [queue EXCEPT ![f] = Tail(@)]
    /\ UNCHANGED <<owned, destroyed, topologies, sleeping, tpg, graphVars, cur>>

\* Another run follows.  Popping the queue destroys this topology.
PromiseNext(w) ==
    /\ pc[w] = "promiseNext"
    /\ CarryOutPromise(cur[w])
    /\ Goto(w, "popNext")
    /\ UNCHANGED <<queue, mutex, owned, destroyed, topologies, sleeping, graphVars, cur>>

PopNext(w) ==
    LET f == flowOf[cur[w]] IN
    /\ pc[w] = "popNext"
    /\ tpg' = [tpg EXCEPT ![Head(queue[f])].alive = FALSE]
    /\ queue' = [queue EXCEPT ![f] = Tail(@)]
    /\ cur' = [cur EXCEPT ![w] = Head(queue'[f])]
    /\ Goto(w, "decrementNext")
    /\ UNCHANGED <<mutex, owned, destroyed, topologies, sleeping, graphVars>>

DecrementNext(w) ==
    /\ pc[w] = "decrementNext"
    /\ DecrementTopology
    /\ Goto(w, "setUp")
    /\ UNCHANGED <<queue, mutex, owned, destroyed, tpg, graphVars, cur>>

\* A faulty UnlockLast: the promise is set while the lock is still held.
PromiseBeforeUnlock(w) ==
    /\ pc[w] = "unlockLast"
    /\ IF tpg[cur[w]].promise = "pending"
         THEN CarryOutPromise(cur[w]) /\ UNCHANGED <<mutex, pc>>
         ELSE Unlock(flowOf[cur[w]]) /\ Goto(w, "decrementLast") /\ UNCHANGED tpg
    /\ UNCHANGED <<queue, owned, destroyed, topologies, sleeping, graphVars, cur>>

\* No other run is queued.  The lock is given up before the promise is set: from
\* then on the taskflow may be gone.
UnlockLast(w) ==
    /\ pc[w] = "unlockLast"
    /\ Unlock(flowOf[cur[w]])
    /\ Goto(w, "promiseLast")
    /\ UNCHANGED <<queue, owned, destroyed, topologies, sleeping, tpg, graphVars, cur>>

PromiseLast(w) ==
    /\ pc[w] = "promiseLast"
    /\ CarryOutPromise(cur[w])
    /\ Goto(w, "decrementLast")
    /\ UNCHANGED <<queue, mutex, owned, destroyed, topologies, sleeping, graphVars, cur>>

DecrementLast(w) ==
    /\ pc[w] = "decrementLast"
    /\ DecrementTopology
    /\ Goto(w, "erase")
    /\ UNCHANGED <<queue, mutex, owned, destroyed, tpg, graphVars, cur>>

\* A taskflow the executor owns is destroyed, and so is the topology.
Erase(w) ==
    LET f == flowOf[cur[w]] IN
    /\ pc[w] = "erase"
    /\ owned' = owned \ {f}
    /\ destroyed' = destroyed \cup ({f} \cap Moved)
    /\ tpg' = [tpg EXCEPT ![cur[w]].alive = FALSE]
    /\ Retired(w)
    /\ UNCHANGED <<queue, mutex, topologies, sleeping, graphVars>>

ClientStep(c) ==
    \/ Count(c) \/ Check(c) \/ DummyCall(c) \/ DummyDecrement(c)
    \/ Enqueue(c) \/ WakeFromWait(c)

WorkerStep(w) ==
    \/ \E r \in Run : Invoke(w, r)
    \/ Execute(w) \/ StoreException(w) \/ Retire(w) \/ Decide(w) \/ RunAgain(w)
    \/ Callback(w) \/ TearDown(w) \/ PromiseNext(w) \/ PopNext(w)
    \/ DecrementNext(w) \/ UnlockLast(w) \/ PromiseLast(w) \/ DecrementLast(w)
    \/ Erase(w)

LockedStep(a) == SetUpTopology(a) \/ Leave(a)

Next ==
    \/ \E c \in Client : Submit(c) \/ WaitForAll(c) \/ ClientStep(c)
    \/ \E w \in Worker : WorkerStep(w)
    \/ \E a \in Actor : LockedStep(a)
    \/ \E r \in Run : CancelRun(r)
    \/ \E f \in Flow : Destroy(f)

Spec == Init /\ [][Next]_vars

----------------------------------------------------------------------------
(* Properties *)

Started(r) == tpg[r].joinCounter > 0 \/ tpg[r].ran > 0
Counted(r) == flowOf[r] # Nobody /\ \A c \in Client : cur[c] = r => pc[c] # "count"

\* A worker's last access to the taskflow is the release of its lock, and to the
\* topology its return from the tear-down; tasks about to run are accessed too.
UsesFlow(a) ==
    cur[a] # Nobody /\ pc[a] \notin {"promiseLast", "decrementLast", "erase"}
UsesTopology(a) == a \in Worker /\ cur[a] # Nobody

\* "Soon after we carry out the promise, there is no longer any guarantee for the
\* lifetime of the associated taskflow" (executor.h:2322): though the owner of a
\* taskflow may destroy it as soon as its promises are set, no thread uses a
\* taskflow that was destroyed, nor a topology that was.
NothingFreedInUse ==
    /\ \A a \in Actor : UsesFlow(a) => flowOf[cur[a]] \notin destroyed
    /\ \A a \in Actor : UsesTopology(a) => tpg[cur[a]].alive
    /\ \A r \in Run : tpg[r].joinCounter > 0 =>
         tpg[r].alive /\ flowOf[r] \notin destroyed

\* ... and the variables are in their types.
Consistent == TypeOK /\ NothingFreedInUse

\* The runs of one taskflow are executed one after the other, in the order in
\* which they entered its queue: no run starts before the callback of the one
\* before it (run_until, _tear_down_topology).
RunsInOrder ==
    \A f \in Flow : \A i, j \in 1 .. Len(submitted[f]) :
        i < j /\ Started(submitted[f][j]) => tpg[submitted[f][i]].calls = 1

\* No task runs more often than the run was asked to repeat, and a set promise
\* tells the truth (_tear_down_topology, _carry_out_promise): the callback was
\* invoked, once; the promise holds an exception exactly if a task threw; and
\* unless the run was cancelled, every task ran once per repetition.
EachPromiseExact ==
    \A r \in Run : flowOf[r] # Nobody =>
        LET due == repeat[r] * FlowSize[flowOf[r]] IN
        /\ tpg[r].ran <= due
        /\ tpg[r].promise # "pending" =>
             /\ tpg[r].calls = 1
             /\ tpg[r].promise = "exception" <=> tpg[r].raised
             /\ ~tpg[r].cancelled => tpg[r].ran = due

\* wait_for_all "waits until all submitted tasks [...] finish" (executor.h:488):
\* when the number of topologies is zero, the promise of every run that was
\* counted is set.
NoneMissing ==
    topologies = 0 => \A r \in Run : Counted(r) => tpg[r].promise # "pending"

\* What run and wait_for_all answer is true.
PromiseExact == EachPromiseExact /\ NoneMissing

\* Every run that is submitted completes, whatever is queued before and behind it,
\* and wait_for_all returns: when no thread inside the executor can go on, there
\* is nothing left to do.  A run takes finitely many steps.
NothingStuck ==
    (\A c \in Client : ~ENABLED (ClientStep(c) \/ LockedStep(c)))
    /\ (\A w \in Worker : ~ENABLED (WorkerStep(w) \/ LockedStep(w)))
    => /\ \A r \in Run : flowOf[r] # Nobody => tpg[r].promise # "pending"
       /\ \A a \in Actor : pc[a] = "idle"
=============================================================================
