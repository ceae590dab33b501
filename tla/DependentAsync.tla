--------------------------- MODULE DependentAsync ---------------------------
(***************************************************************************)
(* Dependent-async tasks (core/async.h, core/async_task.h): a graph of     *)
(* tasks that grows while it runs.  A client creates a task that depends   *)
(* on tasks it holds handles (AsyncTask objects) of.  For each of them it  *)
(* either appends the new task to the predecessor's edges, under the       *)
(* predecessor's lock, or finds it finished and counts it off.  Whoever    *)
(* counts off the last predecessor schedules the task: the creator, or a   *)
(* worker that tears a predecessor down.  Handles and the executor share   *)
(* the ownership of a task through its use_count.                          *)
(*                                                                         *)
(* The scheduler is a bag of scheduled tasks here (see WorkStealing), and  *)
(* a task's work is one step.                                              *)
(***************************************************************************)
EXTENDS Integers, Sequences, FiniteSets

CONSTANTS
    Task,       \* the nodes that may be created, numbered in that order
    NoTask,     \* the null node
    Client,     \* threads that create tasks
    Handle,     \* AsyncTask objects
    Worker      \* the executor's threads

AsyncAssumption ==
    /\ Task \subseteq Nat /\ IsFiniteSet(Task) /\ IsFiniteSet(Handle)
    /\ NoTask \notin Task

VARIABLES
    handle,     \* AsyncTask::_node
    astate,     \* DependentAsync::state, "none" before the node is created
    uses,       \* DependentAsync::use_count
    recycled,   \* nodes given back to the allocator
    join,       \* Node::_join_counter
    edges,      \* Node::_edges: the successors
    walked,     \* how many edges the tear-down of the node has counted off
    pred,       \* the tasks a task was created to depend on
    ran,        \* tasks whose work is done
    scheduled,  \* how often each task is in the executor's queues
    topologies, \* _num_topologies
    cpc, made, todo, link, npred,   \* a client inside dependent_async
    wpc, node, cache                \* a worker inside _invoke

clientVars == <<cpc, made, todo, link, npred>>
workerVars == <<wpc, node, cache>>
vars == <<handle, astate, uses, recycled, join, edges, walked, pred, ran, scheduled,
          topologies, clientVars, workerVars>>

TypeOK ==
    /\ handle \in [Handle -> Task \cup {NoTask}]
    /\ astate \in [Task -> {"none", "unfinished", "locked", "finished"}]
    /\ uses \in [Task -> Nat]
    /\ recycled \in SUBSET Task
    /\ join \in [Task -> Nat]
    /\ edges \in [Task -> Seq(Task)]
    /\ walked \in [Task -> Nat]
    /\ pred \in [Task -> SUBSET Task]
    /\ ran \in SUBSET Task
    /\ scheduled \in [Task -> Nat]
    /\ topologies \in Nat
    /\ cpc \in [Client -> {"idle", "process", "link", "return"}]
    /\ made \in [Client -> Task \cup {NoTask}]
    /\ todo \in [Client -> SUBSET Handle]
    /\ link \in [Client -> Handle \cup {NoTask}]
    /\ npred \in [Client -> Nat]
    /\ wpc \in [Worker -> {"idle", "work", "finish", "walk", "count", "release"}]
    /\ node \in [Worker -> Task \cup {NoTask}]
    /\ cache \in [Worker -> Task \cup {NoTask}]

Init ==
    /\ handle = [h \in Handle |-> NoTask]
    /\ astate = [t \in Task |-> "none"]
    /\ uses = [t \in Task |-> 0]
    /\ recycled = {}
    /\ join = [t \in Task |-> 0]
    /\ edges = [t \in Task |-> <<>>]
    /\ walked = [t \in Task |-> 0]
    /\ pred = [t \in Task |-> {}]
    /\ ran = {}
    /\ scheduled = [t \in Task |-> 0]
    /\ topologies = 0
    /\ cpc = [c \in Client |-> "idle"]
    /\ made = [c \in Client |-> NoTask]
    /\ todo = [c \in Client |-> {}]
    /\ link = [c \in Client |-> NoTask]
    /\ npred = [c \in Client |-> 0]
    /\ wpc = [w \in Worker |-> "idle"]
    /\ node = [w \in Worker |-> NoTask]
    /\ cache = [w \in Worker |-> NoTask]

Created == {t \in Task : astate[t] # "none"}
Fresh == {t \in Task \ Created : \A u \in Task \ Created : t <= u}

----------------------------------------------------------------------------
(* Handles *)

\* _decref: whoever drops the last reference recycles the node.
Drop(t) ==
    IF t = NoTask THEN UNCHANGED <<uses, recycled>>
    ELSE /\ uses' = [uses EXCEPT ![t] = @ - 1]
         /\ recycled' = IF uses[t] = 1 THEN recycled \cup {t} ELSE recycled

\* Handles that a client inside dependent_async still goes through.
Busy == UNION {todo[c] : c \in Client}

\* A copy: the target drops its task and shares the other's.
CopyHandle(h, g) ==
    /\ h # g /\ h \notin Busy
    /\ handle[h] # handle[g]
    /\ handle' = [handle EXCEPT ![h] = handle[g]]
    /\ uses' = [t \in Task |-> IF t = handle[h] THEN uses[t] - 1
                               ELSE IF t = handle[g] THEN uses[t] + 1
                               ELSE uses[t]]
    /\ recycled' = recycled \cup {t \in {handle[h]} \cap Task : uses[t] = 1}
    /\ UNCHANGED <<astate, join, edges, walked, pred, ran, scheduled, topologies,
                   clientVars, workerVars>>

\* A move: the target drops its task and takes over the other's.
MoveHandle(h, g) ==
    /\ h # g /\ {h, g} \cap Busy = {}
    /\ handle' = [handle EXCEPT ![h] = handle[g], ![g] = NoTask]
    /\ Drop(handle[h])
    /\ UNCHANGED <<astate, join, edges, walked, pred, ran, scheduled, topologies,
                   clientVars, workerVars>>

\* reset or the destructor.
ResetHandle(h) ==
    /\ h \notin Busy
    /\ handle' = [handle EXCEPT ![h] = NoTask]
    /\ Drop(handle[h])
    /\ UNCHANGED <<astate, join, edges, walked, pred, ran, scheduled, topologies,
                   clientVars, workerVars>>

----------------------------------------------------------------------------
(* silent_dependent_async and dependent_async *)

\* A faulty variant in which the handle is not counted as an owner.
CreateUncounted(c) ==
    /\ cpc[c] = "idle"
    /\ \E t \in Fresh, hs \in SUBSET Handle :
          /\ astate' = [astate EXCEPT ![t] = "unfinished"]
          /\ uses' = [uses EXCEPT ![t] = 1]
          /\ join' = [join EXCEPT ![t] = Cardinality(hs)]
          /\ pred' = [pred EXCEPT ![t] = {handle[h] : h \in hs} \ {NoTask}]
          /\ made' = [made EXCEPT ![c] = t]
          /\ todo' = [todo EXCEPT ![c] = hs]
          /\ npred' = [npred EXCEPT ![c] = Cardinality(hs)]
    /\ topologies' = topologies + 1
    /\ cpc' = [cpc EXCEPT ![c] = "process"]
    /\ UNCHANGED <<handle, recycled, edges, walked, ran, scheduled, link, workerVars>>

\* The node is made, owned by the executor and by the handle to be returned.
Create(c) ==
    /\ cpc[c] = "idle"
    /\ \E t \in Fresh, hs \in SUBSET Handle :
          /\ astate' = [astate EXCEPT ![t] = "unfinished"]
          /\ uses' = [uses EXCEPT ![t] = 2]
          /\ join' = [join EXCEPT ![t] = Cardinality(hs)]
          /\ pred' = [pred EXCEPT ![t] = {handle[h] : h \in hs} \ {NoTask}]
          /\ made' = [made EXCEPT ![c] = t]
          /\ todo' = [todo EXCEPT ![c] = hs]
          /\ npred' = [npred EXCEPT ![c] = Cardinality(hs)]
    /\ topologies' = topologies + 1
    /\ cpc' = [cpc EXCEPT ![c] = "process"]
    /\ UNCHANGED <<handle, recycled, edges, walked, ran, scheduled, link, workerVars>>

\* A faulty variant that counts a finished predecessor off its local copy only.
CountOffLocally(c, h) ==
    /\ cpc[c] = "process"
    /\ h \in todo[c]
    /\ handle[h] # NoTask => astate[handle[h]] = "finished"
    /\ npred' = [npred EXCEPT ![c] = @ - 1]
    /\ todo' = [todo EXCEPT ![c] = @ \ {h}]
    /\ UNCHANGED <<handle, astate, uses, recycled, join, edges, walked, pred, ran, scheduled,
                   topologies, cpc, made, link, workerVars>>

\* _process_dependent_async.  A predecessor that is empty or finished is counted
\* off ...
CountOff(c, h) ==
    /\ cpc[c] = "process"
    /\ h \in todo[c]
    /\ handle[h] # NoTask => astate[handle[h]] = "finished"
    /\ join' = [join EXCEPT ![made[c]] = @ - 1]
    /\ npred' = [npred EXCEPT ![c] = join[made[c]] - 1]
    /\ todo' = [todo EXCEPT ![c] = @ \ {h}]
    /\ UNCHANGED <<handle, astate, uses, recycled, edges, walked, pred, ran, scheduled,
                   topologies, cpc, made, link, workerVars>>

\* ... an unfinished one is locked (while somebody else has it locked, retry) ...
Lock(c, h) ==
    /\ cpc[c] = "process"
    /\ h \in todo[c]
    /\ handle[h] # NoTask
    /\ astate[handle[h]] = "unfinished"
    /\ astate' = [astate EXCEPT ![handle[h]] = "locked"]
    /\ link' = [link EXCEPT ![c] = h]
    /\ cpc' = [cpc EXCEPT ![c] = "link"]
    /\ UNCHANGED <<handle, uses, recycled, join, edges, walked, pred, ran, scheduled,
                   topologies, made, todo, npred, workerVars>>

\* ... gets the new task as a successor, and is unlocked.
Link(c) ==
    /\ cpc[c] = "link"
    /\ LET p == handle[link[c]] IN
       /\ edges' = [edges EXCEPT ![p] = Append(@, made[c])]
       /\ astate' = [astate EXCEPT ![p] = "unfinished"]
    /\ todo' = [todo EXCEPT ![c] = @ \ {link[c]}]
    /\ link' = [link EXCEPT ![c] = NoTask]
    /\ cpc' = [cpc EXCEPT ![c] = "process"]
    /\ UNCHANGED <<handle, uses, recycled, join, walked, pred, ran, scheduled,
                   topologies, made, npred, workerVars>>

\* The creator schedules the task if it was the one to count off the last
\* predecessor.
ScheduleIfReady(c) ==
    /\ cpc[c] = "process"
    /\ todo[c] = {}
    /\ scheduled' = IF npred[c] = 0
                    THEN [scheduled EXCEPT ![made[c]] = @ + 1] ELSE scheduled
    /\ cpc' = [cpc EXCEPT ![c] = "return"]
    /\ UNCHANGED <<handle, astate, uses, recycled, join, edges, walked, pred, ran,
                   topologies, made, todo, link, npred, workerVars>>

\* The returned handle is moved into one of the client's, or dropped.
ReturnTo(c, h) ==
    /\ cpc[c] = "return"
    /\ h \notin Busy
    /\ handle' = [handle EXCEPT ![h] = made[c]]
    /\ Drop(handle[h])
    /\ cpc' = [cpc EXCEPT ![c] = "idle"]
    /\ made' = [made EXCEPT ![c] = NoTask]
    /\ npred' = [npred EXCEPT ![c] = 0]
    /\ UNCHANGED <<astate, join, edges, walked, pred, ran, scheduled, topologies,
                   todo, link, workerVars>>

Discard(c) ==
    /\ cpc[c] = "return"
    /\ Drop(made[c])
    /\ cpc' = [cpc EXCEPT ![c] = "idle"]
    /\ made' = [made EXCEPT ![c] = NoTask]
    /\ npred' = [npred EXCEPT ![c] = 0]
    /\ UNCHANGED <<handle, astate, join, edges, walked, pred, ran, scheduled, topologies,
                   todo, link, workerVars>>

----------------------------------------------------------------------------
(* _invoke and _tear_down_dependent_async *)

Goto(w, l) == wpc' = [wpc EXCEPT ![w] = l]

Pick(w, t) ==
    /\ wpc[w] = "idle"
    /\ scheduled[t] > 0
    /\ scheduled' = [scheduled EXCEPT ![t] = @ - 1]
    /\ node' = [node EXCEPT ![w] = t]
    /\ Goto(w, "work")
    /\ UNCHANGED <<handle, astate, uses, recycled, join, edges, walked, pred, ran,
                   topologies, clientVars, cache>>

Work(w) ==
    /\ wpc[w] = "work"
    /\ ran' = ran \cup {node[w]}
    /\ Goto(w, "finish")
    /\ UNCHANGED <<handle, astate, uses, recycled, join, edges, walked, pred, scheduled,
                   topologies, clientVars, node, cache>>

\* A faulty variant that finishes even while a client holds the lock.
FinishLocked(w) ==
    /\ wpc[w] = "finish"
    /\ astate' = [astate EXCEPT ![node[w]] = "finished"]
    /\ Goto(w, "walk")
    /\ UNCHANGED <<handle, uses, recycled, join, edges, walked, pred, ran, scheduled,
                   topologies, clientVars, node, cache>>

\* From here on nobody adds a successor (while a client does, retry).
Finish(w) ==
    /\ wpc[w] = "finish"
    /\ astate[node[w]] = "unfinished"
    /\ astate' = [astate EXCEPT ![node[w]] = "finished"]
    /\ Goto(w, "walk")
    /\ UNCHANGED <<handle, uses, recycled, join, edges, walked, pred, ran, scheduled,
                   topologies, clientVars, node, cache>>

\* _update_cache: the worker goes on with the last successor that became ready and
\* schedules the ones before it.
UpdateCache(w, s) ==
    /\ cache' = [cache EXCEPT ![w] = s]
    /\ scheduled' = IF cache[w] = NoTask THEN scheduled
                    ELSE [scheduled EXCEPT ![cache[w]] = @ + 1]

\* One successor after the other is counted off.
Walk(w) ==
    /\ wpc[w] = "walk"
    /\ LET t == node[w] IN
       /\ walked[t] < Len(edges[t])
       /\ walked' = [walked EXCEPT ![t] = @ + 1]
       /\ LET s == edges[t][walked[t] + 1] IN
          /\ join' = [join EXCEPT ![s] = @ - 1]
          /\ IF join[s] = 1 THEN UpdateCache(w, s) ELSE UNCHANGED <<cache, scheduled>>
    /\ UNCHANGED <<handle, astate, uses, recycled, edges, pred, ran, topologies,
                   clientVars, wpc, node>>

EndWalk(w) ==
    /\ wpc[w] = "walk"
    /\ walked[node[w]] = Len(edges[node[w]])
    /\ Goto(w, "count")
    /\ UNCHANGED <<handle, astate, uses, recycled, join, edges, walked, pred, ran,
                   scheduled, topologies, clientVars, node, cache>>

DecrementTopology(w) ==
    /\ wpc[w] = "count"
    /\ topologies' = topologies - 1
    /\ Goto(w, "release")
    /\ UNCHANGED <<handle, astate, uses, recycled, join, edges, walked, pred, ran,
                   scheduled, clientVars, node, cache>>

\* The executor gives up its ownership; the worker goes on with its cache.
Release(w) ==
    /\ wpc[w] = "release"
    /\ Drop(node[w])
    /\ node' = [node EXCEPT ![w] = cache[w]]
    /\ cache' = [cache EXCEPT ![w] = NoTask]
    /\ Goto(w, IF cache[w] = NoTask THEN "idle" ELSE "work")
    /\ UNCHANGED <<handle, astate, join, edges, walked, pred, ran, scheduled, topologies,
                   clientVars>>

----------------------------------------------------------------------------
ClientStep(c) ==
    \/ \E h \in Handle : CountOff(c, h) \/ Lock(c, h) \/ ReturnTo(c, h)
    \/ Link(c) \/ ScheduleIfReady(c) \/ Discard(c)

WorkerStep(w) ==
    \/ \E t \in Task : Pick(w, t)
    \/ Work(w) \/ Finish(w) \/ Walk(w) \/ EndWalk(w) \/ DecrementTopology(w) \/ Release(w)

UseHandles ==
    \E h \in Handle : ResetHandle(h) \/ \E g \in Handle : CopyHandle(h, g) \/ MoveHandle(h, g)

Next ==
    \/ \E c \in Client : Create(c) \/ ClientStep(c)
    \/ \E w \in Worker : WorkerStep(w)
    \/ UseHandles

Spec == Init /\ [][Next]_vars

----------------------------------------------------------------------------
(* Properties *)

\* The predecessors a task still waits for: handles its creator has not gone
\* through, and places in the edges of tasks that have not been torn down.
Unprocessed(t) == {h \in Handle : \E c \in Client : made[c] = t /\ h \in todo[c]}

Pending(t) ==
    {e \in UNION {{p} \X (walked[p] + 1 .. Len(edges[p])) : p \in Task} :
        edges[e[1]][e[2]] = t}

\* The join counter counts exactly the predecessors that are outstanding, whatever
\* the order in which the creator and the predecessors' workers come by.
JoinCounterExact ==
    \A t \in Task : join[t] = Cardinality(Unprocessed(t)) + Cardinality(Pending(t))

\* A task is taken up only when all tasks it depends on are finished.
TakenUp(t) ==
    \/ scheduled[t] > 0
    \/ t \in ran
    \/ \E w \in Worker : node[w] = t \/ cache[w] = t

RunsAfterPredecessors ==
    \A t \in Task : TakenUp(t) => \A p \in pred[t] : p \in ran /\ astate[p] = "finished"

\* A task is scheduled once: by its creator or by one predecessor, never by both.
Holders(t) == {w \in Worker : node[w] = t} \cup {w \in Worker : cache[w] = t}

ScheduledOnce ==
    \A t \in Task :
        /\ scheduled[t] + Cardinality(Holders(t)) <= 1
        /\ t \in ran => scheduled[t] = 0 /\ \A w \in Worker : cache[w] # t

\* is_done and wait_for_all tell the truth: a finished task has run, and when the
\* executor counts no topology all created tasks have.
DoneMeansRan ==
    /\ \A t \in Task : astate[t] = "finished" => t \in ran
    /\ topologies = 0 => Created \subseteq ran

\* The counters, the queues and the states of the tasks agree.
Consistent == TypeOK /\ JoinCounterExact /\ ScheduledOnce /\ DoneMeansRan

\* Nobody can reach a recycled node: not through a handle, a lock or an edge still
\* to be counted off, nor in the executor's hands.
NoUseAfterRecycle ==
    \A t \in recycled :
        /\ \A h \in Handle : handle[h] # t
        /\ \A c \in Client : made[c] # t
        /\ scheduled[t] = 0 /\ Holders(t) = {}
        /\ Pending(t) = {}

\* Nobody keeps a node that has no owner: the last handle or the executor's
\* tear-down recycles it.
NoLeak == \A t \in Created : uses[t] = 0 => t \in recycled

\* The shared ownership of a node by handles and executor is exact.
Ownership == NoUseAfterRecycle /\ NoLeak

\* No successor is forgotten and nobody is stuck: when no thread inside the library
\* can go on, every created task has run and every call has returned.  A call and a
\* task take finitely many steps, so that this says that every task runs.
NothingForgotten ==
    (\A c \in Client : ~ENABLED ClientStep(c)) /\ (\A w \in Worker : ~ENABLED WorkerStep(w))
    => Created \subseteq ran /\ \A c \in Client : cpc[c] = "idle"
=============================================================================
