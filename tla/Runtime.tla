------------------------------ MODULE Runtime -------------------------------
(***************************************************************************)
(* Runtime tasks (core/runtime.h, core/async.h): a task whose callable     *)
(* spawns asynchronous children, waits for them with corun, and is left    *)
(* preempted when it returns before them, to be entered again by whoever   *)
(* finishes the last child.  Exceptions of the children travel up to the   *)
(* first anchored ancestor, or to the topology.                            *)
(*                                                                         *)
(* A worker that coruns invokes other tasks meanwhile, so it keeps a stack *)
(* of invocations.  The executor's queues are a bag of scheduled tasks.    *)
(***************************************************************************)
EXTENDS Integers, Sequences, FiniteSets

CONSTANTS
    Task,       \* the nodes that may be created, numbered in that order
    NoTask,     \* the null node, and the null exception
    Worker,     \* the executor's threads
    RootKinds,  \* the kinds of task a client starts, see Kind
    ChildKinds, \* the kinds of task that a runtime task spawns
    MaxCoruns   \* bound: how often a task calls corun

(* "plain" is a silent async void(); "silent" a silent async with a        *)
(* Runtime; "promised" an async with a Runtime, and so with a future;      *)
(* "graph" a runtime task of a taskflow that is run.  An async void() with *)
(* a future keeps its exceptions in its packaged_task.                     *)
Kind == {"plain", "silent", "promised", "graph"}

RuntimeAssumption ==
    /\ Task \subseteq Nat /\ IsFiniteSet(Task)
    /\ NoTask \notin Task
    /\ RootKinds \subseteq {"silent", "promised", "graph"}
    /\ ChildKinds \subseteq {"plain", "silent", "promised"}
    /\ MaxCoruns \in Nat

VARIABLES
    kind,       \* _handle, "none" before the node is created
    parent,     \* _parent
    preempted,  \* NSTATE::PREEMPTED of _nstate
    join,       \* _join_counter
    estate,     \* _estate
    eptr,       \* _exception_ptr: the task that threw it
    promise,    \* the future of a promised task, or of the topology
    topology,   \* the topology of a graph task: its _estate and _exception_ptr
    scheduled,  \* how often each task is in the executor's queues
    recycled,   \* nodes given back, and the graph's node when its run is over
    stack,      \* a worker's invocations, the innermost one first
    coruns,     \* how often a task called corun
    thrown,     \* tasks whose callable threw
    reported    \* exceptions that reached a future or a caller of corun

nodeVars == <<kind, parent, preempted, join, estate, eptr, promise, topology, recycled>>
historyVars == <<coruns, thrown, reported>>
vars == <<nodeVars, historyVars, scheduled, stack>>

Flags == {"EXCEPTION", "CANCELLED", "ANCHORED"}
Nodes == Task \cup {NoTask}
Outcome == {"pending", "value", "exception", "broken"}
Created == {t \in Task : kind[t] # "none"}
Frame == [node : Task, at : Nodes, exc : Nodes, again : BOOLEAN,
          pc : {"begin", "work", "corun", "raise", "store", "leave", "finish", "count"}]

TypeOK ==
    /\ kind \in [Task -> Kind \cup {"none"}]
    /\ parent \in [Task -> Nodes]
    /\ preempted \in [Task -> BOOLEAN]
    /\ join \in [Task -> Nat]
    /\ estate \in [Task -> SUBSET Flags]
    /\ eptr \in [Task -> Nodes]
    /\ promise \in [Task -> Outcome]
    /\ topology \in [estate : SUBSET Flags, eptr : Nodes]
    /\ scheduled \in [Task -> Nat]
    /\ recycled \in SUBSET Created
    /\ stack \in [Worker -> Seq(Frame)]
    /\ coruns \in [Task -> 0 .. MaxCoruns]
    /\ thrown \in SUBSET Task /\ reported \in SUBSET Task

Init ==
    /\ kind = [t \in Task |-> "none"]
    /\ parent = [t \in Task |-> NoTask]
    /\ preempted = [t \in Task |-> FALSE]
    /\ join = [t \in Task |-> 0]
    /\ estate = [t \in Task |-> {}]
    /\ eptr = [t \in Task |-> NoTask]
    /\ promise = [t \in Task |-> "pending"]
    /\ topology = [estate |-> {}, eptr |-> NoTask]
    /\ scheduled = [t \in Task |-> 0]
    /\ recycled = {}
    /\ stack = [w \in Worker |-> <<>>]
    /\ coruns = [t \in Task |-> 0]
    /\ thrown = {} /\ reported = {}

-----------------------------------------------------------------------------
(* Helpers                                                                 *)

Running(w, at) == stack[w] # <<>> /\ Head(stack[w]).pc = at
Top(w) == Head(stack[w])
Node(w) == Top(w).node

Enter(t) == [node |-> t, pc |-> "begin", at |-> NoTask, exc |-> NoTask, again |-> FALSE]
Push(w, frame) == stack' = [stack EXCEPT ![w] = <<frame>> \o @]
Become(w, frame) == stack' = [stack EXCEPT ![w] = <<frame>> \o Tail(@)]
Goto(w, at) == Become(w, [Top(w) EXCEPT !.pc = at])
Pop(w) == stack' = [stack EXCEPT ![w] = Tail(@)]

(* Whether a task belongs to the topology: it is inherited by the children. *)
(* The ancestors of t are the least set that holds t and its parents.       *)
Ancestors(t) ==
    {a \in Task : \A S \in SUBSET Task :
                    t \in S /\ (\A s \in S : parent[s] \in S \cup {NoTask}) => a \in S}
InTopology(t) == \E a \in Ancestors(t) : kind[a] = "graph"

IsCancelled(t) ==
    \/ InTopology(t) /\ "CANCELLED" \in topology.estate
    \/ parent[t] # NoTask /\ "CANCELLED" \in estate[parent[t]]

Animate(t, k, p) ==
    /\ t \notin Created
    /\ \A u \in Task \ Created : t <= u
    /\ kind' = [kind EXCEPT ![t] = k]
    /\ parent' = [parent EXCEPT ![t] = p]
    /\ estate' = [estate EXCEPT ![t] = IF k = "promised" THEN {"ANCHORED"} ELSE {}]
    /\ scheduled' = [scheduled EXCEPT ![t] = @ + 1]

-----------------------------------------------------------------------------
(* A client's thread                                                       *)

(* Executor::async, silent_async, or run of a taskflow of one runtime task. *)
Submit(t, k) ==
    /\ Created = {}
    /\ Animate(t, k, NoTask)
    /\ UNCHANGED <<preempted, join, eptr, promise, topology, recycled, historyVars, stack>>

(* Future::cancel of the run. *)
Cancel ==
    /\ \E t \in Created \ recycled : kind[t] = "graph"
    /\ topology' = [topology EXCEPT !.estate = @ \cup {"CANCELLED"}]
    /\ UNCHANGED <<kind, parent, preempted, join, estate, eptr, promise, recycled,
                   historyVars, scheduled, stack>>

-----------------------------------------------------------------------------
(* A worker                                                                *)

(* A worker takes a task, from its loop or from inside of corun. *)
Take(w, t) ==
    /\ stack[w] = <<>> \/ Running(w, "corun")
    /\ scheduled[t] > 0
    /\ scheduled' = [scheduled EXCEPT ![t] = @ - 1]
    /\ Push(w, Enter(t))
    /\ UNCHANGED <<nodeVars, historyVars>>

IsRuntime(t) == kind[t] # "plain"

(* The future of a promised task gets the exception its node holds. *)
Fulfil(t) ==
    /\ promise' = IF kind[t] # "promised" THEN promise
                  ELSE [promise EXCEPT ![t] = IF eptr[t] = NoTask THEN "value" ELSE "exception"]
    /\ reported' = IF kind[t] = "promised" THEN reported \cup ({eptr[t]} \ {NoTask})
                   ELSE reported

\* A faulty variant: the callable of a promised task is not called again.
ReenterSilently(w) ==
    /\ Running(w, "begin")
    /\ preempted[Node(w)]
    /\ preempted' = [preempted EXCEPT ![Node(w)] = FALSE]
    /\ Goto(w, "finish")
    /\ UNCHANGED <<kind, parent, join, estate, eptr, promise, topology, recycled,
                   historyVars, scheduled>>

(* The second entry of a preempted task. *)
Reenter(w) ==
    LET t == Node(w) IN
    /\ Running(w, "begin")
    /\ preempted[t]
    /\ preempted' = [preempted EXCEPT ![t] = FALSE]
    /\ Fulfil(t)
    /\ Goto(w, "finish")
    /\ UNCHANGED <<kind, parent, join, estate, eptr, topology, recycled, coruns, thrown, scheduled>>

(* A cancelled task is torn down without being called. *)
Skip(w) ==
    /\ Running(w, "begin")
    /\ ~preempted[Node(w)]
    /\ IsCancelled(Node(w))
    /\ Goto(w, "finish")
    /\ UNCHANGED <<nodeVars, historyVars, scheduled>>

(* The first entry: the callable is called. *)
Call(w) ==
    LET t == Node(w) IN
    /\ Running(w, "begin")
    /\ ~preempted[t] /\ ~IsCancelled(t)
    /\ IF IsRuntime(t)
       THEN /\ preempted' = [preempted EXCEPT ![t] = TRUE]
            /\ join' = [join EXCEPT ![t] = @ + 1]
       ELSE UNCHANGED <<preempted, join>>
    /\ Goto(w, "work")
    /\ UNCHANGED <<kind, parent, estate, eptr, promise, topology, recycled, historyVars, scheduled>>

(* Runtime::async, silent_async *)
Spawn(w, c, k) ==
    LET t == Node(w) IN
    /\ Running(w, "work") /\ IsRuntime(t)
    /\ Animate(c, k, t)
    /\ join' = [join EXCEPT ![t] = @ + 1]
    /\ UNCHANGED <<preempted, eptr, promise, topology, recycled, historyVars, stack>>

(* Runtime::corun anchors the task and joins the work-stealing loop. *)
Corun(w) ==
    LET t == Node(w) IN
    /\ Running(w, "work") /\ IsRuntime(t)
    /\ coruns[t] < MaxCoruns
    /\ coruns' = [coruns EXCEPT ![t] = @ + 1]
    /\ estate' = [estate EXCEPT ![t] = @ \cup {"ANCHORED"}]
    /\ Goto(w, "corun")
    /\ UNCHANGED <<kind, parent, preempted, join, eptr, promise, topology, recycled,
                   thrown, reported, scheduled>>

\* A faulty variant: corun waits for the counter of a task that is not running.
CorunReturnsAtZero(w) ==
    /\ Running(w, "corun")
    /\ join[Node(w)] = 0
    /\ estate' = [estate EXCEPT ![Node(w)] = @ \ {"ANCHORED"}]
    /\ Goto(w, "work")
    /\ UNCHANGED <<kind, parent, preempted, join, eptr, promise, topology, recycled,
                   historyVars, scheduled>>

(* corun finds the children finished, takes the anchor off and rethrows    *)
(* what they threw; the callable catches it, or leaves with it.            *)
CorunReturns(w) ==
    LET t == Node(w)
        e == eptr[t]
    IN
    /\ Running(w, "corun")
    /\ join[t] = 1
    /\ estate' = [estate EXCEPT ![t] = @ \ {"ANCHORED"}]
    /\ eptr' = [eptr EXCEPT ![t] = NoTask]
    /\ reported' = reported \cup ({e} \ {NoTask})
    /\ \/ Goto(w, "work")
       \/ /\ e # NoTask
          /\ Become(w, [Top(w) EXCEPT !.pc = "raise", !.at = t, !.exc = e])
    /\ UNCHANGED <<kind, parent, preempted, join, promise, topology, recycled,
                   coruns, thrown, scheduled>>

(* The callable throws. *)
Throw(w) ==
    LET t == Node(w) IN
    /\ Running(w, "work")
    /\ thrown' = thrown \cup {t}
    /\ Become(w, [Top(w) EXCEPT !.pc = "raise", !.at = t, !.exc = t])
    /\ UNCHANGED <<nodeVars, coruns, reported, scheduled>>

Failed == {"EXCEPTION", "CANCELLED"}

(* _process_exception marks the ancestors on the way to the anchor. *)
RaisePass(w) ==
    LET a == Top(w).at IN
    /\ Running(w, "raise")
    /\ a # NoTask
    /\ "ANCHORED" \notin estate[a]
    /\ estate' = [estate EXCEPT ![a] = @ \cup Failed]
    /\ Become(w, [Top(w) EXCEPT !.at = parent[a]])
    /\ UNCHANGED <<kind, parent, preempted, join, eptr, promise, topology, recycled,
                   historyVars, scheduled>>

(* The anchor keeps the first exception; a later one stays in its node. *)
RaiseAnchor(w) ==
    LET a == Top(w).at IN
    /\ Running(w, "raise")
    /\ a # NoTask
    /\ "ANCHORED" \in estate[a]
    /\ estate' = [estate EXCEPT ![a] = @ \cup Failed]
    /\ Become(w, [Top(w) EXCEPT !.pc = "store",
                                !.at = IF "EXCEPTION" \in estate[a] THEN Node(w) ELSE a])
    /\ UNCHANGED <<kind, parent, preempted, join, eptr, promise, topology, recycled,
                   historyVars, scheduled>>

\* A faulty variant: a topology that was cancelled counts as one that has an exception.
RaiseUncancelled(w) ==
    /\ Running(w, "raise")
    /\ Top(w).at = NoTask
    /\ topology' = IF InTopology(Node(w))
                   THEN [estate |-> topology.estate \cup Failed,
                         eptr |-> IF "CANCELLED" \in topology.estate THEN topology.eptr
                                  ELSE Top(w).exc]
                   ELSE topology
    /\ Goto(w, "leave")
    /\ UNCHANGED <<kind, parent, preempted, join, estate, eptr, promise, recycled,
                   historyVars, scheduled>>

(* Without an anchor the topology keeps the first exception. *)
RaiseTopology(w) ==
    /\ Running(w, "raise")
    /\ Top(w).at = NoTask
    /\ IF InTopology(Node(w))
       THEN topology' = [estate |-> topology.estate \cup Failed,
                         eptr |-> IF "EXCEPTION" \in topology.estate THEN topology.eptr
                                  ELSE Top(w).exc]
       ELSE UNCHANGED topology
    /\ IF InTopology(Node(w)) /\ "EXCEPTION" \notin topology.estate
       THEN Goto(w, "leave")
       ELSE Become(w, [Top(w) EXCEPT !.pc = "store", !.at = Node(w)])
    /\ UNCHANGED <<kind, parent, preempted, join, estate, eptr, promise, recycled,
                   historyVars, scheduled>>

(* The assignment of _exception_ptr. *)
Store(w) ==
    /\ Running(w, "store")
    /\ eptr' = [eptr EXCEPT ![Top(w).at] = Top(w).exc]
    /\ Goto(w, "leave")
    /\ UNCHANGED <<kind, parent, preempted, join, estate, promise, topology, recycled,
                   historyVars, scheduled>>

(* The callable returns. *)
Return(w) ==
    /\ Running(w, "work")
    /\ Goto(w, "leave")
    /\ UNCHANGED <<nodeVars, historyVars, scheduled>>

(* A runtime task stays preempted unless it is the last one to leave. *)
Leave(w) ==
    LET t == Node(w) IN
    /\ Running(w, "leave") /\ IsRuntime(t)
    /\ join' = [join EXCEPT ![t] = @ - 1]
    /\ IF join[t] = 1
       THEN /\ preempted' = [preempted EXCEPT ![t] = FALSE]
            /\ Fulfil(t)
            /\ Goto(w, "finish")
       ELSE /\ Pop(w)
            /\ UNCHANGED <<preempted, promise, reported>>
    /\ UNCHANGED <<kind, parent, estate, eptr, topology, recycled, coruns, thrown, scheduled>>

LeavePlain(w) ==
    /\ Running(w, "leave") /\ ~IsRuntime(Node(w))
    /\ Goto(w, "finish")
    /\ UNCHANGED <<nodeVars, historyVars, scheduled>>

(* The parent's state is read before the parent is counted down. *)
ReadParent(w) ==
    LET p == parent[Node(w)] IN
    /\ Running(w, "finish")
    /\ p # NoTask
    /\ Become(w, [Top(w) EXCEPT !.pc = "count", !.again = preempted[p]])
    /\ UNCHANGED <<nodeVars, historyVars, scheduled>>

(* A node that is recycled with its promise pending breaks it. *)
Broken(t) == IF kind[t] = "promised" /\ promise[t] = "pending"
             THEN [promise EXCEPT ![t] = "broken"] ELSE promise

(* The last child goes on with the parent that was preempted. *)
CountParent(w) ==
    LET t == Node(w)
        p == parent[t]
    IN
    /\ Running(w, "count")
    /\ join' = [join EXCEPT ![p] = @ - 1]
    /\ recycled' = recycled \cup {t}
    /\ promise' = Broken(t)
    /\ IF join[p] = 1 /\ Top(w).again THEN Become(w, Enter(p)) ELSE Pop(w)
    /\ UNCHANGED <<kind, parent, preempted, estate, eptr, topology, historyVars, scheduled>>

(* A task without a parent: the client's async task, or the end of a run. *)
FinishRoot(w) ==
    LET t == Node(w)
        outcome == IF topology.eptr = NoTask THEN "value" ELSE "exception"
    IN
    /\ Running(w, "finish")
    /\ parent[t] = NoTask
    /\ recycled' = recycled \cup {t}
    /\ promise' = IF kind[t] = "graph" THEN [promise EXCEPT ![t] = outcome] ELSE Broken(t)
    /\ reported' = IF kind[t] = "graph" THEN reported \cup ({topology.eptr} \ {NoTask}) ELSE reported
    /\ Pop(w)
    /\ UNCHANGED <<kind, parent, preempted, join, estate, eptr, topology, coruns, thrown, scheduled>>

-----------------------------------------------------------------------------
(* Running a callable takes turns between its calls and its end. *)
Callable(w) ==
    \/ \E c \in Task, k \in ChildKinds : Spawn(w, c, k)
    \/ Corun(w) \/ Throw(w) \/ Return(w)

Invoke(w) ==
    \/ Reenter(w) \/ Skip(w) \/ Call(w)
    \/ CorunReturns(w)
    \/ RaisePass(w) \/ RaiseAnchor(w) \/ RaiseTopology(w) \/ Store(w)
    \/ Leave(w) \/ LeavePlain(w)
    \/ ReadParent(w) \/ CountParent(w) \/ FinishRoot(w)

Schedule(w) == \E t \in Task : Take(w, t)

WorkerStep(w) == Schedule(w) \/ Callable(w) \/ Invoke(w)

Next ==
    \/ \E t \in Task, k \in RootKinds : Submit(t, k)
    \/ Cancel
    \/ \E w \in Worker : WorkerStep(w)

Spec == Init /\ [][Next]_vars

-----------------------------------------------------------------------------
(* Properties                                                              *)

Frames == UNION {{<<w, i>> : i \in DOMAIN stack[w]} : w \in Worker}
FrameOf(f) == stack[f[1]][f[2]]
Invoked(t) == {f \in Frames : FrameOf(f).node = t}

(* A node is queued or invoked at most once at a time: a preempted parent  *)
(* is not entered again by its last child while its own first invocation   *)
(* still looks at it (the stateless return of _invoke_runtime_task_impl).  *)
InOnePlace ==
    \A t \in Task : scheduled[t] + Cardinality(Invoked(t)) <= 1

(* The join counter of a runtime task is exact: one for its own first      *)
(* invocation and one for each child that was not torn down (silent_async, *)
(* _tear_down_async).                                                      *)
JoinExact ==
    \A t \in Created : join[t] =
        Cardinality({c \in Created \ recycled : parent[c] = t})
        + Cardinality({f \in Invoked(t) : IsRuntime(t) /\
              FrameOf(f).pc \in {"work", "corun", "raise", "store", "leave"}})

(* A parent outlives its children: no child is left that would touch a     *)
(* parent's counters, flags or exception after it was recycled.            *)
ParentOutlivesChildren ==
    \A c \in Created \ recycled : parent[c] # NoTask => parent[c] \notin recycled

(* The nodes, the queues, the invocations and the counters agree.          *)
Consistent == TypeOK /\ InOnePlace /\ JoinExact /\ ParentOutlivesChildren

(* A run that failed does not look like one that did not: when something   *)
(* was thrown in a topology, its future or the caller of a corun or of a   *)
(* child's future gets an exception (_process_exception).                  *)
FailureReported ==
    \A t \in recycled : kind[t] = "graph" /\ thrown # {} => reported # {}

(* A future that a client holds is answered when its task is over: the     *)
(* task is entered again for it, however it and its children end.          *)
FuturesAnswered ==
    \A t \in recycled : kind[t] \in {"promised", "graph"} =>
        /\ promise[t] # "pending"
        /\ promise[t] = "broken" => parent[t] # NoTask

(* The task a client started finishes with all it spawned, although        *)
(* workers wait in corun on top of each other's tasks (_corun_until): they  *)
(* never all wait for each other.  A callable takes finitely many steps.   *)
NothingStuck ==
    Created # {} /\ (\A w \in Worker : ~ENABLED WorkerStep(w)) => Created \subseteq recycled

(* "this can happen in an execution that does not have any external        *)
(* control to capture the exception, such as silent async task"            *)
(* (executor.h:1877-1879): an exception is dropped with its node only when *)
(* no ancestor of the node has a future.                                   *)
DroppedWithoutControl ==
    \A t \in recycled : t \in thrown /\ eptr[t] = t =>
        \/ "EXCEPTION" \in topology.estate
        \/ reported # {}
        \/ \A a \in Ancestors(t) \ {t} : kind[a] # "promised" \/ a \notin recycled
=============================================================================
