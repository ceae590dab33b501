------------------------------ MODULE TaskGraph ------------------------------
(***************************************************************************)
(* How the executor's workers run the graph of one topology: _invoke of    *)
(* core/executor.h with the join counters of core/graph.h and the          *)
(* semaphores of core/semaphore.h.  A task's join counter holds the strong *)
(* dependencies that have not finished; the topology's, and that of a      *)
(* module task, the tasks of its graph that are in flight.  Whoever counts *)
(* a counter down to zero schedules the task, finishes the topology, or    *)
(* resumes the module.  A condition task instead jumps to a successor.     *)
(*                                                                         *)
(* The scheduler is a bag of scheduled tasks (see WorkStealing).  A task's *)
(* work is one step.  What becomes of a topology before and after its      *)
(* rounds is the subject of TopologyQueue.                                 *)
(***************************************************************************)
EXTENDS Integers, Sequences, FiniteSets, SequencesExt

CONSTANTS
    Node,       \* tasks
    Top,        \* the topology, as the root of the outermost graph
    NoNode,     \* the null node
    Sem,        \* semaphores
    MaxValue,   \* their maximum values
    Worker,     \* the executor's threads
    Shapes,     \* the graphs that may be run
    MaxJumps,   \* how often a condition task jumps to one of its successors
    Rounds      \* how often the topology runs its graph

Kind == {"static", "condition", "multi", "module"}

\* parent[n] is the root of the graph n is in, NoNode if the graph has no n.
Shape == [kind: [Node -> Kind], succ: [Node -> Seq(Node)],
          parent: [Node -> Node \cup {Top, NoNode}],
          acquire: [Node -> Seq(Sem)], release: [Node -> Seq(Sem)]]

ASSUME GraphAssumption ==
    /\ IsFiniteSet(Node) /\ NoNode \notin Node /\ Top \notin Node /\ Top # NoNode
    /\ MaxValue \in [Sem -> Nat \ {0}]
    /\ MaxJumps \in Nat /\ Rounds \in Nat \ {0}
    /\ \A shape \in Shapes : shape \in Shape

VARIABLES
    g,          \* the graph
    join,       \* Node::_join_counter, Topology::_join_counter
    cancelled,  \* those whose _estate has CANCELLED
    raised,     \* the topology's _estate has EXCEPTION
    stored,     \* the topology has an _exception_ptr
    preempted,  \* those whose _nstate has PREEMPTED
    scheduled,  \* how often each task is in the executor's queues
    value,      \* Semaphore::_cur_value
    waiters,    \* Semaphore::_waiters
    ran,        \* how often each task did its work in this round
    jumped,     \* how often a condition task chose each task in this round
    threw,      \* some task threw
    late,       \* how many tasks each worker ran after the topology was cancelled
    round,      \* rounds begun; more than Rounds when the topology is finished
    wpc, node, cache, k, got, conds     \* a worker inside _invoke

faultVars == <<raised, stored, threw>>
semVars == <<value, waiters>>
workerVars == <<node, cache, k, got, conds>>
historyVars == <<ran, late, jumped, round>>
vars == <<g, join, cancelled, faultVars, preempted, scheduled, semVars, historyVars, wpc, workerVars>>

WorkerPC == {"idle", "begin", "acquire", "rollback", "requeue", "run", "raise", "store",
             "release", "wake", "reset", "countOff", "jump", "tearDown"}

TypeOK ==
    /\ join \in [Node \cup {Top} -> Nat]
    /\ cancelled \in SUBSET (Node \cup {Top})
    /\ raised \in BOOLEAN /\ stored \in BOOLEAN /\ threw \in BOOLEAN
    /\ preempted \in SUBSET Node
    /\ scheduled \in [Node -> Nat]
    /\ value \in [Sem -> Nat] /\ \A s \in Sem : value[s] <= MaxValue[s]
    /\ waiters \in [Sem -> Seq(Node)]
    /\ ran \in [Node -> Nat] /\ late \in [Worker -> Nat] /\ jumped \in [Node -> Nat] /\ round \in 1 .. Rounds + 1
    /\ wpc \in [Worker -> WorkerPC]
    /\ node \in [Worker -> Node \cup {NoNode}] /\ cache \in [Worker -> Node \cup {NoNode}]
    /\ k \in [Worker -> Nat]
    /\ got \in [Worker -> Seq(Node)] /\ conds \in [Worker -> SUBSET Node]

----------------------------------------------------------------------------
(* The graph *)

Graph(p) == {n \in Node : g.parent[n] = p}
IsConditioner(n) == g.kind[n] \in {"condition", "multi"}

Edges(m, n) == {i \in 1 .. Len(g.succ[m]) : g.succ[m][i] = n}
Predecessors(n) == {m \in Node : Edges(m, n) # {}}

\* A faulty StrongDependencies: weak dependencies count too.
AllDependencies(n) ==
    Cardinality(UNION {{m} \X Edges(m, n) : m \in Predecessors(n)})

\* num_predecessors - num_weak_dependencies
StrongDependencies(n) ==
    Cardinality(UNION {{m} \X Edges(m, n) : m \in {p \in Predecessors(n) : ~IsConditioner(p)}})

\* A faulty Sources: a task that only conditions lead to starts with the graph.
UnconditionalSources(p) == {n \in Graph(p) : StrongDependencies(n) = 0}

Sources(p) == {n \in Graph(p) : Predecessors(n) = {}}

IsCancelled(n) == Top \in cancelled \/ g.parent[n] \in cancelled

\* All the graphs a task is nested in, up to the topology.
Ancestors(n) ==
    LET up[m \in Node \cup {Top}] == IF m = Top THEN {} ELSE {m} \cup up[g.parent[m]]
    IN  {Top} \cup up[n]

----------------------------------------------------------------------------
(* Shared steps.  They constrain the variables they name and no other. *)

Goto(w, l) == wpc' = [wpc EXCEPT ![w] = l]

Once(S) == [n \in Node |-> IF n \in S THEN 1 ELSE 0]
Schedule(b) == scheduled' = [n \in Node |-> scheduled[n] + b[n]]
Occurrences(s) == [n \in Node |-> Cardinality({i \in 1 .. Len(s) : s[i] = n})]

\* _set_up_graph of p's graph: every task's state is reset, and p counts the
\* sources, which are scheduled.
SetUpGraph(p, base) ==
    /\ join' = [n \in Node \cup {Top} |->
                  IF n = p THEN base + Cardinality(Sources(p))
                  ELSE IF n \in Graph(p) THEN StrongDependencies(n) ELSE join[n]]
    /\ preempted' = (preempted \ Graph(p)) \cup ({p} \cap Node)
    /\ cancelled' = cancelled \ Graph(p)
    /\ Schedule(Once(Sources(p)))

\* A worker continues with the cached task, or is done with this call.
Continue(w, c) ==
    /\ node' = [node EXCEPT ![w] = c]
    /\ cache' = [cache EXCEPT ![w] = NoNode]
    /\ k' = [k EXCEPT ![w] = 0]
    /\ Goto(w, IF c = NoNode THEN "idle" ELSE "begin")

\* _update_cache: a task that was cached before goes to the queue.
UpdateCache(w, n) ==
    /\ Schedule(Once({cache[w]}))
    /\ cache' = [cache EXCEPT ![w] = n]

\* Semaphore::_release: one unit back, and all waiters out.
ReleaseOne(w, s) ==
    /\ value' = [value EXCEPT ![s] = @ + 1]
    /\ waiters' = [waiters EXCEPT ![s] = <<>>]
    /\ got' = [got EXCEPT ![w] = @ \o waiters[s]]

\* Where a worker goes when the task's work is done.
AfterWork(n) == IF g.release[n] # <<>> THEN "release" ELSE "reset"

Init ==
    /\ g \in Shapes
    /\ join = [n \in Node \cup {Top} |->
                 IF n = Top THEN Cardinality(Sources(Top)) ELSE StrongDependencies(n)]
    /\ cancelled = {} /\ raised = FALSE /\ stored = FALSE /\ threw = FALSE
    /\ preempted = {} /\ scheduled = Once(Sources(Top))
    /\ value = MaxValue /\ waiters = [s \in Sem |-> <<>>]
    /\ ran = [n \in Node |-> 0] /\ jumped = [n \in Node |-> 0] /\ round = 1
    /\ late = [w \in Worker |-> 0]
    /\ wpc = [w \in Worker |-> "idle"]
    /\ node = [w \in Worker |-> NoNode] /\ cache = [w \in Worker |-> NoNode]
    /\ k = [w \in Worker |-> 0]
    /\ got = [w \in Worker |-> <<>>] /\ conds = [w \in Worker |-> {}]

----------------------------------------------------------------------------
(* A worker takes a task and decides whether it runs *)

Take(w, n) ==
    /\ wpc[w] = "idle" /\ scheduled[n] > 0
    /\ scheduled' = [scheduled EXCEPT ![n] = @ - 1]
    /\ node' = [node EXCEPT ![w] = n]
    /\ Goto(w, "begin")
    /\ UNCHANGED <<g, join, cancelled, faultVars, preempted, semVars, historyVars,
                   cache, k, got, conds>>

\* A faulty Begin: a cancelled task runs.
BeginAnyway(w) ==
    LET n == node[w] IN
    /\ wpc[w] = "begin"
    /\ k' = [k EXCEPT ![w] = 1]
    /\ Goto(w, IF n \notin preempted /\ g.acquire[n] # <<>> THEN "acquire" ELSE "run")
    /\ UNCHANGED <<g, join, cancelled, faultVars, preempted, scheduled, semVars,
                   historyVars, node, cache, got, conds>>

\* A module that was preempted resumes; a task of a cancelled graph is torn down.
Begin(w) ==
    LET n == node[w] IN
    /\ wpc[w] = "begin"
    /\ k' = [k EXCEPT ![w] = 1]
    /\ Goto(w, IF n \in preempted THEN "run"
               ELSE IF IsCancelled(n) THEN "tearDown"
               ELSE IF g.acquire[n] # <<>> THEN "acquire" ELSE "run")
    /\ UNCHANGED <<g, join, cancelled, faultVars, preempted, scheduled, semVars,
                   historyVars, node, cache, got, conds>>

\* _acquire_all: one semaphore after the other.  A task that finds one exhausted is
\* left among its waiters.
Acquire(w) ==
    LET n == node[w]
        s == g.acquire[n][k[w]]
    IN
    /\ wpc[w] = "acquire"
    /\ IF value[s] > 0
         THEN /\ value' = [value EXCEPT ![s] = @ - 1]
              /\ IF k[w] = Len(g.acquire[n])
                   THEN Goto(w, "run") /\ UNCHANGED k
                   ELSE k' = [k EXCEPT ![w] = @ + 1] /\ UNCHANGED wpc
              /\ UNCHANGED waiters
         ELSE /\ waiters' = [waiters EXCEPT ![s] = Append(@, n)]
              /\ k' = [k EXCEPT ![w] = @ - 1]
              /\ Goto(w, IF k[w] > 1 THEN "rollback" ELSE "requeue")
              /\ UNCHANGED value
    /\ UNCHANGED <<g, join, cancelled, faultVars, preempted, scheduled, historyVars,
                   node, cache, got, conds>>

\* The semaphores acquired before are given back, the last one first.
Rollback(w) ==
    /\ wpc[w] = "rollback"
    /\ ReleaseOne(w, g.acquire[node[w]][k[w]])
    /\ IF k[w] > 1 THEN k' = [k EXCEPT ![w] = @ - 1] /\ UNCHANGED wpc
                   ELSE Goto(w, "requeue") /\ UNCHANGED k
    /\ UNCHANGED <<g, join, cancelled, faultVars, preempted, scheduled, historyVars,
                   node, cache, conds>>

\* The tasks that waited for them are scheduled, and the call returns.
Requeue(w) ==
    /\ wpc[w] = "requeue"
    /\ Schedule(Occurrences(got[w]))
    /\ got' = [got EXCEPT ![w] = <<>>]
    /\ Continue(w, NoNode)
    /\ UNCHANGED <<g, join, cancelled, faultVars, preempted, semVars, historyVars, conds>>

----------------------------------------------------------------------------
(* The work of a task *)

Worked(w) ==
    /\ ran' = [ran EXCEPT ![node[w]] = @ + 1]
    /\ late' = IF Top \in cancelled /\ g.kind[node[w]] # "module"
                 THEN [late EXCEPT ![w] = @ + 1] ELSE late

\* Any task may throw instead of returning; a condition then chooses nothing.
Throw(w) ==
    /\ wpc[w] = "run" /\ g.kind[node[w]] # "module"
    /\ Worked(w)
    /\ threw' = TRUE
    /\ Goto(w, "raise")
    /\ UNCHANGED <<g, join, cancelled, raised, stored, preempted, scheduled, semVars,
                   jumped, round, workerVars>>

RunStatic(w) ==
    /\ wpc[w] = "run" /\ g.kind[node[w]] = "static"
    /\ Worked(w)
    /\ k' = [k EXCEPT ![w] = 1]
    /\ Goto(w, AfterWork(node[w]))
    /\ UNCHANGED <<g, join, cancelled, faultVars, preempted, scheduled, semVars,
                   jumped, round, node, cache, got, conds>>

\* A condition returns the index of a successor, or one out of range; a
\* multi-condition returns several.
RunCondition(w) ==
    LET n == node[w] IN
    /\ wpc[w] = "run" /\ IsConditioner(n)
    /\ \E C \in SUBSET ToSet(g.succ[n]) :
         /\ g.kind[n] = "condition" => Cardinality(C) <= 1
         /\ \A s \in C : jumped[s] < MaxJumps
         /\ conds' = [conds EXCEPT ![w] = C]
    /\ Worked(w)
    /\ k' = [k EXCEPT ![w] = 1]
    /\ Goto(w, AfterWork(n))
    /\ UNCHANGED <<g, join, cancelled, faultVars, preempted, scheduled, semVars,
                   jumped, round, node, cache, got>>

\* A module schedules its graph and returns to its worker ...
EnterModule(w) ==
    LET n == node[w] IN
    /\ wpc[w] = "run" /\ g.kind[n] = "module"
    /\ n \notin preempted /\ Graph(n) # {}
    /\ SetUpGraph(n, join[n])
    /\ Continue(w, NoNode)
    /\ UNCHANGED <<g, faultVars, semVars, historyVars, got, conds>>

\* ... and is invoked again when that is finished.  An empty module does nothing.
ResumeModule(w) ==
    LET n == node[w] IN
    /\ wpc[w] = "run" /\ g.kind[n] = "module"
    /\ n \in preempted \/ Graph(n) = {}
    /\ preempted' = preempted \ {n}
    /\ Worked(w)
    /\ k' = [k EXCEPT ![w] = 1]
    /\ Goto(w, AfterWork(n))
    /\ UNCHANGED <<g, join, cancelled, faultVars, scheduled, semVars, jumped, round,
                   node, cache, got, conds>>

\* A faulty Raise: only an exception after the first is kept.
RaiseKeepsLater(w) ==
    /\ wpc[w] = "raise"
    /\ cancelled' = cancelled \cup Ancestors(node[w])
    /\ raised' = TRUE
    /\ k' = [k EXCEPT ![w] = 1]
    /\ Goto(w, IF raised THEN "store" ELSE AfterWork(node[w]))
    /\ UNCHANGED <<g, join, stored, threw, preempted, scheduled, semVars, historyVars,
                   node, cache, got, conds>>

\* _process_exception: the task, the modules around it and the topology are
\* cancelled, and the first exception is kept.
Raise(w) ==
    /\ wpc[w] = "raise"
    /\ cancelled' = cancelled \cup Ancestors(node[w])
    /\ raised' = TRUE
    /\ k' = [k EXCEPT ![w] = 1]
    /\ Goto(w, IF raised THEN AfterWork(node[w]) ELSE "store")
    /\ UNCHANGED <<g, join, stored, threw, preempted, scheduled, semVars, historyVars,
                   node, cache, got, conds>>

Store(w) ==
    /\ wpc[w] = "store"
    /\ stored' = TRUE
    /\ Goto(w, AfterWork(node[w]))
    /\ UNCHANGED <<g, join, cancelled, raised, threw, preempted, scheduled, semVars,
                   historyVars, workerVars>>

----------------------------------------------------------------------------
(* After the work *)

\* _release_all, and the tasks that waited are scheduled.
Release(w) ==
    LET n == node[w] IN
    /\ wpc[w] = "release"
    /\ ReleaseOne(w, g.release[n][k[w]])
    /\ k' = [k EXCEPT ![w] = @ + 1]
    /\ Goto(w, IF k[w] = Len(g.release[n]) THEN "wake" ELSE "release")
    /\ UNCHANGED <<g, join, cancelled, faultVars, preempted, scheduled, historyVars,
                   node, cache, conds>>

\* A faulty Wake: the tasks that waited are forgotten.
WakeNobody(w) ==
    /\ wpc[w] = "wake"
    /\ got' = [got EXCEPT ![w] = <<>>]
    /\ Goto(w, "reset")
    /\ UNCHANGED <<g, join, cancelled, faultVars, preempted, scheduled, semVars,
                   historyVars, node, cache, k, conds>>

Wake(w) ==
    /\ wpc[w] = "wake"
    /\ Schedule(Occurrences(got[w]))
    /\ got' = [got EXCEPT ![w] = <<>>]
    /\ Goto(w, "reset")
    /\ UNCHANGED <<g, join, cancelled, faultVars, preempted, semVars, historyVars,
                   node, cache, k, conds>>

\* The join counter is restored before any successor can come back to the task.
Reset(w) ==
    LET n == node[w] IN
    /\ wpc[w] = "reset"
    /\ join' = [join EXCEPT ![n] = @ + StrongDependencies(n)]
    /\ k' = [k EXCEPT ![w] = 1]
    /\ Goto(w, IF IsConditioner(n) THEN "jump" ELSE "countOff")
    /\ UNCHANGED <<g, cancelled, faultVars, preempted, scheduled, semVars, historyVars,
                   node, cache, got, conds>>

\* A successor that has lost its last dependency is in flight.
CountOff(w) ==
    LET n == node[w]
        s == g.succ[n][k[w]]
    IN
    /\ wpc[w] = "countOff" /\ k[w] <= Len(g.succ[n])
    /\ IF join[s] = 1
         THEN /\ join' = [join EXCEPT ![s] = 0, ![g.parent[n]] = @ + 1]
              /\ UpdateCache(w, s)
         ELSE /\ join' = [join EXCEPT ![s] = @ - 1]
              /\ UNCHANGED <<scheduled, cache>>
    /\ k' = [k EXCEPT ![w] = @ + 1]
    /\ UNCHANGED <<g, cancelled, faultVars, preempted, semVars, historyVars, wpc, node,
                   got, conds>>

\* A chosen successor is scheduled whatever its counter says.
Jump(w) ==
    \E s \in conds[w] :
        /\ wpc[w] = "jump"
        /\ join' = [join EXCEPT ![s] = 0, ![g.parent[node[w]]] = @ + 1]
        /\ UpdateCache(w, s)
        /\ conds' = [conds EXCEPT ![w] = @ \ {s}]
        /\ jumped' = [jumped EXCEPT ![s] = @ + 1]
        /\ UNCHANGED <<g, cancelled, faultVars, preempted, semVars, ran, late, round, wpc,
                       node, k, got>>

SuccessorsDone(w) ==
    \/ wpc[w] = "countOff" /\ k[w] > Len(g.succ[node[w]])
    \/ wpc[w] = "jump" /\ conds[w] = {}
    \/ wpc[w] = "tearDown"

\* A faulty LeaveModule: the first task that is done resumes the module.
LeaveModuleEarly(w) ==
    LET p == g.parent[node[w]] IN
    /\ SuccessorsDone(w) /\ p # Top
    /\ join' = [join EXCEPT ![p] = @ - 1]
    /\ Schedule(Once({cache[w]}))
    /\ Continue(w, p)
    /\ UNCHANGED <<g, cancelled, faultVars, preempted, semVars, historyVars, got, conds>>

\* _tear_down_nonasync of a task in a module: the last one resumes the module.
LeaveModule(w) ==
    LET p == g.parent[node[w]] IN
    /\ SuccessorsDone(w) /\ p # Top
    /\ join' = [join EXCEPT ![p] = @ - 1]
    /\ IF join[p] = 1 /\ p \in preempted
         THEN /\ Schedule(Once({cache[w]}))
              /\ Continue(w, p)
         ELSE Continue(w, cache[w]) /\ UNCHANGED scheduled
    /\ UNCHANGED <<g, cancelled, faultVars, preempted, semVars, historyVars, got, conds>>

\* _tear_down_nonasync of a task of the topology, not the last one.
LeaveTopology(w) ==
    /\ SuccessorsDone(w) /\ g.parent[node[w]] = Top /\ join[Top] > 1
    /\ join' = [join EXCEPT ![Top] = @ - 1]
    /\ Continue(w, cache[w])
    /\ UNCHANGED <<g, cancelled, faultVars, preempted, scheduled, semVars, historyVars,
                   got, conds>>

\* The last one: the topology runs its graph again, or is finished.
FinishRound(w) ==
    /\ SuccessorsDone(w) /\ g.parent[node[w]] = Top /\ join[Top] = 1
    /\ IF round < Rounds /\ ~stored /\ Top \notin cancelled
         THEN /\ SetUpGraph(Top, 0)
              /\ ran' = [n \in Node |-> 0] /\ jumped' = [n \in Node |-> 0]
              /\ round' = round + 1
         ELSE /\ join' = [join EXCEPT ![Top] = 0]
              /\ round' = Rounds + 1
              /\ UNCHANGED <<preempted, cancelled, scheduled, ran, jumped>>
    /\ Continue(w, cache[w])
    /\ UNCHANGED <<g, faultVars, semVars, late, got, conds>>

\* Future::cancel.
CancelTopology ==
    /\ round <= Rounds /\ Top \notin cancelled
    /\ cancelled' = cancelled \cup {Top}
    /\ UNCHANGED <<g, join, faultVars, preempted, scheduled, semVars, historyVars, wpc,
                   workerVars>>

WorkerStep(w) ==
    \/ \E n \in Node : Take(w, n)
    \/ Begin(w) \/ Acquire(w) \/ Rollback(w) \/ Requeue(w)
    \/ Throw(w) \/ RunStatic(w) \/ RunCondition(w) \/ EnterModule(w) \/ ResumeModule(w)
    \/ Raise(w) \/ Store(w) \/ Release(w) \/ Wake(w) \/ Reset(w)
    \/ CountOff(w) \/ Jump(w)
    \/ LeaveModule(w) \/ LeaveTopology(w) \/ FinishRound(w)

Next == CancelTopology \/ \E w \in Worker : WorkerStep(w)

Spec == Init /\ [][Next]_vars

\* Workers do not stop, and tasks return.
FairSpec == Spec /\ \A w \in Worker : WF_vars(WorkerStep(w))
----------------------------------------------------------------------------
(* Properties *)

Finished == round > Rounds

\* Where a task that is in flight is: scheduled, with a worker, cached, waiting
\* for a semaphore or just released from it, or suspended while its graph runs.
\* A worker that gives back the semaphores it got no longer has the task.
With(w, n) == node[w] = n /\ wpc[w] \notin {"idle", "rollback", "requeue"}
Suspended(n) == n \in preempted /\ join[n] > 0
Count(s, n) == Cardinality({i \in 1 .. Len(s) : s[i] = n})
Places(n) ==
      scheduled[n]
    + Cardinality({w \in Worker : With(w, n)}) + Cardinality({w \in Worker : cache[w] = n})
    + MapThenSumSet(LAMBDA w : Count(got[w], n), Worker)
    + MapThenSumSet(LAMBDA s : Count(waiters[s], n), Sem)
    + (IF Suspended(n) THEN 1 ELSE 0)

\* How often a task may have run: once for each jump to it, and once if it is a
\* source, or each time that all of its strong dependencies have.
Due(n) ==
    LET strong == {p \in Predecessors(n) : ~IsConditioner(p)}
        entered == IF g.parent[n] = Top THEN 1
                   ELSE ran[g.parent[n]] + (IF g.parent[n] \in preempted THEN 1 ELSE 0)
    IN jumped[n] + IF Predecessors(n) = {} THEN entered
                   ELSE IF strong = {} THEN 0 ELSE Min({ran[p] : p \in strong})

\* The semaphores a worker's task has acquired and not released.
Acquired(w) ==
    LET n == node[w]
        all == g.acquire[n]
    IN CASE wpc[w] = "acquire" -> SubSeq(all, 1, k[w] - 1)
         [] wpc[w] = "rollback" -> SubSeq(all, 1, k[w])
         [] wpc[w] \in {"run", "raise", "store"} -> all
         [] wpc[w] = "begin" /\ n \in preempted -> all
         [] wpc[w] = "release" -> SubSeq(g.release[n], k[w], Len(g.release[n]))
         [] OTHER -> <<>>

\* No task is in two places: it is never run by two workers, nor run again while
\* it is still in flight, however its dependencies race (_invoke).
InOnePlace == \A n \in Node : Places(n) <= 1

\* A topology's counter, and a suspended module's, is the number of tasks of its
\* graph that are in flight: it reaches zero when the last one is done, and not
\* before (_root_join_counter, _tear_down_nonasync).
RootCounterExact ==
    \A p \in preempted \cup {Top} :
        join[p] = MapThenSumSet(Places, Graph(p))

\* A semaphore's units are accounted for: with tasks that release what they
\* acquire, no more of them run than its maximum value (_acquire_all, _release_all).
UnitsExact ==
    \A s \in Sem :
        value[s] + MapThenSumSet(LAMBDA w : IF wpc[w] = "idle" THEN 0 ELSE Count(Acquired(w), s), Worker)
                 + MapThenSumSet(LAMBDA n : Count(g.acquire[n], s), {n \in Node : Suspended(n)})
        = MaxValue[s]

\* A topology that is not finished has a task in the queues or with a worker: what
\* waits for a semaphore is woken by someone who still acts (_try_acquire_or_wait).
NeverAllWaiting ==
    Finished \/ (\E n \in Node : scheduled[n] > 0) \/ \E w \in Worker : wpc[w] # "idle"

\* The queues, the workers, the semaphores and the counters agree.
Consistent == TypeOK /\ InOnePlace /\ RootCounterExact /\ UnitsExact /\ NeverAllWaiting

\* A task runs only after its strong dependencies, once for each time they all ran
\* or a condition chose it.
RunsAfterPredecessors ==
    \A n \in Node : g.parent[n] # NoNode => ran[n] <= Due(n)

\* A topology that was not cancelled has run everything that was due.
NothingSkipped ==
    Finished /\ Top \notin cancelled =>
        \A n \in Node : g.parent[n] # NoNode => ran[n] = Due(n)

\* When any task threw, the topology holds an exception at the end, and only then.
ExceptionKept == Finished => (stored <=> threw)

\* "the executor will stop scheduling any tasks onwards. Tasks that are already
\* running will continue to finish" (taskflow.h:642): a worker finishes at most
\* the task it had.
CancelStops == \A w \in Worker : late[w] <= 1

\* "block until the execution completes" (executor.h:40): when the topology is
\* finished no worker is inside the invocation of one of its tasks.
AllReturned ==
    Finished => \A w \in Worker : wpc[w] \in {"idle", "requeue"}

\* Two tasks acquire two semaphores in opposite orders: they can undo each other, for
\* as long as each takes its first one before the other is done giving it back.
Crossed ==
    \E m, n \in Node : \E i, j \in DOMAIN g.acquire[m] : \E x, y \in DOMAIN g.acquire[n] :
        /\ i < j /\ y < x
        /\ g.acquire[m][i] = g.acquire[n][x] /\ g.acquire[m][j] = g.acquire[n][y]

\* Every topology finishes, unless its tasks go for the same semaphores crosswise.
Finishes == <>(Finished \/ Crossed)

\* "You can call xthread::Future::wait to wait for the cancellation to complete"
\* (taskflow.h:644): a run that is cancelled, and in which nothing is thrown, ends.
CancellationCompletes == (Top \in cancelled /\ ~threw) ~> (Finished \/ threw)

=============================================================================
