-------------------------- MODULE TaskGraphProofs ---------------------------
(***************************************************************************)
(* The theorems of TaskGraph, for any number of tasks, workers,            *)
(* semaphores and rounds.  That cancellation stops every worker is proved  *)
(* of all graphs; that tasks run in order, that none is skipped, that an   *)
(* exception is kept and that a task is at one place are proved of graphs  *)
(* without condition tasks, with modules inside modules, semaphores and    *)
(* exceptions.                                                             *)
(*                                                                         *)
(* The invariant has two layers.  Placed says where tasks are: each at one *)
(* place at most, and what its place says of it.  Flow says what the       *)
(* counters mean: a task's join counter is the number of its incoming      *)
(* edges not counted off yet, plus all of them once it was restored; that  *)
(* of a topology or a module is the number of tasks of its graph in        *)
(* flight.  Every action is first shown to keep Placed and to be, as far   *)
(* as Flow can tell, one of eight kinds of steps; then each kind is shown  *)
(* to keep Flow.                                                           *)
(***************************************************************************)
EXTENDS TaskGraph, FiniteSetTheorems, SequenceTheorems, WellFoundedInduction, TLAPS

(* Cancellation *)

\* A worker has finished at most one task since the topology was cancelled, and if it
\* has, it is past the work of that task.
CancelInv ==
    /\ wpc \in [Worker -> WorkerPC] /\ node = [w \in Worker |-> node[w]]
    /\ late \in [Worker -> {0, 1}]
    /\ \A n \in preempted : g.kind[n] = "module"
    /\ \A w \in Worker : late[w] = 1 =>
          /\ Top \in cancelled
          /\ wpc[w] \in {"acquire", "run"} => g.kind[node[w]] = "module"

LEMMA CancelInit == GraphAssumption /\ Init => CancelInv
BY DEF Init, CancelInv, WorkerPC

LEMMA CancelNext == ASSUME GraphAssumption, CancelInv, Next PROVE CancelInv'
<1>1. CASE CancelTopology BY <1>1 DEF CancelTopology, CancelInv, historyVars, workerVars
<1>2. ASSUME NEW w \in Worker, WorkerStep(w) PROVE CancelInv'
  <2>1. CASE \E n \in Node : Take(w, n) BY <2>1 DEF Take, CancelInv, Goto, historyVars, WorkerPC
  <2>2. CASE Begin(w) BY <2>2 DEF Begin, CancelInv, Goto, historyVars, WorkerPC, IsCancelled
  <2>3. CASE Acquire(w) BY <2>3 DEF Acquire, CancelInv, Goto, historyVars, WorkerPC
  <2>4. CASE Rollback(w) BY <2>4 DEF Rollback, CancelInv, Goto, historyVars, WorkerPC
  <2>5. CASE Requeue(w) BY <2>5 DEF Requeue, CancelInv, Goto, historyVars, WorkerPC, Continue
  <2>6. CASE Throw(w) BY <2>6 DEF Throw, Worked, CancelInv, Goto, historyVars, WorkerPC, workerVars
  <2>7. CASE RunStatic(w) BY <2>7 DEF RunStatic, Worked, CancelInv, Goto, AfterWork, WorkerPC
  <2>8. CASE RunCondition(w)
    BY <2>8 DEF RunCondition, Worked, CancelInv, Goto, AfterWork, WorkerPC, IsConditioner
  <2>9. CASE EnterModule(w)
    BY <2>9 DEF EnterModule, SetUpGraph, CancelInv, Goto, Continue, WorkerPC, historyVars, GraphAssumption, Graph
  <2>10. CASE ResumeModule(w)
    BY <2>10 DEF ResumeModule, Worked, CancelInv, Goto, AfterWork, WorkerPC, historyVars
  <2>11. CASE Raise(w) BY <2>11 DEF Raise, CancelInv, Goto, AfterWork, WorkerPC, historyVars
  <2>12. CASE Store(w)
    BY <2>12 DEF Store, CancelInv, Goto, AfterWork, WorkerPC, historyVars, workerVars
  <2>13. CASE Release(w) BY <2>13 DEF Release, CancelInv, Goto, WorkerPC, historyVars
  <2>14. CASE Wake(w) BY <2>14 DEF Wake, CancelInv, Goto, WorkerPC, historyVars
  <2>15. CASE Reset(w) BY <2>15 DEF Reset, CancelInv, Goto, WorkerPC, historyVars
  <2>16. CASE CountOff(w) BY <2>16 DEF CountOff, CancelInv, historyVars
  <2>17. CASE Jump(w)
    <3>1. UNCHANGED <<g, cancelled, preempted, late, wpc, node>> BY <2>17 DEF Jump
    <3> QED BY <3>1 DEF CancelInv
  <2>18. CASE LeaveModule(w)
    BY <2>18 DEF LeaveModule, CancelInv, Continue, Goto, WorkerPC, historyVars
  <2>19. CASE LeaveTopology(w)
    BY <2>19 DEF LeaveTopology, CancelInv, Continue, Goto, WorkerPC, historyVars
  <2>20. CASE FinishRound(w)
    BY <2>20 DEF FinishRound, SetUpGraph, CancelInv, Continue, Goto, WorkerPC, GraphAssumption, Graph
  <2> QED BY <1>2, <2>1, <2>2, <2>3, <2>4, <2>5, <2>6, <2>7, <2>8, <2>9, <2>10, <2>11, <2>12,
       <2>13, <2>14, <2>15, <2>16, <2>17, <2>18, <2>19, <2>20 DEF WorkerStep
<1> QED BY <1>1, <1>2 DEF Next

LEMMA CancelStutter == ASSUME CancelInv, UNCHANGED vars PROVE CancelInv'
BY DEF CancelInv, vars, historyVars, workerVars

\* "The executor will stop scheduling any tasks onwards" (taskflow.h): whatever the
\* graph, each worker finishes at most the task it had when Future::cancel came.
THEOREM CancelStopsAlways == Spec => []CancelStops
<1>1. Init => CancelInv BY CancelInit, GraphAssumption
<1>2. CancelInv /\ [Next]_vars => CancelInv' BY CancelNext, CancelStutter, GraphAssumption
<1>3. CancelInv => CancelStops BY DEF CancelInv, CancelStops
<1> QED BY <1>1, <1>2, <1>3, PTL DEF Spec

-----------------------------------------------------------------------------
(* Graphs without conditions *)

\* No condition tasks; edges lead from a task of a graph to one of the same graph;
\* graphs are nested in module tasks.
Plain(s) ==
    /\ \A n \in Node : s.kind[n] \in {"static", "module"}
    /\ \A m \in Node : \A i \in 1 .. Len(s.succ[m]) :
          s.parent[m] # NoNode /\ s.parent[s.succ[m][i]] = s.parent[m]
    /\ \A n \in Node : s.parent[n] \in Node => s.kind[s.parent[n]] = "module"
    /\ \E depth \in [Node -> Nat] :
          \A n \in Node : s.parent[n] \in Node => depth[s.parent[n]] < depth[n]

\* A worker that has not done the work of its task yet.
Earlier == {"begin", "acquire", "run", "tearDown"}

\* The c-th entry for a task at a place of the kind a, with the worker or the
\* semaphore b.
Here(n, a, b, c) ==
    \/ a = "queue" /\ b = 0 /\ c \in 1 .. scheduled[n]
    \/ a = "worker" /\ b \in Worker /\ c = 0 /\ With(b, n)
    \/ a = "cache" /\ b \in Worker /\ c = 0 /\ cache[b] = n
    \/ a = "got" /\ b \in Worker /\ c \in 1 .. Len(got[b]) /\ got[b][c] = n
    \/ a = "waits" /\ b \in Sem /\ c \in 1 .. Len(waiters[b]) /\ waiters[b][c] = n

Live(n) == \E a, b, c : Here(n, a, b, c)
InFlight(n) == n \in preempted \/ Live(n)

Types ==
    /\ g \in Shapes
    /\ join \in [Node \cup {Top} -> Int]
    /\ preempted \subseteq Node
    /\ scheduled \in [Node -> Nat]
    /\ waiters \in [Sem -> Seq(Node)]
    /\ ran \in [Node -> {0, 1}]
    /\ round \in Nat
    /\ wpc \in [Worker -> WorkerPC]
    /\ node \in [Worker -> Node \cup {NoNode}] /\ cache \in [Worker -> Node \cup {NoNode}]
    /\ k \in [Worker -> Nat]
    /\ got \in [Worker -> Seq(Node)] /\ conds = [w \in Worker |-> {}]
    /\ jumped = [n \in Node |-> 0]

Alones ==
    \A n \in Node : \A a, b, c, d, e, f :
        Here(n, a, b, c) /\ Here(n, d, e, f) => a = d /\ b = e /\ c = f

\* What a worker's place in _invoke says.
WorkerOK(w) ==
    /\ wpc[w] # "jump"
    /\ wpc[w] # "idle" => node[w] \in Node
    /\ wpc[w] \in {"acquire", "rollback"} => k[w] \in 1 .. Len(g.acquire[node[w]])
    /\ wpc[w] = "release" => k[w] \in 1 .. Len(g.release[node[w]])
    /\ wpc[w] = "countOff" => k[w] > 0
    /\ wpc[w] = "store" => k[w] = 1
    /\ cache[w] # NoNode => wpc[w] = "countOff" /\ g.parent[cache[w]] = g.parent[node[w]]
    /\ got[w] # <<>> => wpc[w] \in {"rollback", "requeue", "release", "wake"}
    /\ wpc[w] = "tearDown" => Top \in cancelled

Workers == \A w \in Worker : WorkerOK(w)

\* A module whose graph runs is nowhere else, and is resumed when that is done.
Modules ==
    \A n \in preempted :
        /\ g.kind[n] = "module" /\ ran[n] = 0
        /\ \A a, b, c : Here(n, a, b, c) => a = "worker" /\ wpc[b] \in {"begin", "run"} /\ join[n] = 0

\* A task in flight did its work when a worker is past that with it, and not before.
Works ==
    \A n \in Node : \A a, b, c : Here(n, a, b, c) =>
        IF a = "worker" THEN ran[n] = 1 <=> wpc[b] \notin Earlier ELSE ran[n] = 0

Cancels == cancelled # {} => Top \in cancelled

Placed == Types /\ Alones /\ Workers /\ Modules /\ Works /\ Cancels

\* The edge of task m at index i was counted off, and m's own counter restored.
CountedOff(m, i) ==
    /\ ran[m] = 1
    /\ \A w \in Worker : With(w, m) => wpc[w] = "countOff" /\ i < k[w]
WasReset(m) == ran[m] = 1 /\ \A w \in Worker : With(w, m) => wpc[w] = "countOff"

\* The edges that lead to a task, and those not counted off.
In(n) == UNION {{m} \X Edges(m, n) : m \in Predecessors(n)}
Left(n) == {e \in In(n) : ~CountedOff(e[1], e[2])}

Active(p) == p = Top \/ p \in preempted
Entered(n) == Active(g.parent[n]) \/ (g.parent[n] \in Node /\ ran[g.parent[n]] = 1)
Flying(p) == {n \in Graph(p) : InFlight(n)}

Flights == \A n \in Node : InFlight(n) => round <= Rounds /\ Active(g.parent[n])
Rans    == \A n \in Node : ran[n] = 1 => Entered(n)
Befores == \A n \in Node : InFlight(n) \/ ran[n] = 1 => Left(n) = {}
Counted == \A p \in preempted \cup {Top} : join[p] = Cardinality(Flying(p))
Joins ==
    \A n \in Node : Active(g.parent[n]) /\ n \notin preempted =>
        join[n] = Cardinality(Left(n)) + (IF WasReset(n) THEN StrongDependencies(n) ELSE 0)

\* Nothing that can run is left behind by a run that was not cancelled.
Skips ==
    Top \notin cancelled =>
        \A n \in Node : Entered(n) /\ Left(n) = {} /\ ~InFlight(n) => ran[n] = 1

Flow == Flights /\ Rans /\ Befores /\ Counted /\ Joins /\ Skips

\* Who has seen an exception.
Thrown ==
    /\ \A w \in Worker : wpc[w] \in {"raise", "store"} => threw
    /\ stored => raised
    /\ \A w \in Worker : wpc[w] = "store" => raised
    /\ raised => threw
    /\ threw => raised \/ \E w \in Worker : wpc[w] = "raise"
    /\ raised => stored \/ \E w \in Worker : wpc[w] = "store"

IInv == Placed /\ Flow /\ Thrown
Hyps == GraphAssumption /\ Plain(g)

-----------------------------------------------------------------------------
(* Where tasks are *)

\* A task that is at one place is at no other.
LEMMA Only ==
    ASSUME Alones, NEW n \in Node, NEW x, NEW y, NEW z, Here(n, x, y, z)
    PROVE  /\ \A j \in 1 .. scheduled[n] : x = "queue" /\ y = 0 /\ z = j
           /\ \A w \in Worker : With(w, n) => x = "worker" /\ y = w /\ z = 0
           /\ \A w \in Worker : cache[w] = n => x = "cache" /\ y = w /\ z = 0
           /\ \A w \in Worker : \A i \in 1 .. Len(got[w]) :
                 got[w][i] = n => x = "got" /\ y = w /\ z = i
           /\ \A s \in Sem : \A i \in 1 .. Len(waiters[s]) :
                 waiters[s][i] = n => x = "waits" /\ y = s /\ z = i
<1>1. \A a, b, c : Here(n, a, b, c) => x = a /\ y = b /\ z = c BY DEF Alones
<1>2. ASSUME NEW j \in 1 .. scheduled[n] PROVE x = "queue" /\ y = 0 /\ z = j
  <2>1. Here(n, "queue", 0, j) BY <1>2 DEF Here
  <2> QED BY <1>1, <2>1
<1>3. ASSUME NEW w \in Worker, With(w, n) PROVE x = "worker" /\ y = w /\ z = 0
  <2>1. Here(n, "worker", w, 0) BY <1>3 DEF Here
  <2> QED BY <1>1, <2>1
<1>4. ASSUME NEW w \in Worker, cache[w] = n PROVE x = "cache" /\ y = w /\ z = 0
  <2>1. Here(n, "cache", w, 0) BY <1>4 DEF Here
  <2> QED BY <1>1, <2>1
<1>5. ASSUME NEW w \in Worker, NEW i \in 1 .. Len(got[w]), got[w][i] = n
      PROVE  x = "got" /\ y = w /\ z = i
  <2>1. Here(n, "got", w, i) BY <1>5 DEF Here
  <2> QED BY <1>1, <2>1
<1>6. ASSUME NEW s \in Sem, NEW i \in 1 .. Len(waiters[s]), waiters[s][i] = n
      PROVE  x = "waits" /\ y = s /\ z = i
  <2>1. Here(n, "waits", s, i) BY <1>6 DEF Here
  <2> QED BY <1>1, <2>1
<1> QED BY <1>2, <1>3, <1>4, <1>5, <1>6

\* The places of all tasks are what they were.
SameHere == \A m \in Node : \A a, b, c : Here(m, a, b, c)' <=> Here(m, a, b, c)

\* A worker stays with its task, or stays away.
LEMMA NobodyMoves ==
    ASSUME NEW w \in Worker, NEW l \in WorkerPC, Types,
           wpc' = [wpc EXCEPT ![w] = l],
           l \in {"idle", "rollback", "requeue"} <=> wpc[w] \in {"idle", "rollback", "requeue"},
           UNCHANGED <<scheduled, node, cache, got, waiters>>
    PROVE  SameHere
<1> SUFFICES ASSUME NEW m \in Node, NEW a, NEW b, NEW c
             PROVE  Here(m, a, b, c)' <=> Here(m, a, b, c) BY DEF SameHere
<1>1. \A v \in Worker : With(v, m)' <=> With(v, m) BY DEF Types, With
<1> QED BY <1>1 DEF Here

\* One task moves.
LEMMA OneMoves ==
    ASSUME Alones, NEW n \in Node, NEW x, NEW y, NEW z,
           \A m \in Node : \A a, b, c : Here(m, a, b, c)' =>
               \/ m # n /\ Here(m, a, b, c)
               \/ m = n /\ a = x /\ b = y /\ c = z
    PROVE  Alones'
BY DEF Alones

LEMMA NoneMoves ==
    ASSUME Alones, \A m \in Node : \A a, b, c : Here(m, a, b, c)' => Here(m, a, b, c)
    PROVE  Alones'
BY DEF Alones

LEMMA TakeMoves ==
    ASSUME Types, Alones, NEW w \in Worker, NEW n \in Node, Take(w, n)
    PROVE  \A m \in Node : \A a, b, c : Here(m, a, b, c)' <=>
               \/ m # n /\ Here(m, a, b, c)
               \/ m = n /\ a = "worker" /\ b = w /\ c = 0
<1>1. /\ scheduled' = [scheduled EXCEPT ![n] = @ - 1] /\ wpc[w] = "idle" /\ scheduled[n] > 0
      /\ node' = [node EXCEPT ![w] = n] /\ wpc' = [wpc EXCEPT ![w] = "begin"]
      /\ UNCHANGED <<cache, got, waiters>> BY DEF Take, Goto, semVars
<1>2. Here(n, "queue", 0, 1) BY <1>1 DEF Here, Types
<1>3. /\ \A j \in 1 .. scheduled[n] : j = 1
      /\ \A v \in Worker : ~With(v, n) /\ cache[v] # n
      /\ \A v \in Worker : \A i \in 1 .. Len(got[v]) : got[v][i] # n
      /\ \A s \in Sem : \A i \in 1 .. Len(waiters[s]) : waiters[s][i] # n BY <1>2, Only
<1>4. scheduled'[n] = 0 BY <1>1, <1>3 DEF Types
<1>5. \A v \in Worker, m \in Node : With(v, m)' <=> (v # w /\ With(v, m)) \/ (v = w /\ m = n)
  BY <1>1 DEF With, Types
<1>7. ASSUME NEW m \in Node, NEW a, NEW b, NEW c
      PROVE  Here(m, a, b, c)' <=> \/ m # n /\ Here(m, a, b, c)
                                   \/ m = n /\ a = "worker" /\ b = w /\ c = 0
  <2>1. CASE m = n BY <1>1, <1>3, <1>4, <1>5, <2>1 DEF Here
  <2>2. CASE m # n
    <3>1. scheduled'[m] = scheduled[m] BY <1>1, <2>2 DEF Types
    <3>2. b \in Worker => (With(b, m)' <=> With(b, m)) BY <1>1, <1>5, <2>2 DEF With
    <3> QED BY <1>1, <2>2, <3>1, <3>2 DEF Here
  <2> QED BY <2>1, <2>2
<1> QED BY <1>7

-----------------------------------------------------------------------------
(* What a step does to the graph, wherever the tasks are. *)

SameFlight == \A m \in Node : InFlight(m)' <=> InFlight(m)
SameCounts ==
    \A m \in Node : /\ WasReset(m)' <=> WasReset(m)
                    /\ \A i \in 1 .. Len(g.succ[m]) : CountedOff(m, i)' <=> CountedOff(m, i)
Keeps == UNCHANGED g /\ (Top \in cancelled => Top \in cancelled')

\* Nothing.
Quiet == Keeps /\ SameFlight /\ SameCounts /\ UNCHANGED <<preempted, ran, join, round>>

Away == {"idle", "rollback", "requeue"}

\* The task of a worker.
LEMMA AtWork ==
    ASSUME Placed, NEW w \in Worker, wpc[w] \notin Away
    PROVE  /\ node[w] \in Node /\ With(w, node[w]) /\ Here(node[w], "worker", w, 0)
           /\ ran[node[w]] = 1 <=> wpc[w] \notin Earlier
           /\ node[w] \in preempted => wpc[w] \in {"begin", "run"} /\ join[node[w]] = 0
           /\ \A m : With(w, m) => m = node[w]
<1>1. node[w] \in Node /\ With(w, node[w]) BY DEF Placed, Workers, WorkerOK, With, Away
<1>2. Here(node[w], "worker", w, 0) BY <1>1 DEF Here
<1> QED BY <1>1, <1>2 DEF Placed, Works, Modules, With

LEMMA CountsKept ==
    ASSUME Types, NEW w \in Worker, UNCHANGED ran,
           \A v \in Worker \ {w} : UNCHANGED <<node[v], wpc[v], k[v]>>,
           \A m \in Node : With(w, m) => ran[m] = 0 \/ wpc[w] # "countOff",
           \A m \in Node : With(w, m)' => ran[m] = 0 \/ wpc'[w] # "countOff",
           \A m \in Node : ran[m] # 0 => (With(w, m)' <=> With(w, m))
    PROVE  SameCounts
<1> SUFFICES ASSUME NEW m \in Node
             PROVE  /\ WasReset(m)' <=> WasReset(m)
                    /\ \A i : CountedOff(m, i)' <=> CountedOff(m, i) BY DEF SameCounts
<1>1. \A v \in Worker \ {w} : With(v, m)' <=> With(v, m) BY DEF With
<1>2. CASE ran[m] = 0 BY <1>2 DEF WasReset, CountedOff
<1>3. CASE ran[m] # 0 /\ With(w, m) BY <1>3 DEF WasReset, CountedOff
<1>4. CASE ran[m] # 0 /\ ~With(w, m)
  <2>1. ~With(w, m)' BY <1>4
  <2>2. WasReset(m)' <=> WasReset(m) BY <1>1, <1>4, <2>1 DEF WasReset
  <2>3. \A i : CountedOff(m, i)' <=> CountedOff(m, i) BY <1>1, <1>4, <2>1 DEF CountedOff
  <2> QED BY <2>2, <2>3
<1> QED BY <1>2, <1>3, <1>4

LEMMA FlightKept ==
    ASSUME SameHere, UNCHANGED preempted PROVE SameFlight
<1>1. ASSUME NEW m \in Node PROVE Live(m)' <=> Live(m) BY DEF SameHere, Live
<1> QED BY <1>1 DEF SameFlight, InFlight

\* A worker goes on with its task, before the work or after it.
LEMMA GoesOn ==
    ASSUME Placed, NEW w \in Worker, NEW l \in WorkerPC,
           wpc' = [wpc EXCEPT ![w] = l],
           wpc[w] \notin Away, l \notin Away, wpc[w] # "countOff", l # "countOff",
           wpc[w] \in Earlier <=> l \in Earlier,
           node[w] \in preempted => l \in {"begin", "run"},
           \A v \in Worker \ {w} : k'[v] = k[v],
           Top \in cancelled => Top \in cancelled',
           UNCHANGED <<g, join, preempted, scheduled, waiters, ran, round, node, cache, got>>
    PROVE  Alones' /\ Modules' /\ Works' /\ Quiet
<1>1. /\ node[w] \in Node /\ With(w, node[w])
      /\ ran[node[w]] = 1 <=> wpc[w] \notin Earlier
      /\ \A m : With(w, m) => m = node[w] BY AtWork
<1>2. SameHere BY NobodyMoves DEF Placed, Away
<1>3. Alones' BY <1>2, NoneMoves DEF Placed, SameHere
<1>4. \A v \in Worker \ {w} : wpc'[v] = wpc[v] BY DEF Placed, Types
<1>5. wpc'[w] = l BY DEF Placed, Types
<1>6. ASSUME NEW m \in Node, NEW b, NEW c, Here(m, "worker", b, c)'
      PROVE  Here(m, "worker", b, c) /\ (b # w \/ m = node[w]) /\ b \in Worker
  <2>1. Here(m, "worker", b, c) BY <1>2, <1>6 DEF SameHere
  <2>2. b \in Worker /\ With(b, m) BY <2>1 DEF Here
  <2>3. b # w \/ m = node[w] BY <2>2 DEF With
  <2> QED BY <2>1, <2>2, <2>3
<1>7. Works'
  <2> SUFFICES ASSUME NEW m \in Node, NEW a, NEW b, NEW c, Here(m, a, b, c)'
               PROVE  IF a = "worker" THEN ran[m] = 1 <=> wpc'[b] \notin Earlier ELSE ran[m] = 0
    BY DEF Works
  <2>1. IF a = "worker" THEN ran[m] = 1 <=> wpc[b] \notin Earlier ELSE ran[m] = 0
    BY <1>2 DEF SameHere, Placed, Works
  <2> QED BY <1>1, <1>4, <1>5, <1>6, <2>1
<1>8. Modules'
  <2> SUFFICES ASSUME NEW n \in preempted, NEW a, NEW b, NEW c, Here(n, a, b, c)'
               PROVE  a = "worker" /\ wpc'[b] \in {"begin", "run"} /\ join[n] = 0
    BY DEF Modules, Placed
  <2>1. n \in Node BY DEF Placed, Types
  <2>2. a = "worker" /\ wpc[b] \in {"begin", "run"} /\ join[n] = 0
    BY <1>2, <2>1 DEF SameHere, Placed, Modules
  <2> QED BY <1>4, <1>5, <1>6, <2>1, <2>2
<1>9. SameFlight BY <1>2, FlightKept
<1>10. SameCounts
  <2>1. \A m \in Node : With(w, m)' <=> With(w, m) BY <1>1, <1>5 DEF With, Away
  <2> QED BY <1>4, <1>5, <2>1, CountsKept DEF Placed
<1> QED BY <1>3, <1>7, <1>8, <1>9, <1>10 DEF Quiet, Keeps

-----------------------------------------------------------------------------
(* One lemma for each step. *)

LEMMA BeginStep ==
    ASSUME Placed, NEW w \in Worker, Begin(w) PROVE Placed' /\ Quiet
<1> DEFINE n == node[w]
           l == IF n \in preempted THEN "run"
                ELSE IF IsCancelled(n) THEN "tearDown"
                ELSE IF g.acquire[n] # <<>> THEN "acquire" ELSE "run"
<1>1. /\ wpc[w] = "begin" /\ wpc' = [wpc EXCEPT ![w] = l] /\ k' = [k EXCEPT ![w] = 1]
      /\ UNCHANGED <<g, join, preempted, scheduled, waiters, ran, round, node, cache, got,
                     cancelled, conds, jumped>> BY DEF Begin, Goto, semVars, historyVars
<1>2. l \in WorkerPC /\ l \in Earlier /\ (n \in preempted => l = "run") BY DEF WorkerPC, Earlier
<1>3. Alones' /\ Modules' /\ Works' /\ Quiet
  <2>1. wpc[w] \in Earlier /\ wpc[w] \notin Away /\ l \notin Away /\ wpc[w] # "countOff" /\ l # "countOff"
    BY <1>1, <1>2 DEF Earlier, Away
  <2>2. \A v \in Worker \ {w} : k'[v] = k[v] BY <1>1 DEF Placed, Types
  <2> HIDE DEF l
  <2> QED BY <1>1, <1>2, <2>1, <2>2, GoesOn
<1>4. Types'
  <2> HIDE DEF l
  <2> QED BY <1>1, <1>2 DEF Placed, Types
<1>5. Workers'
  <2>1. \A v \in Worker \ {w} : WorkerOK(v)'
    <3> HIDE DEF l
    <3> QED BY <1>1 DEF Placed, Types, Workers, WorkerOK
  <2>2. WorkerOK(w)'
    <3>1. WorkerOK(w) /\ wpc'[w] = l /\ k'[w] = 1
      <4> HIDE DEF l
      <4> QED BY <1>1 DEF Placed, Types, Workers
    <3>2. l = "tearDown" => Top \in cancelled BY DEF Placed, Cancels, IsCancelled
    <3>3. l = "acquire" => 1 \in 1 .. Len(g.acquire[n]) BY DEF Placed
    <3> QED BY <1>1, <3>1, <3>2, <3>3 DEF WorkerOK
  <2> QED BY <2>1, <2>2 DEF Workers
<1>6. Cancels' BY <1>1 DEF Placed, Cancels
<1> QED BY <1>3, <1>4, <1>5, <1>6 DEF Placed

\* The graph that runs.
LEMMA PlainGraph ==
    ASSUME Hyps, g \in Shapes
    PROVE  /\ g \in Shape /\ Plain(g)
           /\ \A n \in Node : /\ g.kind[n] \in {"static", "module"}
                              /\ ~IsConditioner(n)
                              /\ g.succ[n] \in Seq(Node)
                              /\ g.acquire[n] \in Seq(Sem) /\ g.release[n] \in Seq(Sem)
                              /\ g.parent[n] \in Node \cup {Top, NoNode}
           /\ \A m \in Node : \A i \in 1 .. Len(g.succ[m]) :
                 /\ g.succ[m][i] \in Node
                 /\ g.parent[m] # NoNode /\ g.parent[g.succ[m][i]] = g.parent[m]
<1>1. g \in Shape /\ Plain(g) BY DEF Hyps, GraphAssumption
<1>2. \A n \in Node : /\ g.succ[n] \in Seq(Node)
                      /\ g.acquire[n] \in Seq(Sem) /\ g.release[n] \in Seq(Sem)
                      /\ g.parent[n] \in Node \cup {Top, NoNode} BY <1>1 DEF Shape
<1>3. \A n \in Node : g.kind[n] \in {"static", "module"} /\ ~IsConditioner(n)
  BY <1>1 DEF Plain, IsConditioner
<1>4. \A m \in Node : \A i \in 1 .. Len(g.succ[m]) :
         g.parent[m] # NoNode /\ g.parent[g.succ[m][i]] = g.parent[m] BY <1>1 DEF Plain
<1>5. \A m \in Node : \A i \in 1 .. Len(g.succ[m]) : g.succ[m][i] \in Node BY <1>2, ElementOfSeq
<1> QED BY <1>1, <1>2, <1>3, <1>4, <1>5

LEMMA Graphs ==
    ASSUME Hyps, Types
    PROVE  /\ g \in Shape /\ Plain(g)
           /\ \A n \in Node : /\ g.kind[n] \in {"static", "module"}
                              /\ ~IsConditioner(n)
                              /\ g.succ[n] \in Seq(Node)
                              /\ g.acquire[n] \in Seq(Sem) /\ g.release[n] \in Seq(Sem)
                              /\ g.parent[n] \in Node \cup {Top, NoNode}
           /\ \A m \in Node : \A i \in 1 .. Len(g.succ[m]) :
                 /\ g.succ[m][i] \in Node
                 /\ g.parent[m] # NoNode /\ g.parent[g.succ[m][i]] = g.parent[m]
BY PlainGraph DEF Types

LEMMA RaiseStep ==
    ASSUME Hyps, Placed, NEW w \in Worker, Raise(w) PROVE Placed' /\ Quiet
<1> DEFINE l == IF raised THEN AfterWork(node[w]) ELSE "store"
<1>1. /\ wpc[w] = "raise" /\ wpc' = [wpc EXCEPT ![w] = l] /\ k' = [k EXCEPT ![w] = 1]
      /\ cancelled' = cancelled \cup Ancestors(node[w])
      /\ UNCHANGED <<g, join, preempted, scheduled, waiters, ran, round, node, cache, got,
                     conds, jumped>> BY DEF Raise, Goto, semVars, historyVars
<1>2. l \in {"store", "release", "reset"} /\ (l = "release" => g.release[node[w]] # <<>>)
  BY DEF AfterWork
<1> HIDE DEF l
<1>3. node[w] \notin preempted /\ node[w] \in Node BY <1>1, AtWork DEF Away
<1>4. Top \in cancelled' BY <1>1 DEF Ancestors
<1>5. Alones' /\ Modules' /\ Works' /\ Quiet
  <2>1. wpc[w] \notin Earlier /\ l \notin Earlier /\ wpc[w] \notin Away /\ l \notin Away
        /\ wpc[w] # "countOff" /\ l # "countOff" /\ l \in WorkerPC
    BY <1>1, <1>2 DEF Earlier, Away, WorkerPC
  <2>2. \A v \in Worker \ {w} : k'[v] = k[v] BY <1>1 DEF Placed, Types
  <2> QED BY <1>1, <1>3, <1>4, <2>1, <2>2, GoesOn
<1>6. Types' BY <1>1, <1>2 DEF Placed, Types, WorkerPC
<1>7. Workers'
  <2>1. \A v \in Worker \ {w} : WorkerOK(v)' BY <1>1, <1>4 DEF Placed, Types, Workers, WorkerOK
  <2>2. WorkerOK(w)'
    <3>1. WorkerOK(w) /\ wpc'[w] = l /\ k'[w] = 1 BY <1>1 DEF Placed, Types, Workers
    <3>2. l = "release" => 1 \in 1 .. Len(g.release[node[w]]) BY <1>2, <1>3, Graphs DEF Placed
    <3> QED BY <1>1, <1>2, <3>1, <3>2 DEF WorkerOK
  <2> QED BY <2>1, <2>2 DEF Workers
<1>8. Cancels' BY <1>4 DEF Cancels
<1> QED BY <1>5, <1>6, <1>7, <1>8 DEF Placed

LEMMA StoreStep ==
    ASSUME Hyps, Placed, NEW w \in Worker, Store(w) PROVE Placed' /\ Quiet
<1> DEFINE l == AfterWork(node[w])
<1>1. /\ wpc[w] = "store" /\ wpc' = [wpc EXCEPT ![w] = l]
      /\ UNCHANGED <<g, join, preempted, scheduled, waiters, ran, round, node, cache, got,
                     conds, jumped, k, cancelled>>
  BY DEF Store, workerVars, Goto, semVars, historyVars
<1>2. l \in {"release", "reset"} /\ (l = "release" => g.release[node[w]] # <<>>) BY DEF AfterWork
<1> HIDE DEF l
<1>3. node[w] \notin preempted /\ node[w] \in Node BY <1>1, AtWork DEF Away
<1>5. Alones' /\ Modules' /\ Works' /\ Quiet
  <2>1. wpc[w] \notin Earlier /\ l \notin Earlier /\ wpc[w] \notin Away /\ l \notin Away
        /\ wpc[w] # "countOff" /\ l # "countOff" /\ l \in WorkerPC
    BY <1>1, <1>2 DEF Earlier, Away, WorkerPC
  <2>2. \A v \in Worker \ {w} : k'[v] = k[v] BY <1>1 DEF Placed, Types
  <2> QED BY <1>1, <1>3, <2>1, <2>2, GoesOn
<1>6. Types' BY <1>1, <1>2 DEF Placed, Types, WorkerPC
<1>7. Workers'
  <2>1. \A v \in Worker \ {w} : WorkerOK(v)' BY <1>1 DEF Placed, Types, Workers, WorkerOK
  <2>2. WorkerOK(w)'
    <3>1. WorkerOK(w) /\ wpc'[w] = l /\ k'[w] = 1 BY <1>1 DEF Placed, Types, Workers, WorkerOK
    <3>2. l = "release" => 1 \in 1 .. Len(g.release[node[w]]) BY <1>2, <1>3, Graphs DEF Placed
    <3> QED BY <1>1, <1>2, <3>1, <3>2 DEF WorkerOK
  <2> QED BY <2>1, <2>2 DEF Workers
<1>8. Cancels' BY <1>1 DEF Placed, Cancels
<1> QED BY <1>5, <1>6, <1>7, <1>8 DEF Placed

LEMMA AcquireStep ==
    ASSUME Hyps, Placed, NEW w \in Worker, Acquire(w),
           value[g.acquire[node[w]][k[w]]] > 0
    PROVE  Placed' /\ Quiet
<1> DEFINE last == k[w] = Len(g.acquire[node[w]])
           l == IF last THEN "run" ELSE "acquire"
           j == IF last THEN k[w] ELSE k[w] + 1
<1>1. /\ node[w] \in Node /\ node[w] \notin preempted
      /\ k[w] \in 1 .. Len(g.acquire[node[w]]) /\ WorkerOK(w) /\ wpc[w] = "acquire"
  BY AtWork DEF Acquire, Away, Placed, Workers, WorkerOK
<1>2. Len(g.acquire[node[w]]) \in Nat BY <1>1, Graphs DEF Placed
<1>3. /\ wpc' = [wpc EXCEPT ![w] = l] /\ k' = [k EXCEPT ![w] = j]
      /\ UNCHANGED <<g, join, preempted, scheduled, waiters, ran, round, node, cache, got,
                     conds, jumped, cancelled>>
  <2>1. wpc' = [wpc EXCEPT ![w] = l] /\ k' = [k EXCEPT ![w] = j]
    BY <1>1 DEF Acquire, Goto, Placed, Types
  <2> QED BY <2>1 DEF Acquire, historyVars
<1>4. l \in {"run", "acquire"} /\ (l = "acquire" => j \in 1 .. Len(g.acquire[node[w]])) /\ j \in Nat
  BY <1>1, <1>2
<1> HIDE DEF l, j
<1>5. Alones' /\ Modules' /\ Works' /\ Quiet
  <2>1. wpc[w] \in Earlier /\ l \in Earlier /\ wpc[w] \notin Away /\ l \notin Away
        /\ wpc[w] # "countOff" /\ l # "countOff" /\ l \in WorkerPC
    BY <1>1, <1>4 DEF Earlier, Away, WorkerPC
  <2>2. \A v \in Worker \ {w} : k'[v] = k[v] BY <1>3 DEF Placed, Types
  <2> QED BY <1>1, <1>3, <2>1, <2>2, GoesOn
<1>6. Types' BY <1>3, <1>4 DEF Placed, Types, WorkerPC
<1>7. Workers'
  <2>1. \A v \in Worker \ {w} : WorkerOK(v)' BY <1>3 DEF Placed, Types, Workers, WorkerOK
  <2>2. WorkerOK(w)'
    <3>1. wpc'[w] = l /\ k'[w] = j BY <1>3 DEF Placed, Types
    <3> QED BY <1>1, <1>3, <1>4, <3>1 DEF WorkerOK
  <2> QED BY <2>1, <2>2 DEF Workers
<1>8. Cancels' BY <1>3 DEF Placed, Cancels
<1> QED BY <1>5, <1>6, <1>7, <1>8 DEF Placed

\* The other workers.
LEMMA OthersOK ==
    ASSUME Workers, NEW w \in Worker,
           \A v \in Worker \ {w} : UNCHANGED <<wpc[v], node[v], k[v], cache[v], got[v]>>,
           UNCHANGED g, Top \in cancelled => Top \in cancelled',
           WorkerOK(w)'
    PROVE  Workers'
<1>1. ASSUME NEW v \in Worker \ {w} PROVE WorkerOK(v)' BY <1>1 DEF Workers, WorkerOK
<1> QED BY <1>1 DEF Workers

\* If the tasks that move were alive and still are, the same tasks are in flight.
LEMMA FlightMoved ==
    ASSUME UNCHANGED preempted, NEW S,
           \A m \in S \cap Node : Live(m) /\ Live(m)',
           \A m \in Node \ S : \A a, b, c : Here(m, a, b, c)' <=> Here(m, a, b, c)
    PROVE  SameFlight
<1>1. ASSUME NEW m \in Node PROVE Live(m)' <=> Live(m)
  <2>1. CASE m \in S BY <2>1
  <2>2. CASE m \notin S BY <2>2 DEF Live
  <2> QED BY <2>1, <2>2
<1> QED BY <1>1 DEF SameFlight, InFlight

LEMMA TakeStep ==
    ASSUME Placed, NEW w \in Worker, NEW n \in Node, Take(w, n) PROVE Placed' /\ Quiet
<1>1. /\ scheduled' = [scheduled EXCEPT ![n] = @ - 1] /\ wpc[w] = "idle" /\ scheduled[n] > 0
      /\ node' = [node EXCEPT ![w] = n] /\ wpc' = [wpc EXCEPT ![w] = "begin"]
      /\ UNCHANGED <<g, join, preempted, waiters, ran, round, k, cache, got,
                     cancelled, conds, jumped>> BY DEF Take, Goto, semVars, historyVars
<1>2. \A m \in Node : \A a, b, c : Here(m, a, b, c)' <=>
               \/ m # n /\ Here(m, a, b, c)
               \/ m = n /\ a = "worker" /\ b = w /\ c = 0 BY TakeMoves DEF Placed
<1>3. Here(n, "queue", 0, 1) BY <1>1 DEF Here, Placed, Types
<1>4. n \notin preempted /\ ran[n] = 0 BY <1>3 DEF Placed, Modules, Works
<1>5. Alones' BY <1>2, OneMoves DEF Placed
<1>6. /\ wpc'[w] = "begin" /\ \A v \in Worker \ {w} : wpc'[v] = wpc[v] /\ node'[v] = node[v]
      /\ node'[w] = n BY <1>1 DEF Placed, Types
<1>7. ASSUME NEW m \in Node, m # n, NEW b, NEW c, Here(m, "worker", b, c)
      PROVE  b \in Worker \ {w} BY <1>1, <1>7 DEF Here, With
<1>8. Works'
  <2> SUFFICES ASSUME NEW m \in Node, NEW a, NEW b, NEW c, Here(m, a, b, c)'
               PROVE  IF a = "worker" THEN ran[m] = 1 <=> wpc'[b] \notin Earlier ELSE ran[m] = 0
    BY <1>1 DEF Works
  <2>1. CASE m = n BY <1>2, <1>4, <1>6, <2>1 DEF Earlier
  <2>2. CASE m # n BY <1>2, <1>6, <1>7, <2>2 DEF Placed, Works
  <2> QED BY <2>1, <2>2
<1>9. Modules'
  <2> SUFFICES ASSUME NEW m \in preempted, NEW a, NEW b, NEW c, Here(m, a, b, c)'
               PROVE  a = "worker" /\ wpc'[b] \in {"begin", "run"} /\ join[m] = 0
    BY <1>1 DEF Modules, Placed
  <2>1. m \in Node /\ m # n BY <1>4 DEF Placed, Types
  <2>2. Here(m, a, b, c) BY <1>2, <2>1
  <2> QED BY <1>6, <1>7, <2>1, <2>2 DEF Placed, Modules
<1>10. Types'
  <2>1. scheduled' \in [Node -> Nat] BY <1>1 DEF Placed, Types
  <2> QED BY <1>1, <2>1 DEF Placed, Types, WorkerPC
<1>11. Workers'
  <2>1. WorkerOK(w) BY DEF Placed, Workers
  <2>2. WorkerOK(w)' BY <1>1, <1>6, <2>1 DEF WorkerOK
  <2> QED BY <1>1, <1>6, <2>2, OthersOK DEF Placed
<1>12. Cancels' BY <1>1 DEF Placed, Cancels
<1>13. SameFlight
  <2>1. Live(n) BY <1>3 DEF Live
  <2>2. Here(n, "worker", w, 0)' BY <1>2
  <2>3. Live(n)' BY <2>2 DEF Live
  <2>4. \A m \in {n} \cap Node : Live(m) /\ Live(m)' BY <2>1, <2>3
  <2>5. \A m \in Node \ {n} : \A a, b, c : Here(m, a, b, c)' <=> Here(m, a, b, c) BY <1>2
  <2> QED BY <1>1, <2>4, <2>5, FlightMoved
<1>14. SameCounts
  <2>1. \A m \in Node : ~With(w, m) BY <1>1 DEF With
  <2>2. \A m \in Node : With(w, m)' => m = n BY <1>6 DEF With
  <2> QED BY <1>1, <1>4, <1>6, <2>1, <2>2, CountsKept DEF Placed
<1> QED BY <1>1, <1>5, <1>8, <1>9, <1>10, <1>11, <1>12, <1>13, <1>14 DEF Placed, Quiet, Keeps

LEMMA WaitMoves ==
    ASSUME Placed, NEW w \in Worker, wpc[w] \notin Away, NEW s \in Sem, NEW l \in Away,
           waiters' = [waiters EXCEPT ![s] = Append(@, node[w])],
           wpc' = [wpc EXCEPT ![w] = l],
           UNCHANGED <<scheduled, node, cache, got>>
    PROVE  \A m \in Node : \A a, b, c : Here(m, a, b, c)' <=>
               \/ m # node[w] /\ Here(m, a, b, c)
               \/ m = node[w] /\ a = "waits" /\ b = s /\ c = Len(waiters[s]) + 1
<1> DEFINE n == node[w]
<1>1. n \in Node /\ Here(n, "worker", w, 0) BY AtWork
<1>2. /\ ~\E j \in 1 .. scheduled[n] : TRUE
      /\ \A v \in Worker : (With(v, n) => v = w) /\ cache[v] # n
      /\ \A v \in Worker : \A i \in 1 .. Len(got[v]) : got[v][i] # n
      /\ \A t \in Sem : \A i \in 1 .. Len(waiters[t]) : waiters[t][i] # n BY <1>1, Only DEF Placed
<1>3. \A v \in Worker, m \in Node : With(v, m)' <=> v # w /\ With(v, m)
  BY DEF With, Placed, Types, Away
<1>4. \A t \in Sem \ {s} : waiters'[t] = waiters[t] BY DEF Placed, Types
<1>5. /\ waiters[s] \in Seq(Node) /\ Len(waiters'[s]) = Len(waiters[s]) + 1
      /\ waiters'[s] = Append(waiters[s], n)
      /\ waiters'[s][Len(waiters[s]) + 1] = n
      /\ \A i \in 1 .. Len(waiters[s]) : waiters'[s][i] = waiters[s][i] BY <1>1 DEF Placed, Types
<1>6. Len(waiters[s]) \in Nat BY <1>5
<1> HIDE DEF n
<1>7. ASSUME NEW m \in Node, NEW b, NEW c
      PROVE  (b \in Sem /\ c \in 1 .. Len(waiters'[b]) /\ waiters'[b][c] = m) <=>
                \/ m # n /\ b \in Sem /\ c \in 1 .. Len(waiters[b]) /\ waiters[b][c] = m
                \/ m = n /\ b = s /\ c = Len(waiters[s]) + 1
  <2>1. CASE b = s
    <3>1. c \in 1 .. Len(waiters'[s]) <=> c \in 1 .. Len(waiters[s]) \/ c = Len(waiters[s]) + 1
      BY <1>5, <1>6
    <3>2. c = Len(waiters[s]) + 1 => c \notin 1 .. Len(waiters[s]) BY <1>6
    <3> QED BY <1>2, <1>5, <2>1, <3>1, <3>2
  <2>2. CASE b # s BY <1>2, <1>4, <2>2
  <2> QED BY <2>1, <2>2
<1>8. ASSUME NEW m \in Node, NEW a, NEW b, NEW c
      PROVE  Here(m, a, b, c)' <=> \/ m # n /\ Here(m, a, b, c)
                                   \/ m = n /\ a = "waits" /\ b = s /\ c = Len(waiters[s]) + 1
  <2>1. CASE a = "waits" BY <1>7, <2>1 DEF Here
  <2>2. CASE a # "waits" /\ m = n
    <3>1. ~Here(m, a, b, c)' BY <1>2, <1>3, <2>2 DEF Here
    <3> QED BY <2>2, <3>1
  <2>3. CASE a # "waits" /\ m # n
    <3>1. b \in Worker => (With(b, m)' <=> With(b, m)) BY <1>3, <2>3 DEF With, n
    <3> QED BY <2>3, <3>1 DEF Here
  <2> QED BY <2>1, <2>2, <2>3
<1> QED BY <1>8 DEF n

LEMMA AcquireFails ==
    ASSUME Hyps, Placed, NEW w \in Worker, Acquire(w),
           ~(value[g.acquire[node[w]][k[w]]] > 0)
    PROVE  Placed' /\ Quiet
<1>0. PICK n \in Node : n = node[w] BY AtWork DEF Acquire, Away
<1> DEFINE s == g.acquire[n][k[w]]
           l == IF k[w] > 1 THEN "rollback" ELSE "requeue"
<1>1. /\ wpc[w] = "acquire" /\ WorkerOK(w) /\ n \notin preempted /\ ran[n] # 1
      /\ k[w] \in 1 .. Len(g.acquire[n]) /\ Here(n, "worker", w, 0) /\ wpc[w] \notin Away
      /\ \A m : With(w, m) => m = n
  BY <1>0, AtWork DEF Acquire, Away, Placed, Workers, WorkerOK, Earlier
<1>2. s \in Sem /\ k[w] \in Nat /\ k[w] > 0 /\ Len(g.acquire[n]) \in Nat
  <2>1. g.acquire[n] \in Seq(Sem) BY <1>1, Graphs DEF Placed
  <2> QED BY <1>1, <2>1
<1>3. /\ wpc' = [wpc EXCEPT ![w] = l] /\ k' = [k EXCEPT ![w] = @ - 1]
      /\ waiters' = [waiters EXCEPT ![s] = Append(@, n)]
      /\ UNCHANGED <<g, join, preempted, scheduled, ran, round, node, cache, got,
                     conds, jumped, cancelled>> BY <1>0 DEF Acquire, Goto, historyVars
<1>4. /\ l \in {"rollback", "requeue"} /\ l \in Away /\ l \in WorkerPC
      /\ l = "rollback" => k[w] - 1 \in 1 .. Len(g.acquire[n]) BY <1>1, <1>2 DEF Away, WorkerPC
<1> HIDE DEF l
<1>5. PICK t \in Sem, z \in Nat : \A m \in Node : \A a, b, c : Here(m, a, b, c)' <=>
               \/ m # n /\ Here(m, a, b, c)
               \/ m = n /\ a = "waits" /\ b = t /\ c = z
  <2>1. PICK t \in Sem : t = s BY <1>2
  <2> HIDE DEF s
  <2>2. /\ waiters' = [waiters EXCEPT ![t] = Append(@, node[w])]
        /\ UNCHANGED <<scheduled, node, cache, got>> BY <1>0, <1>3, <2>1
  <2>3. \A m \in Node : \A a, b, c : Here(m, a, b, c)' <=>
               \/ m # node[w] /\ Here(m, a, b, c)
               \/ m = node[w] /\ a = "waits" /\ b = t /\ c = Len(waiters[t]) + 1
    <3>1. PICK d \in Away : d = l BY <1>4
    <3>2. wpc' = [wpc EXCEPT ![w] = d] BY <1>3, <3>1
    <3>3. wpc[w] \notin Away BY <1>1
    <3> QED BY <2>2, <3>2, <3>3, WaitMoves
  <2>4. PICK z \in Nat : z = Len(waiters[t]) + 1
    <3>1. waiters[t] \in Seq(Node) BY DEF Placed, Types
    <3> QED BY <3>1
  <2>5. \A m \in Node : \A a, b, c : Here(m, a, b, c)' <=>
               \/ m # n /\ Here(m, a, b, c)
               \/ m = n /\ a = "waits" /\ b = t /\ c = z BY <1>0, <2>3, <2>4
  <2> QED BY <2>5
<1> HIDE DEF s
<1>6. Alones'
  <2>1. \A m \in Node : \A a, b, c : Here(m, a, b, c)' =>
           \/ m # n /\ Here(m, a, b, c)
           \/ m = n /\ a = "waits" /\ b = t /\ c = z BY <1>5
  <2>2. Alones BY DEF Placed
  <2> QED BY <2>1, <2>2, OneMoves
<1>7. /\ wpc'[w] = l /\ \A v \in Worker \ {w} : wpc'[v] = wpc[v]
      /\ k'[w] = k[w] - 1 /\ \A v \in Worker \ {w} : k'[v] = k[v] BY <1>3 DEF Placed, Types
<1>8. ran[n] = 0 BY <1>1 DEF Placed, Types
<1>9. ASSUME NEW m \in Node, m # n, NEW b, NEW c, Here(m, "worker", b, c)
      PROVE  b \in Worker \ {w}
  <2>1. b \in Worker /\ With(b, m) BY <1>9 DEF Here
  <2> QED BY <1>1, <1>9, <2>1
<1>10. Works'
  <2> SUFFICES ASSUME NEW m \in Node, NEW a, NEW b, NEW c, Here(m, a, b, c)'
               PROVE  IF a = "worker" THEN ran[m] = 1 <=> wpc'[b] \notin Earlier ELSE ran[m] = 0
    BY <1>3 DEF Works
  <2>1. CASE m = n BY <1>5, <1>8, <2>1
  <2>2. CASE m # n BY <1>5, <1>7, <1>9, <2>2 DEF Placed, Works
  <2> QED BY <2>1, <2>2
<1>11. Modules'
  <2> SUFFICES ASSUME NEW m \in preempted, NEW a, NEW b, NEW c, Here(m, a, b, c)'
               PROVE  a = "worker" /\ wpc'[b] \in {"begin", "run"} /\ join[m] = 0
    BY <1>3 DEF Modules, Placed
  <2>1. m \in Node /\ m # n BY <1>1 DEF Placed, Types
  <2>2. Here(m, a, b, c) BY <1>5, <2>1
  <2> QED BY <1>7, <1>9, <2>1, <2>2 DEF Placed, Modules
<1>12. Types'
  <2>1. waiters' \in [Sem -> Seq(Node)] BY <1>1, <1>2, <1>3 DEF Placed, Types
  <2>2. k' \in [Worker -> Nat] BY <1>2, <1>3 DEF Placed, Types
  <2> QED BY <1>3, <1>4, <2>1, <2>2 DEF Placed, Types
<1>13. Workers'
  <2>1. WorkerOK(w)' BY <1>0, <1>1, <1>3, <1>4, <1>7 DEF WorkerOK
  <2> QED BY <1>3, <1>7, <2>1, OthersOK DEF Placed
<1>14. Cancels' BY <1>3 DEF Placed, Cancels
<1>15. SameFlight
  <2>1. Live(n) BY <1>1 DEF Live
  <2>2. Here(n, "waits", t, z)' BY <1>1, <1>5
  <2>3. Live(n)' BY <1>3, <2>2 DEF Live
  <2>4. \A m \in {n} \cap Node : Live(m) /\ Live(m)' BY <2>1, <2>3
  <2>5. \A m \in Node \ {n} : \A a, b, c : Here(m, a, b, c)' <=> Here(m, a, b, c) BY <1>5
  <2> QED BY <1>3, <2>4, <2>5, FlightMoved
<1>16. SameCounts
  <2>1. \A m \in Node : With(w, m) => ran[m] = 0 BY <1>1, <1>8
  <2>2. \A m \in Node : ~With(w, m)' BY <1>4, <1>7 DEF With
  <2> QED BY <1>3, <1>7, <2>1, <2>2, CountsKept DEF Placed
<1> QED BY <1>3, <1>6, <1>10, <1>11, <1>12, <1>13, <1>14, <1>15, <1>16 DEF Placed, Quiet, Keeps

\* Tasks move from one place that is not a worker to another.
Shifts ==
    \A m \in Node : \A a, b, c : Here(m, a, b, c)' =>
        IF a = "worker" THEN Here(m, a, b, c) ELSE \E d, e, f : d # "worker" /\ Here(m, d, e, f)

LEMMA Shifted ==
    ASSUME Placed, Shifts, UNCHANGED <<g, preempted, ran, join>>,
           \A b \in Worker : \A m \in Node : With(b, m) =>
               /\ wpc'[b] \in Earlier <=> wpc[b] \in Earlier
               /\ m \in preempted => wpc'[b] = wpc[b]
    PROVE  Works' /\ Modules'
<1>1. ASSUME NEW m \in Node, NEW a, NEW b, NEW c, Here(m, a, b, c)'
      PROVE  IF a = "worker" THEN ran[m] = 1 <=> wpc'[b] \notin Earlier ELSE ran[m] = 0
  <2>1. CASE a = "worker"
    <3>1. Here(m, "worker", b, c) BY <1>1, <2>1 DEF Shifts
    <3>2. b \in Worker /\ With(b, m) BY <3>1 DEF Here
    <3> QED BY <2>1, <3>1, <3>2 DEF Placed, Works
  <2>2. CASE a # "worker"
    <3>1. PICK d, e, f : d # "worker" /\ Here(m, d, e, f) BY <1>1, <2>2 DEF Shifts
    <3> QED BY <2>2, <3>1 DEF Placed, Works
  <2> QED BY <2>1, <2>2
<1>2. ASSUME NEW m \in preempted, NEW a, NEW b, NEW c, Here(m, a, b, c)'
      PROVE  a = "worker" /\ wpc'[b] \in {"begin", "run"} /\ join[m] = 0
  <2>1. m \in Node BY DEF Placed, Types
  <2>2. CASE a = "worker"
    <3>1. Here(m, "worker", b, c) BY <1>2, <2>1, <2>2 DEF Shifts
    <3>2. b \in Worker /\ With(b, m) BY <3>1 DEF Here
    <3> QED BY <2>1, <2>2, <3>1, <3>2 DEF Placed, Modules
  <2>3. CASE a # "worker"
    <3>1. PICK d, e, f : d # "worker" /\ Here(m, d, e, f) BY <1>2, <2>1, <2>3 DEF Shifts
    <3> QED BY <2>1, <3>1 DEF Placed, Modules
  <2> QED BY <2>2, <2>3
<1>3. Works' BY <1>1 DEF Works
<1>4. Modules'
  <2>1. \A m \in preempted : g.kind[m] = "module" /\ ran[m] = 0 BY DEF Placed, Modules
  <2> QED BY <1>2, <2>1 DEF Modules
<1> QED BY <1>3, <1>4

LEMMA ReleaseMoves ==
    ASSUME Placed, NEW w \in Worker, NEW s \in Sem,
           waiters' = [waiters EXCEPT ![s] = <<>>],
           got' = [got EXCEPT ![w] = @ \o waiters[s]],
           \A v \in Worker, m \in Node : With(v, m)' <=> With(v, m),
           UNCHANGED <<scheduled, cache, preempted>>
    PROVE  Alones' /\ SameFlight /\ Shifts
<1>1. got[w] \in Seq(Node) /\ waiters[s] \in Seq(Node) BY DEF Placed, Types
<1>0. PICK L \in Nat, M \in Nat : L = Len(got[w]) /\ M = Len(waiters[s]) BY <1>1
<1>2. /\ Len(got'[w]) = L + M
      /\ \A i \in 1 .. L + M : got'[w][i] = IF i <= L THEN got[w][i] ELSE waiters[s][i - L]
      /\ \A v \in Worker \ {w} : got'[v] = got[v]
      /\ \A t \in Sem \ {s} : waiters'[t] = waiters[t]
      /\ Len(waiters'[s]) = 0
  <2>1. got'[w] = got[w] \o waiters[s] /\ waiters'[s] = << >> BY DEF Placed, Types
  <2>2. \A v \in Worker \ {w} : got'[v] = got[v] BY DEF Placed, Types
  <2>3. \A t \in Sem \ {s} : waiters'[t] = waiters[t] BY DEF Placed, Types
  <2>4. /\ Len(got[w] \o waiters[s]) = L + M
        /\ \A i \in 1 .. L + M :
              (got[w] \o waiters[s])[i] = IF i <= L THEN got[w][i] ELSE waiters[s][i - L]
    BY <1>0, <1>1, ConcatProperties
  <2> QED BY <2>1, <2>2, <2>3, <2>4
<1>3. \A c \in 1 .. L + M : c \notin 1 .. L => c - L \in 1 .. M /\ ~(c <= L) OBVIOUS
<1>9. \A c \in 1 .. M : L + c \in 1 .. L + M /\ ~(L + c <= L) /\ (L + c) - L = c OBVIOUS
<1>10. \A c \in 1 .. L : c \in 1 .. L + M /\ c <= L OBVIOUS
\* Where a task was that is somewhere now.
<1> DEFINE Fresh(a, b, c) == a = "got" /\ b = w /\ c \notin 1 .. L
<1>4. ASSUME NEW m \in Node, NEW a, NEW b, NEW c, Here(m, a, b, c)', Fresh(a, b, c)
      PROVE  c \in Int /\ Here(m, "waits", s, c - L)
  <2>1. c \in 1 .. L + M /\ got'[w][c] = m BY <1>2, <1>4 DEF Here
  <2>2. c - L \in 1 .. M /\ ~(c <= L) BY <1>3, <1>4, <2>1
  <2>3. waiters[s][c - L] = m BY <1>2, <2>1, <2>2
  <2> QED BY <1>0, <2>1, <2>2, <2>3 DEF Here
<1>5. ASSUME NEW m \in Node, NEW a, NEW b, NEW c, Here(m, a, b, c)', ~Fresh(a, b, c)
      PROVE  Here(m, a, b, c) /\ ~(a = "waits" /\ b = s)
  <2>1. CASE a = "got"
    <3>1. b \in Worker /\ c \in 1 .. Len(got'[b]) /\ got'[b][c] = m BY <1>5, <2>1 DEF Here
    <3>2. c \in 1 .. Len(got[b]) /\ got[b][c] = m
      <4>1. CASE b = w BY <1>0, <1>2, <1>5, <1>10, <2>1, <3>1, <4>1
      <4>2. CASE b # w BY <1>2, <3>1, <4>2
      <4> QED BY <4>1, <4>2
    <3> QED BY <2>1, <3>1, <3>2 DEF Here
  <2>2. CASE a = "waits"
    <3>1. b # s BY <1>2, <1>5, <2>2 DEF Here
    <3> QED BY <1>2, <1>5, <2>2, <3>1 DEF Here
  <2>3. CASE a = "worker"
    <3>1. b \in Worker /\ c = 0 /\ With(b, m)' BY <1>5, <2>3 DEF Here
    <3> QED BY <2>3, <3>1 DEF Here
  <2>4. CASE a \notin {"got", "waits", "worker"} BY <1>5, <2>4 DEF Here
  <2> QED BY <2>1, <2>2, <2>3, <2>4
<1>6. Alones'
  <2> SUFFICES ASSUME NEW m \in Node, NEW a, NEW b, NEW c, NEW d, NEW e, NEW f,
                      Here(m, a, b, c)', Here(m, d, e, f)'
               PROVE  a = d /\ b = e /\ c = f BY DEF Alones
  <2>1. CASE Fresh(a, b, c) /\ Fresh(d, e, f)
    <3>1. Here(m, "waits", s, c - L) /\ Here(m, "waits", s, f - L) /\ c \in Int /\ f \in Int /\ L \in Int
      BY <1>4, <2>1
    <3>2. c - L = f - L BY <3>1 DEF Placed, Alones
    <3> QED BY <2>1, <3>1, <3>2
  <2>2. CASE Fresh(a, b, c) /\ ~Fresh(d, e, f) BY <1>4, <1>5, <2>2 DEF Placed, Alones
  <2>3. CASE ~Fresh(a, b, c) /\ Fresh(d, e, f) BY <1>4, <1>5, <2>3 DEF Placed, Alones
  <2>4. CASE ~Fresh(a, b, c) /\ ~Fresh(d, e, f)
    <3>1. Here(m, a, b, c) /\ Here(m, d, e, f) BY <1>5, <2>4
    <3> QED BY <3>1 DEF Placed, Alones
  <2> QED BY <2>1, <2>2, <2>3, <2>4
<1>7. Shifts
  <2> SUFFICES ASSUME NEW m \in Node, NEW a, NEW b, NEW c, Here(m, a, b, c)'
               PROVE  IF a = "worker" THEN Here(m, a, b, c)
                      ELSE \E d, e, f : d # "worker" /\ Here(m, d, e, f) BY DEF Shifts
  <2>1. CASE Fresh(a, b, c) BY <1>4, <2>1
  <2>2. CASE ~Fresh(a, b, c) BY <1>5, <2>2
  <2> QED BY <2>1, <2>2
<1>8. SameFlight
  <2>1. ASSUME NEW m \in Node, Live(m)' PROVE Live(m)
    <3>1. PICK a, b, c : Here(m, a, b, c)' BY <2>1 DEF Live
    <3>2. \/ Here(m, a, b, c)
          \/ Here(m, "waits", s, c - L) BY <1>4, <1>5, <3>1
    <3> QED BY <3>2 DEF Live
  <2>2. ASSUME NEW m \in Node, NEW a, NEW b, NEW c, Here(m, a, b, c) PROVE Live(m)'
    <3>1. CASE a = "waits" /\ b = s
      <4>1. c \in 1 .. M /\ waiters[s][c] = m BY <1>0, <2>2, <3>1 DEF Here
      <4>3. PICK z : z = L + c OBVIOUS
      <4>2. z \in 1 .. Len(got'[w]) /\ got'[w][z] = m BY <1>2, <1>9, <4>1, <4>3
      <4>4. Here(m, "got", w, z)' BY <4>2 DEF Here
      <4> QED BY <4>4 DEF Live
    <3>2. CASE a = "got"
      <4>1. b \in Worker /\ c \in 1 .. Len(got[b]) /\ got[b][c] = m BY <2>2, <3>2 DEF Here
      <4>2. c \in 1 .. Len(got'[b]) /\ got'[b][c] = m
        <5>1. CASE b = w BY <1>0, <1>2, <1>10, <4>1, <5>1
        <5>2. CASE b # w BY <1>2, <4>1, <5>2
        <5> QED BY <5>1, <5>2
      <4>3. Here(m, "got", b, c)' BY <4>1, <4>2 DEF Here
      <4> QED BY <4>3 DEF Live
    <3>3. CASE a # "got" /\ ~(a = "waits" /\ b = s)
      <4>1. Here(m, a, b, c)' BY <1>2, <2>2, <3>3 DEF Here
      <4> QED BY <4>1 DEF Live
    <3> QED BY <3>1, <3>2, <3>3
  <2>3. ASSUME NEW m \in Node PROVE Live(m)' <=> Live(m)
    <3>1. Live(m) => Live(m)' BY <2>2 DEF Live
    <3> QED BY <2>1, <3>1
  <2> QED BY <2>3 DEF SameFlight, InFlight
<1> QED BY <1>6, <1>7, <1>8

LEMMA ReleaseStays ==
    ASSUME Placed, NEW w \in Worker, NEW s \in Sem, ReleaseOne(w, s), NEW l, NEW j \in Nat,
           \/ wpc[w] = "rollback" /\ l \in {"rollback", "requeue"}
           \/ wpc[w] = "release" /\ l \in {"release", "wake"},
           wpc' = [wpc EXCEPT ![w] = l], k' = [k EXCEPT ![w] = j],
           WorkerOK(w)',
           UNCHANGED <<g, join, cancelled, preempted, scheduled, ran, round, node, cache,
                       conds, jumped>>
    PROVE  Placed' /\ Quiet
<1>1. /\ wpc'[w] = l /\ \A v \in Worker \ {w} : wpc'[v] = wpc[v] /\ k'[v] = k[v]
      /\ l \in WorkerPC BY DEF Placed, Types, WorkerPC
<1>2. /\ waiters' = [waiters EXCEPT ![s] = <<>>]
      /\ got' = [got EXCEPT ![w] = @ \o waiters[s]] BY DEF ReleaseOne
<1>3. \A v \in Worker, m \in Node : With(v, m)' <=> With(v, m) BY <1>1 DEF With
<1>4. Alones' /\ SameFlight /\ Shifts BY <1>2, <1>3, ReleaseMoves
<1>5. ASSUME NEW b \in Worker, NEW m \in Node, With(b, m)
      PROVE  /\ wpc'[b] \in Earlier <=> wpc[b] \in Earlier
             /\ m \in preempted => wpc'[b] = wpc[b]
  <2>1. CASE b = w
    <3>1. wpc[w] = "release" /\ m = node[w] BY <1>5, <2>1 DEF With
    <3>2. m \notin preempted BY <3>1, AtWork DEF Away
    <3> QED BY <1>1, <2>1, <3>1, <3>2 DEF Earlier
  <2>2. CASE b # w BY <1>1, <2>2
  <2> QED BY <2>1, <2>2
<1>6. Works' /\ Modules' BY <1>4, <1>5, Shifted
<1>7. Types'
  <2>1. waiters' \in [Sem -> Seq(Node)] BY <1>2 DEF Placed, Types
  <2>2. got' \in [Worker -> Seq(Node)]
    <3>1. got[w] \o waiters[s] \in Seq(Node) BY ConcatProperties DEF Placed, Types
    <3> QED BY <1>2, <3>1 DEF Placed, Types
  <2>3. k' \in [Worker -> Nat] /\ wpc' \in [Worker -> WorkerPC] BY <1>1 DEF Placed, Types
  <2> QED BY <2>1, <2>2, <2>3 DEF Placed, Types
<1>8. Workers'
  <2>1. \A v \in Worker \ {w} : got'[v] = got[v] BY <1>2 DEF Placed, Types
  <2> QED BY <1>1, <2>1, OthersOK DEF Placed
<1>9. Cancels' BY DEF Placed, Cancels
<1>10. SameCounts BY <1>1, <1>3, CountsKept DEF Placed
<1> QED BY <1>4, <1>6, <1>7, <1>8, <1>9, <1>10 DEF Placed, Quiet, Keeps

LEMMA RollbackStep ==
    ASSUME Hyps, Placed, NEW w \in Worker, Rollback(w) PROVE Placed' /\ Quiet
<1>1. /\ wpc[w] = "rollback" /\ node[w] \in Node /\ WorkerOK(w)
      /\ k[w] \in 1 .. Len(g.acquire[node[w]]) /\ g.acquire[node[w]] \in Seq(Sem)
  BY Graphs DEF Rollback, Placed, Workers, WorkerOK
<1>2. PICK s \in Sem : s = g.acquire[node[w]][k[w]] BY <1>1
<1>3. PICK l \in {"rollback", "requeue"}, j \in Nat :
         /\ l = IF k[w] > 1 THEN "rollback" ELSE "requeue"
         /\ j = IF k[w] > 1 THEN k[w] - 1 ELSE k[w] BY <1>1
<1>4. /\ wpc' = [wpc EXCEPT ![w] = l] /\ k' = [k EXCEPT ![w] = j] /\ ReleaseOne(w, s)
      /\ UNCHANGED <<g, join, cancelled, preempted, scheduled, ran, round, node, cache,
                     conds, jumped>>
  <2>1. wpc' = [wpc EXCEPT ![w] = l] /\ k' = [k EXCEPT ![w] = j]
    BY <1>1, <1>3 DEF Rollback, Goto, Placed, Types
  <2> QED BY <1>2, <2>1 DEF Rollback, historyVars
<1>5. WorkerOK(w)'
  <2>1. wpc'[w] = l /\ k'[w] = j BY <1>4 DEF Placed, Types
  <2>2. l = "rollback" => j \in 1 .. Len(g.acquire[node[w]]) BY <1>1, <1>3
  <2> QED BY <1>1, <1>4, <2>1, <2>2 DEF WorkerOK
<1> QED BY <1>1, <1>4, <1>5, ReleaseStays

LEMMA ReleaseStep ==
    ASSUME Hyps, Placed, NEW w \in Worker, Release(w) PROVE Placed' /\ Quiet
<1>1. /\ wpc[w] = "release" /\ node[w] \in Node /\ WorkerOK(w)
      /\ k[w] \in 1 .. Len(g.release[node[w]]) /\ g.release[node[w]] \in Seq(Sem)
  BY Graphs DEF Release, Placed, Workers, WorkerOK
<1>2. PICK s \in Sem : s = g.release[node[w]][k[w]] BY <1>1
<1>3. PICK l \in {"release", "wake"}, j \in Nat :
         /\ l = IF k[w] = Len(g.release[node[w]]) THEN "wake" ELSE "release"
         /\ j = k[w] + 1 BY <1>1
<1>4. /\ wpc' = [wpc EXCEPT ![w] = l] /\ k' = [k EXCEPT ![w] = j] /\ ReleaseOne(w, s)
      /\ UNCHANGED <<g, join, cancelled, preempted, scheduled, ran, round, node, cache,
                     conds, jumped>> BY <1>1, <1>2, <1>3 DEF Release, historyVars, Goto
<1>5. WorkerOK(w)'
  <2>1. wpc'[w] = l /\ k'[w] = j BY <1>4 DEF Placed, Types
  <2>2. l = "release" => j \in 1 .. Len(g.release[node[w]]) BY <1>1, <1>3
  <2> QED BY <1>1, <1>4, <2>1, <2>2 DEF WorkerOK
<1> QED BY <1>1, <1>4, <1>5, ReleaseStays

LEMMA WakeMoves ==
    ASSUME Placed, NEW w \in Worker,
           Schedule(Occurrences(got[w])), got' = [got EXCEPT ![w] = <<>>],
           \A v \in Worker, m \in Node : With(v, m)' <=> With(v, m),
           UNCHANGED <<cache, waiters, preempted>>
    PROVE  Alones' /\ SameFlight /\ Shifts /\ scheduled' \in [Node -> Nat]
<1>1. /\ got'[w] = << >> /\ \A v \in Worker \ {w} : got'[v] = got[v]
      /\ got[w] \in Seq(Node) /\ Len(got'[w]) = 0 /\ Len(got[w]) \in Nat BY DEF Placed, Types
<1> DEFINE I(m) == {i \in 1 .. Len(got[w]) : got[w][i] = m}
<1>2. \A m \in Node : scheduled'[m] = scheduled[m] + Cardinality(I(m)) BY DEF Schedule, Occurrences
<1>3. ASSUME NEW m \in Node, NEW i \in I(m)
      PROVE  /\ Here(m, "got", w, i) /\ I(m) = {i}
             /\ scheduled[m] = 0 /\ scheduled'[m] = 1
  <2>1. i \in 1 .. Len(got[w]) /\ got[w][i] = m OBVIOUS
  <2>2. Here(m, "got", w, i) BY <2>1 DEF Here
  <2>3. \A j \in I(m) : j = i BY <2>2, Only DEF Placed
  <2>4. I(m) = {i} BY <2>3
  <2>5. Cardinality(I(m)) = 1 BY <2>4, FS_Singleton
  <2>6. scheduled[m] = 0
    <3>1. \A j \in 1 .. scheduled[m] : FALSE BY <2>2, Only DEF Placed
    <3>2. scheduled[m] \in Nat BY DEF Placed, Types
    <3> QED BY <3>1, <3>2
  <2> QED BY <1>2, <2>2, <2>4, <2>5, <2>6
<1>4. ASSUME NEW m \in Node, I(m) = {}
      PROVE  scheduled'[m] = scheduled[m]
  <2>1. Cardinality(I(m)) = 0 BY <1>4, FS_EmptySet
  <2>2. scheduled[m] \in Nat BY DEF Placed, Types
  <2> QED BY <1>2, <2>1, <2>2
<1>5. ASSUME NEW m \in Node, NEW a, NEW b, NEW c, a # "queue"
      PROVE  Here(m, a, b, c)' <=> Here(m, a, b, c) /\ ~(a = "got" /\ b = w)
  <2>1. CASE a = "got" BY <1>1, <2>1 DEF Here
  <2>2. CASE a = "worker"
    <3>1. b \in Worker => (With(b, m)' <=> With(b, m)) OBVIOUS
    <3> QED BY <2>2, <3>1 DEF Here
  <2>3. CASE a \notin {"got", "worker"} BY <1>5, <2>3 DEF Here
  <2> QED BY <2>1, <2>2, <2>3
<1>6. ASSUME NEW m \in Node, NEW b, NEW c
      PROVE  Here(m, "queue", b, c)' <=>
                IF I(m) = {} THEN Here(m, "queue", b, c) ELSE b = 0 /\ c = 1
  <2>1. CASE I(m) = {} BY <1>4, <2>1 DEF Here
  <2>2. CASE I(m) # {}
    <3>1. scheduled'[m] = 1 BY <1>3, <2>2
    <3>2. c \in 1 .. 1 <=> c = 1 OBVIOUS
    <3> QED BY <2>2, <3>1, <3>2 DEF Here
  <2> QED BY <2>1, <2>2
<1>7. ASSUME NEW m \in Node, NEW i \in I(m), NEW a, NEW b, NEW c, Here(m, a, b, c)'
      PROVE  a = "queue" /\ b = 0 /\ c = 1
  <2>1. CASE a = "queue" BY <1>6, <1>7, <2>1
  <2>2. CASE a # "queue"
    <3>1. Here(m, a, b, c) /\ ~(a = "got" /\ b = w) BY <1>5, <1>7, <2>2
    <3> QED BY <1>3, <3>1 DEF Placed, Alones
  <2> QED BY <2>1, <2>2
<1>8. ASSUME NEW m \in Node, I(m) = {}, NEW a, NEW b, NEW c, Here(m, a, b, c)'
      PROVE  Here(m, a, b, c) BY <1>5, <1>6, <1>8
<1>9. Alones'
  <2> SUFFICES ASSUME NEW m \in Node, NEW a, NEW b, NEW c, NEW d, NEW e, NEW f,
                      Here(m, a, b, c)', Here(m, d, e, f)'
               PROVE  a = d /\ b = e /\ c = f BY DEF Alones
  <2>1. CASE I(m) = {}
    <3>1. Here(m, a, b, c) /\ Here(m, d, e, f) BY <1>8, <2>1
    <3> QED BY <3>1 DEF Placed, Alones
  <2>2. CASE I(m) # {} BY <1>7, <2>2
  <2> QED BY <2>1, <2>2
<1>10. Shifts
  <2> SUFFICES ASSUME NEW m \in Node, NEW a, NEW b, NEW c, Here(m, a, b, c)'
               PROVE  IF a = "worker" THEN Here(m, a, b, c)
                      ELSE \E d, e, f : d # "worker" /\ Here(m, d, e, f) BY DEF Shifts
  <2>1. CASE I(m) = {} BY <1>8, <2>1
  <2>2. CASE I(m) # {}
    <3>1. PICK i \in I(m) : TRUE BY <2>2
    <3>2. a # "worker" /\ Here(m, "got", w, i) BY <1>3, <1>7, <3>1
    <3> QED BY <3>2
  <2> QED BY <2>1, <2>2
<1>11. SameFlight
  <2>1. ASSUME NEW m \in Node, I(m) = {} PROVE Live(m)' <=> Live(m)
    <3>1. \A a, b, c : Here(m, a, b, c) => Here(m, a, b, c)'
      <4> SUFFICES ASSUME NEW a, NEW b, NEW c, Here(m, a, b, c) PROVE Here(m, a, b, c)' OBVIOUS
      <4>1. CASE a = "queue" BY <1>6, <2>1, <4>1
      <4>2. CASE a # "queue"
        <5>1. ~(a = "got" /\ b = w) BY <2>1 DEF Here
        <5> QED BY <1>5, <4>2, <5>1
      <4> QED BY <4>1, <4>2
    <3> QED BY <1>8, <2>1, <3>1 DEF Live
  <2>2. ASSUME NEW m \in Node, NEW i \in I(m) PROVE Live(m)' /\ Live(m)
    <3>1. Here(m, "got", w, i) /\ Here(m, "queue", 0, 1)' BY <1>3, <1>6
    <3> QED BY <3>1 DEF Live
  <2>3. ASSUME NEW m \in Node PROVE Live(m)' <=> Live(m) BY <2>1, <2>2
  <2> QED BY <2>3 DEF SameFlight, InFlight
<1>12. scheduled' \in [Node -> Nat]
  <2>1. \A m \in Node : scheduled[m] \in Nat /\ scheduled'[m] \in Nat
    <3> SUFFICES ASSUME NEW m \in Node PROVE scheduled[m] \in Nat /\ scheduled'[m] \in Nat OBVIOUS
    <3>1. scheduled[m] \in Nat BY DEF Placed, Types
    <3>2. CASE I(m) = {} BY <1>4, <3>1, <3>2
    <3>3. CASE I(m) # {} BY <1>3, <3>1, <3>3
    <3> QED BY <3>1, <3>2, <3>3
  <2>2. scheduled' = [m \in Node |-> scheduled[m] + Occurrences(got[w])[m]] BY DEF Schedule
  <2>3. scheduled' = [m \in Node |-> scheduled'[m]] BY <2>2
  <2> QED BY <2>1, <2>3
<1> QED BY <1>9, <1>10, <1>11, <1>12

LEMMA WakeStep ==
    ASSUME Placed, NEW w \in Worker, Wake(w) PROVE Placed' /\ Quiet
<1>1. /\ wpc[w] = "wake" /\ wpc' = [wpc EXCEPT ![w] = "reset"] /\ Schedule(Occurrences(got[w]))
      /\ got' = [got EXCEPT ![w] = <<>>]
      /\ UNCHANGED <<g, join, cancelled, preempted, waiters, ran, round, node, cache, k,
                     conds, jumped>> BY DEF Wake, Goto, semVars, historyVars
<1>2. wpc'[w] = "reset" /\ \A v \in Worker \ {w} : wpc'[v] = wpc[v] BY <1>1 DEF Placed, Types
<1>3. \A v \in Worker, m \in Node : With(v, m)' <=> With(v, m) BY <1>1, <1>2 DEF With
<1>4. Alones' /\ SameFlight /\ Shifts /\ scheduled' \in [Node -> Nat] BY <1>1, <1>3, WakeMoves
<1>5. ASSUME NEW b \in Worker, NEW m \in Node, With(b, m)
      PROVE  /\ wpc'[b] \in Earlier <=> wpc[b] \in Earlier
             /\ m \in preempted => wpc'[b] = wpc[b]
  <2>1. CASE b = w
    <3>1. m = node[w] BY <1>5, <2>1 DEF With
    <3>2. m \notin preempted BY <1>1, <3>1, AtWork DEF Away
    <3> QED BY <1>1, <1>2, <2>1, <3>1, <3>2 DEF Earlier
  <2>2. CASE b # w BY <1>2, <2>2
  <2> QED BY <2>1, <2>2
<1>6. Works' /\ Modules' BY <1>1, <1>4, <1>5, Shifted
<1>7. Types'
  <2>1. got' \in [Worker -> Seq(Node)] /\ wpc' \in [Worker -> WorkerPC]
    BY <1>1 DEF Placed, Types, WorkerPC
  <2> QED BY <1>1, <1>4, <2>1 DEF Placed, Types
<1>8. Workers'
  <2>1. got'[w] = << >> /\ \A v \in Worker \ {w} : got'[v] = got[v] BY <1>1 DEF Placed, Types
  <2>2. WorkerOK(w) BY DEF Placed, Workers
  <2>3. WorkerOK(w)' BY <1>1, <1>2, <2>1, <2>2 DEF WorkerOK
  <2> QED BY <1>1, <1>2, <2>1, <2>3, OthersOK DEF Placed
<1>9. Cancels' BY <1>1 DEF Placed, Cancels
<1>10. SameCounts BY <1>1, <1>2, <1>3, CountsKept DEF Placed
<1> QED BY <1>1, <1>4, <1>6, <1>7, <1>8, <1>9, <1>10 DEF Placed, Quiet, Keeps

LEMMA RequeueStep ==
    ASSUME Hyps, Placed, NEW w \in Worker, Requeue(w) PROVE Placed' /\ Quiet
<1>1. /\ wpc[w] = "requeue" /\ wpc' = [wpc EXCEPT ![w] = "idle"]
      /\ Schedule(Occurrences(got[w])) /\ got' = [got EXCEPT ![w] = <<>>]
      /\ node' = [node EXCEPT ![w] = NoNode] /\ cache' = [cache EXCEPT ![w] = NoNode]
      /\ k' = [k EXCEPT ![w] = 0]
      /\ UNCHANGED <<g, join, cancelled, preempted, waiters, ran, round, conds, jumped>>
  BY DEF Requeue, Continue, Goto, semVars, historyVars
<1>2. /\ wpc'[w] = "idle" /\ node'[w] = NoNode /\ cache'[w] = NoNode
      /\ \A v \in Worker \ {w} : UNCHANGED <<wpc[v], node[v], cache[v], k[v]>>
  BY <1>1 DEF Placed, Types
<1>3. \A v \in Worker, m \in Node : With(v, m)' <=> With(v, m)
  <2>1. \A v \in Worker \ {w}, m \in Node : With(v, m)' <=> With(v, m) BY <1>2 DEF With
  <2>2. \A m \in Node : ~With(w, m) /\ ~With(w, m)' BY <1>1, <1>2 DEF With
  <2> QED BY <2>1, <2>2
<1>4. cache' = cache
  <2>1. cache[w] = NoNode BY <1>1 DEF Placed, Workers, WorkerOK
  <2> QED BY <1>1, <2>1 DEF Placed, Types
<1>5. Alones' /\ SameFlight /\ Shifts /\ scheduled' \in [Node -> Nat] BY <1>1, <1>3, <1>4, WakeMoves
<1>6. Works' /\ Modules'
  <2>1. ASSUME NEW b \in Worker, NEW m \in Node, With(b, m) PROVE wpc'[b] = wpc[b]
    BY <1>1, <1>2, <2>1 DEF With
  <2> QED BY <1>1, <1>5, <2>1, Shifted
<1>7. Types'
  <2>1. /\ got' \in [Worker -> Seq(Node)] /\ wpc' \in [Worker -> WorkerPC]
        /\ node' \in [Worker -> Node \cup {NoNode}] /\ cache' \in [Worker -> Node \cup {NoNode}]
        /\ k' \in [Worker -> Nat] BY <1>1 DEF Placed, Types, WorkerPC
  <2> QED BY <1>1, <1>5, <2>1 DEF Placed, Types
<1>8. Workers'
  <2>1. got'[w] = << >> /\ \A v \in Worker \ {w} : got'[v] = got[v] BY <1>1 DEF Placed, Types
  <2>2. WorkerOK(w) BY DEF Placed, Workers
  <2>3. WorkerOK(w)' BY <1>1, <1>2, <2>1, <2>2 DEF WorkerOK
  <2> QED BY <1>1, <1>2, <2>1, <2>3, OthersOK DEF Placed
<1>9. Cancels' BY <1>1 DEF Placed, Cancels
<1>10. SameCounts
  <2>1. \A m \in Node : ~With(w, m) /\ ~With(w, m)' BY <1>1, <1>2 DEF With
  <2> QED BY <1>1, <1>2, <2>1, CountsKept DEF Placed
<1> QED BY <1>1, <1>5, <1>6, <1>7, <1>8, <1>9, <1>10 DEF Placed, Quiet, Keeps

\* A task does its work; the graph of a module is finished then, or empty.
Work(n) ==
    /\ Keeps /\ SameFlight /\ SameCounts /\ UNCHANGED <<join, round>>
    /\ n \in Node /\ Live(n) /\ ran[n] = 0 /\ ran' = [ran EXCEPT ![n] = 1]
    /\ IF n \in preempted THEN join[n] = 0 ELSE Graph(n) = {}
    /\ preempted' = preempted \ {n}

LEMMA WorkDone ==
    ASSUME Placed, NEW w \in Worker, NEW n \in Node, n = node[w], wpc[w] = "run",
           NEW l \in {"raise", "release", "reset"}, wpc' = [wpc EXCEPT ![w] = l],
           ran' = [ran EXCEPT ![n] = @ + 1],
           n \in preempted \/ Graph(n) = {}, preempted' = preempted \ {n},
           \A v \in Worker \ {w} : k'[v] = k[v],
           Top \in cancelled => Top \in cancelled',
           UNCHANGED <<g, join, scheduled, waiters, round, node, cache, got>>
    PROVE  Alones' /\ Works' /\ Modules' /\ ran' \in [Node -> {0, 1}] /\ Work(n)
<1>1. /\ With(w, n) /\ Here(n, "worker", w, 0) /\ ran[n] = 0 /\ (n \in preempted => join[n] = 0)
      /\ \A m : With(w, m) => m = n
  <2>1. /\ With(w, n) /\ Here(n, "worker", w, 0) /\ ran[n] # 1 /\ (n \in preempted => join[n] = 0)
        /\ \A m : With(w, m) => m = n BY AtWork DEF Away, Earlier
  <2> QED BY <2>1 DEF Placed, Types
<1>2. /\ wpc'[w] = l /\ \A v \in Worker \ {w} : wpc'[v] = wpc[v]
      /\ l \in WorkerPC /\ l \notin Earlier /\ l # "countOff" /\ l \notin Away
  BY DEF Placed, Types, WorkerPC, Earlier, Away
<1>3. ran' = [ran EXCEPT ![n] = 1] /\ ran' \in [Node -> {0, 1}] /\ ran'[n] = 1
      /\ \A m \in Node \ {n} : ran'[m] = ran[m] BY <1>1 DEF Placed, Types
<1>4. SameHere BY <1>2, NobodyMoves DEF Placed, Away
<1>5. Alones' BY <1>4, NoneMoves DEF Placed, SameHere
<1>6. \A v \in Worker, m \in Node : With(v, m)' <=> With(v, m) BY <1>2 DEF With, Away
<1>7. ASSUME NEW m \in Node, NEW a, NEW b, NEW c, Here(m, a, b, c)'
      PROVE  IF a = "worker" THEN ran'[m] = 1 <=> wpc'[b] \notin Earlier ELSE ran'[m] = 0
  <2>1. Here(m, a, b, c) BY <1>4, <1>7 DEF SameHere
  <2>2. CASE m = n
    <3>1. a = "worker" /\ b = w BY <1>1, <2>1, <2>2 DEF Placed, Alones
    <3> QED BY <1>2, <1>3, <2>2, <3>1
  <2>3. CASE m # n
    <3>1. a = "worker" => b \in Worker /\ b # w BY <1>1, <2>1, <2>3 DEF Here
    <3> QED BY <1>2, <1>3, <2>1, <2>3, <3>1 DEF Placed, Works
  <2> QED BY <2>2, <2>3
<1>8. Works' BY <1>7 DEF Works
<1>9. ASSUME NEW m \in preempted', NEW a, NEW b, NEW c, Here(m, a, b, c)'
      PROVE  a = "worker" /\ wpc'[b] \in {"begin", "run"} /\ join[m] = 0
  <2>1. m \in Node /\ m # n /\ m \in preempted BY <1>9 DEF Placed, Types
  <2>2. Here(m, a, b, c) BY <1>4, <1>9, <2>1 DEF SameHere
  <2>3. a = "worker" /\ wpc[b] \in {"begin", "run"} /\ join[m] = 0 BY <2>1, <2>2 DEF Placed, Modules
  <2>4. b \in Worker /\ b # w BY <1>1, <2>1, <2>2, <2>3 DEF Here
  <2> QED BY <1>2, <2>3, <2>4
<1>10. \A m \in preempted' : g.kind[m] = "module" /\ ran'[m] = 0 BY <1>3 DEF Placed, Modules, Types
<1>11. Modules' BY <1>9, <1>10 DEF Modules
<1>12. Live(n) BY <1>1 DEF Live
<1>13. SameFlight
  <2>1. ASSUME NEW m \in Node PROVE Live(m)' <=> Live(m) BY <1>4 DEF SameHere, Live
  <2>2. ASSUME NEW m \in Node PROVE InFlight(m)' <=> InFlight(m)
    <3>1. CASE m = n BY <1>12, <2>1, <3>1 DEF InFlight
    <3>2. CASE m # n BY <2>1, <3>2 DEF InFlight
    <3> QED BY <3>1, <3>2
  <2> QED BY <2>2 DEF SameFlight
<1>14. SameCounts
  <2> SUFFICES ASSUME NEW m \in Node
               PROVE  /\ WasReset(m)' <=> WasReset(m)
                      /\ \A i \in 1 .. Len(g.succ[m]) : CountedOff(m, i)' <=> CountedOff(m, i)
    BY DEF SameCounts
  <2>1. CASE m = n
    <3>1. With(w, n)' /\ wpc'[w] # "countOff" BY <1>1, <1>2, <1>6
    <3>2. ~WasReset(n)' /\ \A i : ~CountedOff(n, i)' BY <3>1 DEF WasReset, CountedOff
    <3>3. ~WasReset(n) /\ \A i : ~CountedOff(n, i) BY <1>1 DEF WasReset, CountedOff
    <3> QED BY <2>1, <3>2, <3>3
  <2>2. CASE m # n
    <3>1. \A v \in Worker : With(v, m)' <=> With(v, m) BY <1>6
    <3>2. \A v \in Worker : With(v, m) => wpc'[v] = wpc[v] /\ k'[v] = k[v] BY <1>1, <1>2, <2>2
    <3>3. WasReset(m)' <=> WasReset(m) BY <1>3, <2>2, <3>1, <3>2 DEF WasReset
    <3>4. ASSUME NEW i PROVE CountedOff(m, i)' <=> CountedOff(m, i)
      BY <1>3, <2>2, <3>1, <3>2 DEF CountedOff
    <3> QED BY <3>3, <3>4
  <2> QED BY <2>1, <2>2
<1>15. IF n \in preempted THEN join[n] = 0 ELSE Graph(n) = {} BY <1>1
<1> QED BY <1>1, <1>3, <1>5, <1>8, <1>11, <1>12, <1>13, <1>14, <1>15 DEF Work, Keeps

LEMMA ThrowStep ==
    ASSUME Hyps, Placed, NEW w \in Worker, Throw(w)
    PROVE  Placed' /\ \E n \in Node : Work(n)
<1>1. /\ wpc[w] = "run" /\ wpc' = [wpc EXCEPT ![w] = "raise"]
      /\ ran' = [ran EXCEPT ![node[w]] = @ + 1] /\ g.kind[node[w]] # "module"
      /\ UNCHANGED <<g, join, cancelled, preempted, scheduled, waiters, round, node, cache,
                     got, conds, jumped, k>> BY DEF Throw, Worked, Goto, semVars, workerVars
<1>2. PICK n \in Node : n = node[w] BY <1>1, AtWork DEF Away
<1>3. n \notin preempted BY <1>1, <1>2 DEF Placed, Modules
<1>4. Graph(n) = {} BY <1>1, <1>2, Graphs DEF Graph, Plain, Placed
<1>5. preempted' = preempted \ {n} BY <1>1, <1>3
<1>6. Alones' /\ Works' /\ Modules' /\ ran' \in [Node -> {0, 1}] /\ Work(n)
  BY <1>1, <1>2, <1>4, <1>5, WorkDone
<1>7. Types'
  <2>1. wpc' \in [Worker -> WorkerPC] BY <1>1 DEF Placed, Types, WorkerPC
  <2> QED BY <1>1, <1>6, <2>1 DEF Placed, Types
<1>8. Workers'
  <2>1. wpc'[w] = "raise" /\ \A v \in Worker \ {w} : wpc'[v] = wpc[v] BY <1>1 DEF Placed, Types
  <2>2. WorkerOK(w) BY DEF Placed, Workers
  <2>3. WorkerOK(w)' BY <1>1, <2>1, <2>2 DEF WorkerOK
  <2> QED BY <1>1, <2>1, <2>3, OthersOK DEF Placed
<1>9. Cancels' BY <1>1 DEF Placed, Cancels
<1> QED BY <1>6, <1>7, <1>8, <1>9 DEF Placed

\* A static task, and a module that has no graph or comes back from it.
LEMMA RunStep ==
    ASSUME Hyps, Placed, NEW w \in Worker, RunStatic(w) \/ ResumeModule(w)
    PROVE  Placed' /\ \E n \in Node : Work(n)
<1>1. /\ wpc[w] = "run" /\ wpc' = [wpc EXCEPT ![w] = AfterWork(node[w])]
      /\ ran' = [ran EXCEPT ![node[w]] = @ + 1] /\ k' = [k EXCEPT ![w] = 1]
      /\ UNCHANGED <<g, join, cancelled, scheduled, waiters, round, node, cache,
                     got, conds, jumped>> BY DEF RunStatic, ResumeModule, Worked, Goto, semVars
<1>2. PICK n \in Node : n = node[w] BY <1>1, AtWork DEF Away
<1>3. n \in preempted \/ Graph(n) = {}
  <2>1. CASE RunStatic(w)
    <3>1. g.kind[n] = "static" BY <1>2, <2>1 DEF RunStatic
    <3> QED BY <3>1, Graphs DEF Graph, Plain, Placed
  <2>2. CASE ResumeModule(w) BY <1>2, <2>2 DEF ResumeModule
  <2> QED BY <2>1, <2>2
<1>4. preempted' = preempted \ {n}
  <2>1. CASE RunStatic(w)
    <3>1. g.kind[n] = "static" /\ preempted' = preempted BY <1>2, <2>1 DEF RunStatic
    <3>2. n \notin preempted BY <3>1 DEF Placed, Modules
    <3> QED BY <3>1, <3>2
  <2>2. CASE ResumeModule(w) BY <1>2, <2>2 DEF ResumeModule
  <2> QED BY <2>1, <2>2
<1>5. PICK l \in {"release", "reset"} : l = AfterWork(node[w]) BY DEF AfterWork
<1>6. /\ wpc'[w] = l /\ k'[w] = 1 /\ l \in WorkerPC
      /\ \A v \in Worker \ {w} : wpc'[v] = wpc[v] /\ k'[v] = k[v]
  BY <1>1, <1>5 DEF Placed, Types, WorkerPC
<1>7. Alones' /\ Works' /\ Modules' /\ ran' \in [Node -> {0, 1}] /\ Work(n)
  <2>1. /\ wpc' = [wpc EXCEPT ![w] = l] /\ l \in {"raise", "release", "reset"}
        /\ ran' = [ran EXCEPT ![n] = @ + 1] BY <1>1, <1>2, <1>5
  <2> QED BY <1>1, <1>2, <1>3, <1>4, <1>6, <2>1, WorkDone
<1>8. Types'
  <2>1. wpc' \in [Worker -> WorkerPC] /\ k' \in [Worker -> Nat] /\ preempted' \subseteq Node
    BY <1>1, <1>4, <1>5, <1>6 DEF Placed, Types
  <2> QED BY <1>1, <1>7, <2>1 DEF Placed, Types
<1>9. Workers'
  <2>1. WorkerOK(w) BY DEF Placed, Workers
  <2>2. l = "release" => 1 \in 1 .. Len(g.release[n])
    <3>1. l = "release" => g.release[n] # <<>> BY <1>2, <1>5 DEF AfterWork
    <3> QED BY <3>1, Graphs DEF Placed
  <2>3. WorkerOK(w)' BY <1>1, <1>2, <1>5, <1>6, <2>1, <2>2 DEF WorkerOK
  <2> QED BY <1>1, <1>6, <2>3, OthersOK DEF Placed
<1>10. Cancels' BY <1>1 DEF Placed, Cancels
<1> QED BY <1>7, <1>8, <1>9, <1>10 DEF Placed

\* The edges that lead to a task, in a graph without conditions.
LEMMA StrongEdges ==
    ASSUME Hyps, g \in Shapes, NEW n \in Node
    PROVE  /\ IsFiniteSet(In(n)) /\ StrongDependencies(n) = Cardinality(In(n))
           /\ StrongDependencies(n) \in Nat
           /\ In(n) = {} <=> Predecessors(n) = {}
           /\ \A m \in Node : \A i \in 1 .. Len(g.succ[m]) : g.succ[m][i] = n => <<m, i>> \in In(n)
           /\ \A e \in In(n) : /\ e[1] \in Node /\ e[2] \in 1 .. Len(g.succ[e[1]])
                               /\ g.succ[e[1]][e[2]] = n /\ e = <<e[1], e[2]>>
                               /\ g.parent[e[1]] = g.parent[n] /\ g.parent[n] # NoNode
                               /\ e[1] \in Predecessors(n)
<1>1. {p \in Predecessors(n) : ~IsConditioner(p)} = Predecessors(n) BY PlainGraph DEF Predecessors
<1>2. IsFiniteSet(In(n))
  <2>1. IsFiniteSet(Predecessors(n)) BY FS_Subset DEF Predecessors, Hyps, GraphAssumption
  <2>2. \A m \in Predecessors(n) : IsFiniteSet({m} \X Edges(m, n))
    <3> SUFFICES ASSUME NEW m \in Predecessors(n) PROVE IsFiniteSet({m} \X Edges(m, n)) OBVIOUS
    <3>1. Len(g.succ[m]) \in Nat BY PlainGraph DEF Predecessors
    <3>2. IsFiniteSet(1 .. Len(g.succ[m])) BY <3>1, FS_Interval
    <3>3. IsFiniteSet(Edges(m, n)) BY <3>2, FS_Subset DEF Edges
    <3> QED BY <3>3, FS_Singleton, FS_Product
  <2> DEFINE SS == {{m} \X Edges(m, n) : m \in Predecessors(n)}
  <2>3. IsFiniteSet(SS)
    <3> DEFINE f == [m \in Predecessors(n) |-> {m} \X Edges(m, n)]
    <3>1. f \in Surjection(Predecessors(n), SS) BY DEF Surjection
    <3> QED BY <2>1, <3>1, FS_Surjection
  <2>4. \A S \in SS : IsFiniteSet(S) BY <2>2
  <2>5. IsFiniteSet(UNION SS)
    <3> HIDE DEF SS
    <3> QED BY <2>3, <2>4, FS_UNION
  <2> QED BY <2>5 DEF In
<1>3. StrongDependencies(n) = Cardinality(In(n)) BY <1>1 DEF StrongDependencies, In
<1>4. Cardinality(In(n)) \in Nat BY <1>2, FS_CardinalityType
<1>5. \A m \in Node : \A i \in 1 .. Len(g.succ[m]) : g.succ[m][i] = n => <<m, i>> \in In(n)
  BY DEF In, Predecessors, Edges
<1>6. ASSUME NEW e \in In(n)
      PROVE  /\ e[1] \in Node /\ e[2] \in 1 .. Len(g.succ[e[1]])
             /\ g.succ[e[1]][e[2]] = n /\ e = <<e[1], e[2]>>
             /\ g.parent[e[1]] = g.parent[n] /\ g.parent[n] # NoNode
             /\ e[1] \in Predecessors(n)
  <2>1. PICK m \in Predecessors(n) : e \in {m} \X Edges(m, n) BY DEF In
  <2>2. e[1] = m /\ e[2] \in Edges(m, n) /\ e = <<e[1], e[2]>> BY <2>1
  <2>3. m \in Node /\ e[2] \in 1 .. Len(g.succ[m]) /\ g.succ[m][e[2]] = n
    BY <2>2 DEF Predecessors, Edges
  <2>4. g.parent[m] = g.parent[n] /\ g.parent[n] # NoNode BY <2>3, PlainGraph
  <2> QED BY <2>1, <2>2, <2>3, <2>4
<1>7. In(n) = {} <=> Predecessors(n) = {}
  <2>1. ASSUME NEW m \in Predecessors(n) PROVE In(n) # {}
    <3>1. PICK i \in Edges(m, n) : TRUE BY DEF Predecessors
    <3>2. <<m, i>> \in In(n) BY DEF In
    <3> QED BY <3>2
  <2>2. In(n) # {} => Predecessors(n) # {} BY DEF In
  <2> QED BY <2>1, <2>2
<1> QED BY <1>2, <1>3, <1>4, <1>5, <1>6, <1>7

LEMMA Strong ==
    ASSUME Hyps, Types, NEW n \in Node
    PROVE  /\ IsFiniteSet(In(n)) /\ StrongDependencies(n) = Cardinality(In(n))
           /\ StrongDependencies(n) \in Nat
           /\ In(n) = {} <=> Predecessors(n) = {}
           /\ \A m \in Node : \A i \in 1 .. Len(g.succ[m]) : g.succ[m][i] = n => <<m, i>> \in In(n)
           /\ \A e \in In(n) : /\ e[1] \in Node /\ e[2] \in 1 .. Len(g.succ[e[1]])
                               /\ g.succ[e[1]][e[2]] = n /\ e = <<e[1], e[2]>>
                               /\ g.parent[e[1]] = g.parent[n] /\ g.parent[n] # NoNode
                               /\ e[1] \in Predecessors(n)
BY StrongEdges DEF Types

\* A task's counter is restored.
Restores(n) ==
    /\ Keeps /\ SameFlight /\ UNCHANGED <<preempted, ran, round>>
    /\ n \in Node \ preempted /\ Live(n) /\ ran[n] = 1
    /\ ~WasReset(n) /\ WasReset(n)'
    /\ \A m \in Node \ {n} : WasReset(m)' <=> WasReset(m)
    /\ \A m \in Node : \A i \in 1 .. Len(g.succ[m]) : CountedOff(m, i)' <=> CountedOff(m, i)
    /\ join' = [join EXCEPT ![n] = @ + StrongDependencies(n)]

LEMMA ResetStep ==
    ASSUME Hyps, Placed, NEW w \in Worker, Reset(w)
    PROVE  Placed' /\ \E n \in Node : Restores(n)
<1>1. PICK n \in Node : n = node[w] BY AtWork DEF Reset, Away
<1>2. /\ With(w, n) /\ Here(n, "worker", w, 0) /\ ran[n] = 1 /\ n \notin preempted
      /\ \A m : With(w, m) => m = n BY <1>1, AtWork DEF Reset, Away, Earlier
<1>3. g.kind[n] \in {"static", "module"} /\ ~IsConditioner(n) BY Graphs DEF Placed
<1>4. /\ wpc[w] = "reset" /\ wpc' = [wpc EXCEPT ![w] = "countOff"]
      /\ join' = [join EXCEPT ![n] = @ + StrongDependencies(n)] /\ k' = [k EXCEPT ![w] = 1]
      /\ UNCHANGED <<g, cancelled, preempted, scheduled, waiters, round, node, cache, ran,
                     got, conds, jumped>> BY <1>1, <1>3 DEF Reset, Goto, semVars, historyVars
<1>5. /\ wpc'[w] = "countOff" /\ k'[w] = 1
      /\ \A v \in Worker \ {w} : wpc'[v] = wpc[v] /\ k'[v] = k[v] BY <1>4 DEF Placed, Types
<1>6. \A v \in Worker, m \in Node : With(v, m)' <=> With(v, m) BY <1>4, <1>5 DEF With
<1>7. SameHere BY <1>4, NobodyMoves DEF Placed, WorkerPC
<1>8. Alones' BY <1>7, NoneMoves DEF Placed, SameHere
<1>9. \A v \in Worker : With(v, n) => v = w BY <1>2, Only DEF Placed
<1>10. Works'
  <2> SUFFICES ASSUME NEW m \in Node, NEW a, NEW b, NEW c, Here(m, a, b, c)'
               PROVE  IF a = "worker" THEN ran[m] = 1 <=> wpc'[b] \notin Earlier ELSE ran[m] = 0
    BY <1>4 DEF Works
  <2>1. Here(m, a, b, c) BY <1>7 DEF SameHere
  <2>2. IF a = "worker" THEN ran[m] = 1 <=> wpc[b] \notin Earlier ELSE ran[m] = 0
    BY <2>1 DEF Placed, Works
  <2>3. a = "worker" => b \in Worker BY <2>1 DEF Here
  <2>4. wpc'[w] \notin Earlier /\ wpc[w] \notin Earlier BY <1>4, <1>5 DEF Earlier
  <2> QED BY <1>5, <2>2, <2>3, <2>4
<1>11. Modules'
  <2> SUFFICES ASSUME NEW m \in preempted, NEW a, NEW b, NEW c, Here(m, a, b, c)'
               PROVE  a = "worker" /\ wpc'[b] \in {"begin", "run"} /\ join'[m] = 0
    BY <1>4 DEF Modules, Placed
  <2>1. m \in Node /\ m # n BY <1>2 DEF Placed, Types
  <2>2. Here(m, a, b, c) BY <1>7, <2>1 DEF SameHere
  <2>3. a = "worker" /\ wpc[b] \in {"begin", "run"} /\ join[m] = 0 BY <2>1, <2>2 DEF Placed, Modules
  <2>4. b \in Worker /\ b # w BY <1>2, <2>1, <2>2, <2>3 DEF Here
  <2>5. join'[m] = join[m] BY <1>4, <2>1 DEF Placed, Types
  <2> QED BY <1>5, <2>3, <2>4, <2>5
<1>12. Types'
  <2>1. join[n] + StrongDependencies(n) \in Int BY <1>4, Strong DEF Placed, Types
  <2>2. join' \in [Node \cup {Top} -> Int] BY <1>4, <2>1 DEF Placed, Types
  <2>3. wpc' \in [Worker -> WorkerPC] /\ k' \in [Worker -> Nat] BY <1>4 DEF Placed, Types, WorkerPC
  <2> QED BY <1>4, <2>2, <2>3 DEF Placed, Types
<1>13. Workers'
  <2>1. WorkerOK(w) BY DEF Placed, Workers
  <2>2. WorkerOK(w)' BY <1>4, <1>5, <2>1 DEF WorkerOK
  <2> QED BY <1>4, <1>5, <2>2, OthersOK DEF Placed
<1>14. Cancels' BY <1>4 DEF Placed, Cancels
<1>15. SameFlight BY <1>4, <1>7, FlightKept
<1>16. Restores(n)
  <2>1. Live(n) BY <1>2 DEF Live
  <2>2. ~WasReset(n) /\ \A i : ~CountedOff(n, i) BY <1>2, <1>4 DEF WasReset, CountedOff
  <2>3. WasReset(n)' BY <1>2, <1>4, <1>5, <1>6, <1>9 DEF WasReset
  <2>4. \A i \in 1 .. Len(g.succ[n]) : ~CountedOff(n, i)' BY <1>2, <1>5, <1>6 DEF CountedOff
  <2>5. ASSUME NEW m \in Node, m # n
        PROVE  /\ WasReset(m)' <=> WasReset(m)
               /\ \A i \in 1 .. Len(g.succ[m]) : CountedOff(m, i)' <=> CountedOff(m, i)
    <3>1. \A v \in Worker : With(v, m)' <=> With(v, m) BY <1>6
    <3>2. \A v \in Worker : With(v, m) => wpc'[v] = wpc[v] /\ k'[v] = k[v] BY <1>2, <1>5, <2>5
    <3>3. WasReset(m)' <=> WasReset(m) BY <1>4, <3>1, <3>2 DEF WasReset
    <3>4. ASSUME NEW i PROVE CountedOff(m, i)' <=> CountedOff(m, i)
      BY <1>4, <3>1, <3>2 DEF CountedOff
    <3> QED BY <3>3, <3>4
  <2>6. \A m \in Node \ {n} : WasReset(m)' <=> WasReset(m) BY <2>5
  <2>7. \A m \in Node : \A i \in 1 .. Len(g.succ[m]) : CountedOff(m, i)' <=> CountedOff(m, i)
    BY <2>2, <2>4, <2>5
  <2> QED BY <1>2, <1>4, <1>15, <2>1, <2>2, <2>3, <2>6, <2>7 DEF Restores, Keeps
<1> QED BY <1>8, <1>10, <1>11, <1>12, <1>13, <1>14, <1>16 DEF Placed

-----------------------------------------------------------------------------
(* The steps that need to know what is in flight. *)

LEMMA FlyingFinite == ASSUME Hyps, NEW p PROVE IsFiniteSet(Flying(p)) /\ Cardinality(Flying(p)) \in Nat
<1>1. IsFiniteSet(Flying(p)) BY FS_Subset DEF Flying, Graph, Hyps, GraphAssumption
<1> QED BY <1>1, FS_CardinalityType

LEMMA FlyingFiniteNext ==
    ASSUME Hyps, NEW p PROVE IsFiniteSet(Flying(p)') /\ Cardinality(Flying(p)') \in Nat
<1>1. IsFiniteSet(Flying(p)')
  <2>1. IsFiniteSet(Node) /\ Flying(p)' \subseteq Node BY DEF Flying, Graph, Hyps, GraphAssumption
  <2> QED BY <2>1, FS_Subset
<1> QED BY <1>1, FS_CardinalityType

\* A task in flight is counted.
LEMMA IsCounted ==
    ASSUME Hyps, Placed, Flow, NEW n \in Node, InFlight(n)
    PROVE  /\ round <= Rounds /\ Active(g.parent[n])
           /\ g.parent[n] \in preempted \cup {Top} /\ g.parent[n] \in Node \cup {Top}
           /\ join[g.parent[n]] \in Nat /\ join[g.parent[n]] >= 1
           /\ g.parent[n] \in preempted => ~\E a, b, c : Here(g.parent[n], a, b, c)
<1>1. round <= Rounds /\ Active(g.parent[n]) BY DEF Flow, Flights
<1>2. g.parent[n] \in preempted \cup {Top} /\ g.parent[n] \in Node \cup {Top}
  BY <1>1 DEF Active, Placed, Types
<1>3. n \in Flying(g.parent[n]) BY DEF Flying, Graph
<1>4. join[g.parent[n]] = Cardinality(Flying(g.parent[n])) BY <1>2 DEF Flow, Counted
<1>5. Cardinality(Flying(g.parent[n])) # 0 BY <1>3, FlyingFinite, FS_EmptySet
<1>6. join[g.parent[n]] \in Nat /\ join[g.parent[n]] >= 1 BY <1>4, <1>5, FlyingFinite
<1>7. g.parent[n] \in preempted => ~\E a, b, c : Here(g.parent[n], a, b, c)
  BY <1>6 DEF Placed, Modules
<1> QED BY <1>1, <1>2, <1>6, <1>7

\* A task counts off one of its dependents, which may then be in flight.
CountsOff(n, i) ==
    LET s == g.succ[n][i] IN
    /\ Keeps /\ UNCHANGED <<preempted, ran, round>>
    /\ n \in Node \ preempted /\ Live(n) /\ ran[n] = 1
    /\ i \in 1 .. Len(g.succ[n]) /\ ~CountedOff(n, i) /\ CountedOff(n, i)'
    /\ \A m \in Node : WasReset(m)' <=> WasReset(m)
    /\ \A m \in Node : \A j \in 1 .. Len(g.succ[m]) :
          m # n \/ j # i => (CountedOff(m, j)' <=> CountedOff(m, j))
    /\ \A m \in Node : InFlight(m)' <=> InFlight(m) \/ (m = s /\ join[s] = 1)
    /\ join' = IF join[s] = 1 THEN [join EXCEPT ![s] = 0, ![g.parent[n]] = @ + 1]
                              ELSE [join EXCEPT ![s] = @ - 1]

\* A dependent that a worker is about to count off is not in flight yet.
LEMMA AtEdge ==
    ASSUME Hyps, Placed, Flow, NEW n \in Node, NEW i \in 1 .. Len(g.succ[n]),
           NEW s \in Node, s = g.succ[n][i], ~CountedOff(n, i)
    PROVE  <<n, i>> \in Left(s) /\ ~InFlight(s) /\ ran[s] = 0
<1>1. <<n, i>> \in In(s) BY Strong DEF Placed
<1>2. <<n, i>> \in Left(s) BY <1>1 DEF Left
<1>3. ~InFlight(s) /\ ran[s] # 1 BY <1>2 DEF Flow, Befores
<1> QED BY <1>2, <1>3 DEF Placed, Types

LEMMA CountOffCounts ==
    ASSUME Hyps, Placed, NEW w \in Worker, NEW n \in Node, n = node[w], CountOff(w)
    PROVE  /\ With(w, n) /\ Here(n, "worker", w, 0) /\ ran[n] = 1 /\ n \notin preempted
           /\ k[w] \in 1 .. Len(g.succ[n]) /\ ~CountedOff(n, k[w])
           /\ \A j : j = k[w] => CountedOff(n, j)'
           /\ \A m \in Node : WasReset(m)' <=> WasReset(m)
           /\ \A m \in Node : \A j \in 1 .. Len(g.succ[m]) :
                 m # n \/ j # k[w] => (CountedOff(m, j)' <=> CountedOff(m, j))
           /\ \A v \in Worker \ {w} : k'[v] = k[v]
           /\ k' \in [Worker -> Nat] /\ k'[w] = k[w] + 1
           /\ \A m : With(w, m) => m = n
<1>1. /\ wpc[w] = "countOff" /\ k[w] <= Len(g.succ[n]) /\ k' = [k EXCEPT ![w] = @ + 1]
      /\ UNCHANGED <<wpc, node, ran>> BY DEF CountOff, historyVars
<1>2. /\ With(w, n) /\ Here(n, "worker", w, 0) /\ ran[n] = 1 /\ n \notin preempted
      /\ \A m : With(w, m) => m = n BY <1>1, AtWork DEF Away, Earlier
<1>3. k[w] \in Nat /\ k[w] > 0 /\ Len(g.succ[n]) \in Nat
  <2>1. k[w] \in Nat /\ k[w] > 0 BY <1>1 DEF Placed, Types, Workers, WorkerOK
  <2> QED BY <2>1, Graphs DEF Placed
<1>4. /\ k'[w] = k[w] + 1 /\ \A v \in Worker \ {w} : k'[v] = k[v]
      /\ k' \in [Worker -> Nat] BY <1>1, <1>3 DEF Placed, Types
<1>5. \A v \in Worker, m \in Node : With(v, m)' <=> With(v, m) BY <1>1 DEF With
<1>6. \A v \in Worker : With(v, n) => v = w BY <1>2, Only DEF Placed
<1>7. ~CountedOff(n, k[w]) BY <1>2, <1>3 DEF CountedOff
<1>8. \A j : j = k[w] => CountedOff(n, j)'
  <2> SUFFICES ASSUME NEW j, j = k[w] PROVE CountedOff(n, j)' OBVIOUS
  <2>1. j < k'[w] BY <1>3, <1>4
  <2> QED BY <1>1, <1>2, <1>5, <1>6, <2>1 DEF CountedOff
<1>9. \A m \in Node : WasReset(m)' <=> WasReset(m) BY <1>1, <1>5 DEF WasReset
<1>10. ASSUME NEW m \in Node, NEW j \in 1 .. Len(g.succ[m]), m # n \/ j # k[w]
       PROVE  CountedOff(m, j)' <=> CountedOff(m, j)
  <2>1. CASE m = n
    <3>1. j < k'[w] <=> j < k[w] BY <1>3, <1>4, <1>10, <2>1
    <3> QED BY <1>1, <1>2, <1>5, <1>6, <2>1, <3>1 DEF CountedOff
  <2>2. CASE m # n
    <3>1. \A v \in Worker : With(v, m) => k'[v] = k[v] BY <1>2, <1>4, <2>2
    <3> QED BY <1>1, <1>5, <3>1 DEF CountedOff
  <2> QED BY <2>1, <2>2
<1> QED BY <1>1, <1>2, <1>3, <1>4, <1>7, <1>8, <1>9, <1>10

\* The other dependencies of the task are still to come.
LEMMA CountOffMore ==
    ASSUME Hyps, Placed, Flow, NEW w \in Worker, CountOff(w),
           join[g.succ[node[w]][k[w]]] # 1
    PROVE  Placed' /\ \E n, i : CountsOff(n, i)
<1>1. PICK n \in Node : n = node[w] BY AtWork DEF CountOff, Away
<1>2. PICK i \in 1 .. Len(g.succ[n]) : i = k[w] BY <1>1, CountOffCounts
<1>3. PICK s \in Node : s = g.succ[n][i] BY Graphs DEF Placed
<1>4. /\ With(w, n) /\ Here(n, "worker", w, 0) /\ ran[n] = 1 /\ n \notin preempted
      /\ ~CountedOff(n, i) /\ CountedOff(n, i)'
      /\ \A m \in Node : WasReset(m)' <=> WasReset(m)
      /\ \A m \in Node : \A j \in 1 .. Len(g.succ[m]) :
            m # n \/ j # i => (CountedOff(m, j)' <=> CountedOff(m, j))
      /\ \A v \in Worker \ {w} : k'[v] = k[v]
      /\ k' \in [Worker -> Nat] /\ k'[w] = k[w] + 1 BY <1>1, <1>2, CountOffCounts
<1>5. ~InFlight(s) /\ ran[s] = 0 BY <1>3, <1>4, AtEdge
<1>6. /\ join' = [join EXCEPT ![s] = @ - 1] /\ wpc[w] = "countOff"
      /\ UNCHANGED <<g, cancelled, preempted, scheduled, waiters, round, ran, wpc, node, cache,
                     got, conds, jumped>> BY <1>1, <1>2, <1>3 DEF CountOff, semVars, historyVars
<1>7. SameHere BY <1>6 DEF SameHere, Here, With
<1>8. SameFlight BY <1>6, <1>7, FlightKept
<1>9. Alones' BY <1>7, NoneMoves DEF Placed, SameHere
<1>10. Works' BY <1>6, <1>7 DEF Placed, Works, SameHere
<1>11. Modules'
  <2>1. \A m \in preempted : m \in Node /\ m # s BY <1>5 DEF InFlight, Placed, Types
  <2>2. \A m \in preempted : join'[m] = join[m] BY <1>6, <2>1 DEF Placed, Types
  <2> QED BY <1>6, <1>7, <2>1, <2>2 DEF Placed, Modules, SameHere
<1>12. Types'
  <2>1. join' \in [Node \cup {Top} -> Int] BY <1>6 DEF Placed, Types
  <2> QED BY <1>4, <1>6, <2>1 DEF Placed, Types
<1>13. Workers'
  <2>1. WorkerOK(w) BY DEF Placed, Workers
  <2>2. k[w] \in Nat BY DEF Placed, Types
  <2>3. WorkerOK(w)' BY <1>4, <1>6, <2>1, <2>2 DEF WorkerOK
  <2> QED BY <1>4, <1>6, <2>3, OthersOK DEF Placed
<1>14. Cancels' BY <1>6 DEF Placed, Cancels
<1>15. CountsOff(n, i)
  <2>1. Live(n) BY <1>4 DEF Live
  <2>2. join[s] # 1 BY <1>1, <1>2, <1>3
  <2>3. \A m \in Node : InFlight(m)' <=> InFlight(m) \/ (m = s /\ join[s] = 1)
    BY <1>8, <2>2 DEF SameFlight
  <2> QED BY <1>3, <1>4, <1>6, <2>1, <2>2, <2>3 DEF CountsOff, Keeps
<1> QED BY <1>9, <1>10, <1>11, <1>12, <1>13, <1>14, <1>15 DEF Placed

\* A task is cached, and the one cached before goes to the queue.
LEMMA CacheMoves ==
    ASSUME Hyps, Placed, NEW w \in Worker, NEW s \in Node, ~Live(s),
           Schedule(Once({cache[w]})), cache' = [cache EXCEPT ![w] = s],
           \A v \in Worker, m \in Node : With(v, m)' <=> With(v, m),
           UNCHANGED <<got, waiters>>
    PROVE  /\ scheduled' \in [Node -> Nat]
           /\ \A m \in Node : \A a, b, c : Here(m, a, b, c)' <=>
                 \/ m = s /\ a = "cache" /\ b = w /\ c = 0
                 \/ m = cache[w] /\ a = "queue" /\ b = 0 /\ c = 1
                 \/ m # s /\ m # cache[w] /\ Here(m, a, b, c)
           /\ \A m \in Node : m = cache[w] => Live(m)
<1>1. /\ cache'[w] = s /\ \A v \in Worker \ {w} : cache'[v] = cache[v]
      /\ cache[w] \in Node \cup {NoNode} /\ NoNode \notin Node
  BY DEF Placed, Types, Hyps, GraphAssumption
<1>2. \A m \in Node : scheduled[m] \in Nat /\ scheduled'[m] = scheduled[m] + (IF m = cache[w] THEN 1 ELSE 0)
  BY DEF Schedule, Once, Placed, Types
<1>3. \A m \in Node \ {cache[w]} : scheduled'[m] = scheduled[m] BY <1>2
<1>4. scheduled' \in [Node -> Nat]
  <2>1. scheduled' = [m \in Node |-> scheduled'[m]] BY DEF Schedule
  <2>2. \A m \in Node : scheduled'[m] \in Nat BY <1>2
  <2> QED BY <2>1, <2>2
<1>5. ASSUME NEW m \in Node, m = cache[w]
      PROVE  /\ Here(m, "cache", w, 0) /\ Live(m) /\ scheduled[m] = 0
             /\ \A v \in Worker : (cache[v] = m => v = w) /\ ~With(v, m)
             /\ \A v \in Worker : \A i \in 1 .. Len(got[v]) : got[v][i] # m
             /\ \A t \in Sem : \A i \in 1 .. Len(waiters[t]) : waiters[t][i] # m
  <2>1. Here(m, "cache", w, 0) BY <1>5 DEF Here
  <2>2. Live(m) BY <2>1 DEF Live
  <2>3. /\ \A j \in 1 .. scheduled[m] : FALSE
        /\ \A v \in Worker : (cache[v] = m => v = w) /\ ~With(v, m)
        /\ \A v \in Worker : \A i \in 1 .. Len(got[v]) : got[v][i] # m
        /\ \A t \in Sem : \A i \in 1 .. Len(waiters[t]) : waiters[t][i] # m BY <2>1, Only DEF Placed
  <2>4. scheduled[m] = 0 BY <1>2, <2>3
  <2> QED BY <2>1, <2>2, <2>3, <2>4
<1>6. ~\E a, b, c : Here(s, a, b, c) BY DEF Live
<1>7. ASSUME NEW m \in Node, NEW a, NEW b, NEW c
      PROVE  Here(m, a, b, c)' <=>
                 \/ m = s /\ a = "cache" /\ b = w /\ c = 0
                 \/ m = cache[w] /\ a = "queue" /\ b = 0 /\ c = 1
                 \/ m # s /\ m # cache[w] /\ Here(m, a, b, c)
  <2>1. CASE m = s
    <3>1. s # cache[w] BY <1>5
    <3>2. Here(s, a, b, c)' => Here(s, a, b, c) \/ (a = "cache" /\ b = w /\ c = 0)
      <4>1. CASE a = "worker"
        <5>1. b \in Worker => (With(b, s)' <=> With(b, s)) OBVIOUS
        <5> QED BY <4>1, <5>1 DEF Here
      <4>2. CASE a # "worker" BY <1>1, <1>3, <3>1, <4>2 DEF Here
      <4> QED BY <4>1, <4>2
    <3>3. Here(s, "cache", w, 0)' BY <1>1 DEF Here
    <3> QED BY <1>6, <2>1, <3>1, <3>2, <3>3
  <2>2. CASE m = cache[w]
    <3>1. m # s BY <1>5, <2>2
    <3>2. scheduled'[m] = 1 BY <1>2, <1>5, <2>2
    <3>3. c \in 1 .. scheduled'[m] <=> c = 1 BY <3>2
    <3>4. a = "worker" => ~Here(m, a, b, c)' BY <1>5, <2>2 DEF Here
    <3>5. a = "cache" => ~Here(m, a, b, c)' BY <1>1, <1>5, <2>2, <3>1 DEF Here
    <3>6. a # "worker" /\ a # "cache" /\ a # "queue" => ~Here(m, a, b, c)' BY <1>5, <2>2 DEF Here
    <3>7. a = "queue" => (Here(m, a, b, c)' <=> b = 0 /\ c = 1) BY <3>3 DEF Here
    <3> QED BY <2>2, <3>1, <3>4, <3>5, <3>6, <3>7
  <2>3. CASE m # s /\ m # cache[w]
    <3>1. CASE a = "worker"
      <4>1. b \in Worker => (With(b, m)' <=> With(b, m)) OBVIOUS
      <4> QED BY <2>3, <3>1, <4>1 DEF Here
    <3>2. CASE a = "cache" BY <1>1, <2>3, <3>2 DEF Here
    <3>3. CASE a \notin {"worker", "cache"} BY <1>3, <2>3, <3>3 DEF Here
    <3> QED BY <3>1, <3>2, <3>3
  <2> QED BY <2>1, <2>2, <2>3
<1> QED BY <1>4, <1>5, <1>7

\* It was the last dependency of the task, which is in flight now.
LEMMA CountOffLast ==
    ASSUME Hyps, Placed, Flow, NEW w \in Worker, CountOff(w),
           join[g.succ[node[w]][k[w]]] = 1
    PROVE  Placed' /\ \E n, i : CountsOff(n, i)
<1>1. PICK n \in Node : n = node[w] BY AtWork DEF CountOff, Away
<1>2. PICK i \in 1 .. Len(g.succ[n]) : i = k[w] BY <1>1, CountOffCounts
<1>3. PICK s \in Node : s = g.succ[n][i] BY Graphs DEF Placed
<1>4. /\ With(w, n) /\ Here(n, "worker", w, 0) /\ ran[n] = 1 /\ n \notin preempted
      /\ ~CountedOff(n, i) /\ CountedOff(n, i)'
      /\ \A m \in Node : WasReset(m)' <=> WasReset(m)
      /\ \A m \in Node : \A j \in 1 .. Len(g.succ[m]) :
            m # n \/ j # i => (CountedOff(m, j)' <=> CountedOff(m, j))
      /\ \A v \in Worker \ {w} : k'[v] = k[v]
      /\ k' \in [Worker -> Nat] /\ k'[w] = k[w] + 1 BY <1>1, <1>2, CountOffCounts
<1>5. ~InFlight(s) /\ ran[s] = 0 BY <1>3, <1>4, AtEdge
<1>6. PICK d \in Node \cup {NoNode}, p \in Node \cup {Top} : d = cache[w] /\ p = g.parent[n]
  <2>1. InFlight(n) BY <1>4 DEF InFlight, Live
  <2> QED BY <2>1, IsCounted DEF Placed, Types
<1>7. p # s /\ (p \in preempted => ~\E a, b, c : Here(p, a, b, c)) /\ join[p] \in Nat
  <2>1. InFlight(n) BY <1>4 DEF InFlight, Live
  <2>2. p = Top \/ p \in preempted BY <1>6, <2>1, IsCounted
  <2>3. p # s BY <1>5, <2>2 DEF InFlight, Hyps, GraphAssumption
  <2> QED BY <1>6, <2>1, <2>3, IsCounted
<1>8. /\ join' = [join EXCEPT ![s] = 0, ![p] = @ + 1] /\ wpc[w] = "countOff"
      /\ Schedule(Once({cache[w]})) /\ cache' = [cache EXCEPT ![w] = s]
      /\ UNCHANGED <<g, cancelled, preempted, waiters, round, ran, wpc, node,
                     got, conds, jumped>>
  BY <1>1, <1>2, <1>3, <1>6 DEF CountOff, UpdateCache, semVars, historyVars
<1>9. /\ scheduled' \in [Node -> Nat]
      /\ \A m \in Node : \A a, b, c : Here(m, a, b, c)' <=>
            \/ m = s /\ a = "cache" /\ b = w /\ c = 0
            \/ m = d /\ a = "queue" /\ b = 0 /\ c = 1
            \/ m # s /\ m # d /\ Here(m, a, b, c)
      /\ d \in Node => Live(d)
  <2>1. ~Live(s) BY <1>5 DEF InFlight
  <2>2. \A v \in Worker, m \in Node : With(v, m)' <=> With(v, m) BY <1>8 DEF With
  <2>3. /\ scheduled' \in [Node -> Nat]
        /\ \A m \in Node : \A a, b, c : Here(m, a, b, c)' <=>
              \/ m = s /\ a = "cache" /\ b = w /\ c = 0
              \/ m = cache[w] /\ a = "queue" /\ b = 0 /\ c = 1
              \/ m # s /\ m # cache[w] /\ Here(m, a, b, c)
        /\ \A m \in Node : m = cache[w] => Live(m) BY <1>8, <2>1, <2>2, CacheMoves
  <2> QED BY <1>6, <2>3
<1>10. d # s /\ (d \in Node => ran[d] = 0 /\ d \notin preempted)
  <2>1. ASSUME d \in Node PROVE Here(d, "cache", w, 0) BY <1>6, <2>1 DEF Here
  <2>2. d \in Node => ran[d] = 0 /\ d \notin preempted BY <2>1 DEF Placed, Modules, Works
  <2>3. d # s BY <1>5, <1>9 DEF InFlight
  <2> QED BY <2>2, <2>3
<1>11. Alones'
  <2> SUFFICES ASSUME NEW m \in Node, NEW a, NEW b, NEW c, NEW x, NEW y, NEW z,
                      Here(m, a, b, c)', Here(m, x, y, z)'
               PROVE  a = x /\ b = y /\ c = z BY DEF Alones
  <2>1. CASE m = s \/ m = d BY <1>9, <1>10, <2>1
  <2>2. CASE m # s /\ m # d
    <3>1. Here(m, a, b, c) /\ Here(m, x, y, z) BY <1>9, <2>2
    <3> QED BY <3>1 DEF Placed, Alones
  <2> QED BY <2>1, <2>2
<1>12. Works'
  <2> SUFFICES ASSUME NEW m \in Node, NEW a, NEW b, NEW c, Here(m, a, b, c)'
               PROVE  IF a = "worker" THEN ran[m] = 1 <=> wpc[b] \notin Earlier ELSE ran[m] = 0
    BY <1>8 DEF Works
  <2>1. CASE m = s \/ m = d BY <1>5, <1>9, <1>10, <2>1
  <2>2. CASE m # s /\ m # d
    <3>1. Here(m, a, b, c) BY <1>9, <2>2
    <3> QED BY <3>1 DEF Placed, Works
  <2> QED BY <2>1, <2>2
<1>13. Modules'
  <2> SUFFICES ASSUME NEW m \in preempted, NEW a, NEW b, NEW c, Here(m, a, b, c)'
               PROVE  a = "worker" /\ wpc[b] \in {"begin", "run"} /\ join'[m] = 0
    BY <1>8 DEF Modules, Placed
  <2>1. m \in Node /\ m # s /\ m # d BY <1>5, <1>10 DEF InFlight, Placed, Types
  <2>2. Here(m, a, b, c) BY <1>9, <2>1
  <2>3. m # p BY <1>7, <2>2
  <2>4. join'[m] = join[m] BY <1>8, <2>1, <2>3 DEF Placed, Types
  <2> QED BY <2>1, <2>2, <2>4 DEF Placed, Modules
<1>14. Types'
  <2>1. join' \in [Node \cup {Top} -> Int]
    <3>1. join \in [Node \cup {Top} -> Int] BY DEF Placed, Types
    <3>2. join' = [join EXCEPT ![s] = 0, ![p] = join[p] + 1] BY <1>7, <1>8
    <3> QED BY <1>7, <3>1, <3>2
  <2>2. cache' \in [Worker -> Node \cup {NoNode}] BY <1>8 DEF Placed, Types
  <2> QED BY <1>4, <1>8, <1>9, <2>1, <2>2 DEF Placed, Types
<1>15. Workers'
  <2>1. WorkerOK(w) BY DEF Placed, Workers
  <2>2. k[w] \in Nat BY DEF Placed, Types
  <2>5. g.parent[s] = g.parent[n] /\ cache'[w] = s BY <1>3, <1>8, Graphs DEF Placed, Types
  <2>3. WorkerOK(w)' BY <1>1, <1>4, <1>8, <2>1, <2>2, <2>5 DEF WorkerOK
  <2>4. \A v \in Worker \ {w} : cache'[v] = cache[v] BY <1>8 DEF Placed, Types
  <2> QED BY <1>4, <1>8, <2>3, <2>4, OthersOK DEF Placed
<1>16. Cancels' BY <1>8 DEF Placed, Cancels
<1>17. CountsOff(n, i)
  <2>1. Live(n) BY <1>4 DEF Live
  <2>2. join[s] = 1 BY <1>1, <1>2, <1>3
  <2>3. ASSUME NEW m \in Node PROVE InFlight(m)' <=> InFlight(m) \/ (m = s /\ join[s] = 1)
    <3>1. CASE m = s
      <4>1. Here(s, "cache", w, 0)' BY <1>9
      <4> QED BY <2>2, <3>1, <4>1 DEF InFlight, Live
    <3>2. CASE m = d
      <4>1. Here(m, "queue", 0, 1)' BY <1>9, <3>2
      <4>2. Live(m)' /\ Live(m) BY <1>9, <3>2, <4>1 DEF Live
      <4> QED BY <4>2 DEF InFlight
    <3>3. CASE m # s /\ m # d
      <4>1. \A a, b, c : Here(m, a, b, c)' <=> Here(m, a, b, c) BY <1>9, <3>3
      <4>2. Live(m)' <=> Live(m) BY <4>1 DEF Live
      <4> QED BY <1>8, <3>3, <4>2 DEF InFlight
    <3> QED BY <3>1, <3>2, <3>3
  <2> QED BY <1>3, <1>4, <1>6, <1>8, <2>1, <2>2, <2>3 DEF CountsOff, Keeps
<1> QED BY <1>11, <1>12, <1>13, <1>14, <1>15, <1>16, <1>17 DEF Placed

\* A task that is done is no longer in flight.
Leaves(n) ==
    /\ Keeps /\ SameCounts /\ UNCHANGED <<preempted, ran, round>>
    /\ n \in Node \ preempted /\ Live(n)
    /\ ran[n] = 1 \/ Top \in cancelled
    /\ \A m \in Node : InFlight(m)' <=> InFlight(m) /\ m # n
    /\ join' = [join EXCEPT ![g.parent[n]] = @ - 1]

\* A worker that is done with its task.
LEMMA AtEnd ==
    ASSUME Placed, NEW w \in Worker, NEW n \in Node, n = node[w], SuccessorsDone(w)
    PROVE  /\ wpc[w] \in {"countOff", "tearDown"}
           /\ With(w, n) /\ Here(n, "worker", w, 0) /\ Live(n) /\ n \notin preempted
           /\ \A m : With(w, m) => m = n
           /\ \A v \in Worker : With(v, n) => v = w
           /\ \/ ran[n] = 0 /\ Top \in cancelled
              \/ ran[n] = 1 /\ wpc[w] = "countOff" /\ k[w] > Len(g.succ[n])
<1>1. wpc[w] \in {"countOff", "tearDown"} /\ (wpc[w] = "countOff" => k[w] > Len(g.succ[n]))
  BY DEF SuccessorsDone, Placed, Workers, WorkerOK
<1>2. /\ With(w, n) /\ Here(n, "worker", w, 0) /\ (ran[n] = 1 <=> wpc[w] = "countOff")
      /\ n \notin preempted /\ \A m : With(w, m) => m = n BY <1>1, AtWork DEF Away, Earlier
<1>3. \A v \in Worker : With(v, n) => v = w BY <1>2, Only DEF Placed
<1>4. Live(n) BY <1>2 DEF Live
<1>5. wpc[w] = "tearDown" => Top \in cancelled BY DEF Placed, Workers, WorkerOK
<1>6. ran[n] \in {0, 1} BY DEF Placed, Types
<1> QED BY <1>1, <1>2, <1>3, <1>4, <1>5, <1>6

LEMMA LeaveMoves ==
    ASSUME Hyps, Placed, NEW w \in Worker, NEW n \in Node, n = node[w], SuccessorsDone(w),
           NEW d \in Node \cup {NoNode},
           d = cache[w] \/ (cache[w] = NoNode /\ ~Live(d)), Continue(w, d),
           UNCHANGED <<scheduled, got, waiters>>
    PROVE  /\ \A m \in Node : \A a, b, c : Here(m, a, b, c)' <=>
                 \/ m = d /\ a = "worker" /\ b = w /\ c = 0
                 \/ m # n /\ m # d /\ Here(m, a, b, c)
           /\ d # n
<1>1. /\ node'[w] = d /\ cache'[w] = NoNode /\ wpc'[w] = (IF d = NoNode THEN "idle" ELSE "begin")
      /\ \A v \in Worker \ {w} : UNCHANGED <<node[v], cache[v], wpc[v]>>
  BY DEF Continue, Goto, Placed, Types
<1>2. /\ With(w, n) /\ Here(n, "worker", w, 0) /\ Live(n)
      /\ \A m : With(w, m) => m = n
      /\ \A v \in Worker : With(v, n) => v = w BY AtEnd
<1>3. NoNode \notin Node BY DEF Hyps, GraphAssumption
<1>4. /\ \A j \in 1 .. scheduled[n] : FALSE
      /\ \A v \in Worker : cache[v] # n
      /\ \A v \in Worker : \A i \in 1 .. Len(got[v]) : got[v][i] # n
      /\ \A t \in Sem : \A i \in 1 .. Len(waiters[t]) : waiters[t][i] # n BY <1>2, Only DEF Placed
<1>5. d # n BY <1>2, <1>4
<1>6. \A m \in Node : With(w, m)' <=> m = d BY <1>1, <1>3 DEF With
<1>7. \A v \in Worker \ {w}, m \in Node : With(v, m)' <=> With(v, m) BY <1>1 DEF With
<1>8. ASSUME NEW m \in Node, m = d
      PROVE  /\ \A j \in 1 .. scheduled[m] : FALSE
             /\ \A v \in Worker : (cache[v] = m => v = w) /\ ~With(v, m)
             /\ \A v \in Worker : \A i \in 1 .. Len(got[v]) : got[v][i] # m
             /\ \A t \in Sem : \A i \in 1 .. Len(waiters[t]) : waiters[t][i] # m
  <2>1. CASE d = cache[w]
    <3>1. Here(m, "cache", w, 0) BY <1>8, <2>1 DEF Here
    <3> QED BY <3>1, Only DEF Placed
  <2>2. CASE ~Live(d)
    <3>1. \A a, b, c : ~Here(m, a, b, c) BY <1>8, <2>2 DEF Live
    <3> QED BY <3>1 DEF Here
  <2> QED BY <2>1, <2>2
<1>9. ASSUME NEW m \in Node, NEW a, NEW b, NEW c
      PROVE  Here(m, a, b, c)' <=>
                 \/ m = d /\ a = "worker" /\ b = w /\ c = 0
                 \/ m # n /\ m # d /\ Here(m, a, b, c)
  <2>1. CASE m = n
    <3>1. ~Here(n, a, b, c)'
      <4>1. CASE a = "worker"
        <5>1. \A v \in Worker : ~With(v, n)' BY <1>2, <1>5, <1>6, <1>7
        <5> QED BY <4>1, <5>1 DEF Here
      <4>2. CASE a = "cache"
        <5>1. \A v \in Worker : cache'[v] # n BY <1>1, <1>3, <1>4
        <5> QED BY <4>2, <5>1 DEF Here
      <4>3. CASE a \notin {"worker", "cache"} BY <1>4, <4>3 DEF Here
      <4> QED BY <4>1, <4>2, <4>3
    <3> QED BY <1>5, <2>1, <3>1
  <2>2. CASE m = d
    <3>1. a = "worker" => (Here(m, a, b, c)' <=> b = w /\ c = 0)
      <4>1. \A v \in Worker : With(v, m)' <=> v = w BY <1>6, <1>7, <1>8, <2>2
      <4> QED BY <4>1 DEF Here
    <3>2. a = "cache" => ~Here(m, a, b, c)'
      <4>1. \A v \in Worker : cache'[v] # m BY <1>1, <1>3, <1>8, <2>2
      <4> QED BY <4>1 DEF Here
    <3>3. a \notin {"worker", "cache"} => ~Here(m, a, b, c)' BY <1>8, <2>2 DEF Here
    <3> QED BY <2>2, <3>1, <3>2, <3>3
  <2>3. CASE m # n /\ m # d
    <3>1. CASE a = "worker"
      <4>1. \A v \in Worker : With(v, m)' <=> With(v, m) BY <1>2, <1>6, <1>7, <2>3
      <4> QED BY <2>3, <3>1, <4>1 DEF Here
    <3>2. CASE a = "cache"
      <4>1. \A v \in Worker : cache'[v] = m <=> cache[v] = m BY <1>1, <1>3, <2>3
      <4> QED BY <2>3, <3>2, <4>1 DEF Here
    <3>3. CASE a \notin {"worker", "cache"} BY <2>3, <3>3 DEF Here
    <3> QED BY <3>1, <3>2, <3>3
  <2> QED BY <2>1, <2>2, <2>3
<1> QED BY <1>5, <1>9

LEMMA LeaveCounts ==
    ASSUME Placed, NEW w \in Worker, NEW n \in Node, n = node[w], SuccessorsDone(w),
           NEW d, \A m \in Node : With(w, m)' <=> m = d, d # n,
           \A m \in Node : m = d => ran[m] = 0,
           \A v \in Worker \ {w} : UNCHANGED <<node[v], wpc[v], k[v]>>,
           UNCHANGED <<g, ran>>
    PROVE  SameCounts
<1>1. /\ With(w, n) /\ \A m : With(w, m) => m = n
      /\ \A v \in Worker : With(v, n) => v = w
      /\ \/ ran[n] = 0 
         \/ ran[n] = 1 /\ wpc[w] = "countOff" /\ k[w] > Len(g.succ[n]) BY AtEnd
<1>2. \A v \in Worker \ {w}, m \in Node : With(v, m)' <=> With(v, m) BY DEF With
<1> SUFFICES ASSUME NEW m \in Node
             PROVE  /\ WasReset(m)' <=> WasReset(m)
                    /\ \A i \in 1 .. Len(g.succ[m]) : CountedOff(m, i)' <=> CountedOff(m, i)
  BY DEF SameCounts
<1>3. CASE ran[m] = 0 BY <1>3 DEF WasReset, CountedOff
<1>4. CASE m = n /\ ran[n] = 1
  <2>1. \A v \in Worker : ~With(v, n)' BY <1>1, <1>2
  <2>2. WasReset(n)' /\ \A i : CountedOff(n, i)' BY <1>4, <2>1 DEF WasReset, CountedOff
  <2>3. WasReset(n) BY <1>1, <1>4 DEF WasReset
  <2>4. ASSUME NEW i \in 1 .. Len(g.succ[n]) PROVE CountedOff(n, i)
    <3>1. i < k[w] BY <1>1, <1>4 DEF Placed, Types
    <3> QED BY <1>1, <1>4, <3>1 DEF CountedOff
  <2> QED BY <1>4, <2>2, <2>3, <2>4
<1>5. CASE m # n /\ ran[m] # 0
  <2>1. ~With(w, m) /\ ~With(w, m)' BY <1>1, <1>5
  <2>2. \A v \in Worker : With(v, m)' <=> With(v, m) BY <1>2, <2>1
  <2>3. \A v \in Worker : With(v, m) => wpc'[v] = wpc[v] /\ k'[v] = k[v] BY <2>1
  <2>4. WasReset(m)' <=> WasReset(m) BY <2>2, <2>3 DEF WasReset
  <2>5. ASSUME NEW i PROVE CountedOff(m, i)' <=> CountedOff(m, i) BY <2>2, <2>3 DEF CountedOff
  <2> QED BY <2>4, <2>5
<1> QED BY <1>1, <1>3, <1>4, <1>5 DEF Placed, Types

\* The worker goes on with the cached task, or with the module it resumes.
LEMMA LeaveStep ==
    ASSUME Hyps, Placed, NEW w \in Worker, NEW n \in Node, n = node[w], SuccessorsDone(w),
           NEW p \in Node \cup {Top}, p = g.parent[n],
           p \in preempted => ~\E a, b, c : Here(p, a, b, c),
           NEW d \in Node \cup {NoNode},
           \/ d = cache[w]
           \/ cache[w] = NoNode /\ d = p /\ d \in preempted /\ join[p] = 1,
           Continue(w, d), join' = [join EXCEPT ![p] = @ - 1],
           UNCHANGED <<g, cancelled, preempted, scheduled, got, waiters, ran, round, conds, jumped>>
    PROVE  Placed' /\ Leaves(n)
<1>1. d = cache[w] \/ (cache[w] = NoNode /\ ~Live(d)) BY DEF Live
<1>2. /\ \A m \in Node : \A a, b, c : Here(m, a, b, c)' <=>
            \/ m = d /\ a = "worker" /\ b = w /\ c = 0
            \/ m # n /\ m # d /\ Here(m, a, b, c)
      /\ d # n BY <1>1, LeaveMoves
<1>3. /\ wpc[w] \in {"countOff", "tearDown"} /\ Live(n) /\ n \notin preempted
      /\ \A m : With(w, m) => m = n
      /\ ran[n] = 1 \/ Top \in cancelled BY AtEnd
<1>4. NoNode \notin Node BY DEF Hyps, GraphAssumption
<1>5. /\ node'[w] = d /\ cache'[w] = NoNode /\ wpc'[w] = (IF d = NoNode THEN "idle" ELSE "begin")
      /\ \A v \in Worker \ {w} : UNCHANGED <<node[v], cache[v], wpc[v], k[v]>>
      /\ k' \in [Worker -> Nat] /\ node' \in [Worker -> Node \cup {NoNode}]
      /\ cache' \in [Worker -> Node \cup {NoNode}] /\ wpc' \in [Worker -> WorkerPC]
  BY DEF Continue, Goto, Placed, Types, WorkerPC
<1>6. ASSUME NEW m \in Node, m = d
      PROVE  /\ ran[m] = 0 /\ InFlight(m)
             /\ m \in preempted => m = p /\ join[p] = 1
  <2>1. CASE d = cache[w]
    <3>1. Here(m, "cache", w, 0) BY <1>6, <2>1 DEF Here
    <3>2. ran[m] = 0 /\ m \notin preempted BY <3>1 DEF Placed, Works, Modules
    <3> QED BY <3>1, <3>2 DEF InFlight, Live
  <2>2. CASE d = p /\ d \in preempted /\ join[p] = 1
    <3>1. ran[m] = 0 BY <1>6, <2>2 DEF Placed, Modules
    <3> QED BY <1>6, <2>2, <3>1 DEF InFlight
  <2> QED BY <2>1, <2>2
<1>7. Alones'
  <2> SUFFICES ASSUME NEW m \in Node, NEW a, NEW b, NEW c, NEW x, NEW y, NEW z,
                      Here(m, a, b, c)', Here(m, x, y, z)'
               PROVE  a = x /\ b = y /\ c = z BY DEF Alones
  <2>1. CASE m = d BY <1>2, <2>1
  <2>2. CASE m # d
    <3>1. Here(m, a, b, c) /\ Here(m, x, y, z) BY <1>2, <2>2
    <3> QED BY <3>1 DEF Placed, Alones
  <2> QED BY <2>1, <2>2
<1>8. ASSUME NEW m \in Node, m # n, NEW a, NEW b, NEW c, Here(m, a, b, c), a = "worker"
      PROVE  b \in Worker \ {w}
  <2>1. b \in Worker /\ With(b, m) BY <1>8 DEF Here
  <2> QED BY <1>3, <1>8, <2>1
<1>9. Works'
  <2> SUFFICES ASSUME NEW m \in Node, NEW a, NEW b, NEW c, Here(m, a, b, c)'
               PROVE  IF a = "worker" THEN ran[m] = 1 <=> wpc'[b] \notin Earlier ELSE ran[m] = 0
    BY DEF Works
  <2>1. CASE m = d
    <3>1. a = "worker" /\ b = w BY <1>2, <2>1
    <3>2. wpc'[w] = "begin" /\ ran[m] = 0 BY <1>4, <1>5, <1>6, <2>1
    <3> QED BY <3>1, <3>2 DEF Earlier
  <2>2. CASE m # d
    <3>1. m # n /\ Here(m, a, b, c) BY <1>2, <2>2
    <3>2. IF a = "worker" THEN ran[m] = 1 <=> wpc[b] \notin Earlier ELSE ran[m] = 0
      BY <3>1 DEF Placed, Works
    <3> QED BY <1>5, <1>8, <3>1, <3>2
  <2> QED BY <2>1, <2>2
<1>10. Modules'
  <2> SUFFICES ASSUME NEW m \in preempted, NEW a, NEW b, NEW c, Here(m, a, b, c)'
               PROVE  a = "worker" /\ wpc'[b] \in {"begin", "run"} /\ join'[m] = 0
    BY DEF Modules, Placed
  <2>0. m \in Node BY DEF Placed, Types
  <2>1. CASE m = d
    <3>1. a = "worker" /\ b = w /\ wpc'[w] = "begin" BY <1>2, <1>4, <1>5, <2>0, <2>1
    <3>2. m = p /\ join[p] = 1 BY <1>6, <2>0, <2>1
    <3>3. join'[m] = 0 BY <3>2 DEF Placed, Types
    <3> QED BY <3>1, <3>3
  <2>2. CASE m # d
    <3>1. m # n /\ Here(m, a, b, c) BY <1>2, <2>0, <2>2
    <3>2. m # p BY <3>1
    <3>3. join'[m] = join[m] BY <2>0, <3>2 DEF Placed, Types
    <3>4. a = "worker" /\ wpc[b] \in {"begin", "run"} /\ join[m] = 0 BY <3>1 DEF Placed, Modules
    <3> QED BY <1>5, <1>8, <2>0, <3>1, <3>3, <3>4
  <2> QED BY <2>1, <2>2
<1>11. Types'
  <2>1. join' \in [Node \cup {Top} -> Int] BY DEF Placed, Types
  <2> QED BY <1>5, <2>1 DEF Placed, Types
<1>12. Workers'
  <2>1. WorkerOK(w) BY DEF Placed, Workers
  <2>2. WorkerOK(w)' BY <1>3, <1>5, <2>1 DEF WorkerOK
  <2> QED BY <1>5, <2>2, OthersOK DEF Placed
<1>13. Cancels' BY DEF Placed, Cancels
<1>14. SameCounts
  <2>1. \A m \in Node : With(w, m)' <=> m = d BY <1>4, <1>5 DEF With
  <2>2. \A m \in Node : m = d => ran[m] = 0 BY <1>6
  <2> QED BY <1>2, <1>5, <2>1, <2>2, LeaveCounts
<1>15. ASSUME NEW m \in Node PROVE InFlight(m)' <=> InFlight(m) /\ m # n
  <2>1. CASE m = d
    <3>1. Here(m, "worker", w, 0)' BY <1>2, <2>1
    <3> QED BY <1>2, <1>6, <2>1, <3>1 DEF InFlight, Live
  <2>2. CASE m = n
    <3>1. ~Live(m)' BY <1>2, <2>2 DEF Live
    <3> QED BY <1>3, <2>2, <3>1 DEF InFlight
  <2>3. CASE m # d /\ m # n
    <3>1. Live(m)' <=> Live(m) BY <1>2, <2>3 DEF Live
    <3> QED BY <2>3, <3>1 DEF InFlight
  <2> QED BY <2>1, <2>2, <2>3
<1>16. Leaves(n) BY <1>3, <1>14, <1>15 DEF Leaves, Keeps
<1> QED BY <1>7, <1>9, <1>10, <1>11, <1>12, <1>13, <1>16 DEF Placed

LEMMA LeaveTopologyStep ==
    ASSUME Hyps, Placed, Flow, NEW w \in Worker, LeaveTopology(w)
    PROVE  Placed' /\ \E n \in Node : Leaves(n)
<1>1. SuccessorsDone(w) /\ wpc[w] \notin Away BY DEF LeaveTopology, SuccessorsDone, Away
<1>2. PICK n \in Node : n = node[w] BY <1>1, AtWork
<1>3. PICK d \in Node \cup {NoNode}, p \in Node \cup {Top} : d = cache[w] /\ p = Top
  BY DEF Placed, Types
<1>4. /\ p = g.parent[n] /\ Continue(w, d) /\ join' = [join EXCEPT ![p] = @ - 1]
      /\ UNCHANGED <<g, cancelled, preempted, scheduled, got, waiters, ran, round, conds, jumped>>
  BY <1>2, <1>3 DEF LeaveTopology, semVars, historyVars
<1>5. p \notin preempted BY <1>3 DEF Placed, Types, Hyps, GraphAssumption
<1> QED BY <1>1, <1>2, <1>3, <1>4, <1>5, LeaveStep

LEMMA LeaveModuleStep ==
    ASSUME Hyps, Placed, Flow, NEW w \in Worker, LeaveModule(w)
    PROVE  Placed' /\ \E n \in Node : Leaves(n)
<1>1. SuccessorsDone(w) /\ wpc[w] \notin Away BY DEF LeaveModule, SuccessorsDone, Away
<1>2. PICK n \in Node : n = node[w] BY <1>1, AtWork
<1>3. Live(n) /\ InFlight(n) /\ n \notin preempted /\ Here(n, "worker", w, 0)
  BY <1>1, <1>2, AtEnd DEF InFlight
<1>4. PICK p \in Node \cup {Top} : p = g.parent[n] BY <1>3, IsCounted
<1>5. /\ p \in preempted => ~\E a, b, c : Here(p, a, b, c)
      /\ p \in preempted \cup {Top} BY <1>3, <1>4, IsCounted
<1>6. /\ p # Top /\ p \in preempted /\ join' = [join EXCEPT ![p] = @ - 1]
      /\ UNCHANGED <<g, cancelled, preempted, got, waiters, ran, round, conds, jumped>>
  BY <1>2, <1>4, <1>5 DEF LeaveModule, semVars, historyVars
<1>7. CASE join[p] # 1
  <2>1. PICK d \in Node \cup {NoNode} : d = cache[w] BY DEF Placed, Types
  <2>2. Continue(w, d) /\ UNCHANGED scheduled BY <1>2, <1>4, <1>7, <2>1 DEF LeaveModule
  <2> QED BY <1>1, <1>2, <1>4, <1>5, <1>6, <2>1, <2>2, LeaveStep
<1>8. CASE join[p] = 1
  <2>1. cache[w] = NoNode
    <3> SUFFICES ASSUME cache[w] # NoNode PROVE FALSE OBVIOUS
    <3>1. PICK d \in Node : d = cache[w] BY DEF Placed, Types
    <3>2. Here(d, "cache", w, 0) BY <3>1 DEF Here
    <3>3. d # n BY <1>3, <3>2 DEF Placed, Alones
    <3>4. NoNode \notin Node BY DEF Hyps, GraphAssumption
    <3>5. g.parent[d] = p BY <1>2, <1>4, <3>1, <3>4 DEF Placed, Workers, WorkerOK
    <3>6. InFlight(d) BY <3>2 DEF InFlight, Live
    <3>7. n \in Flying(p) /\ d \in Flying(p) BY <1>3, <1>4, <3>5, <3>6 DEF Flying, Graph
    <3>8. Cardinality(Flying(p)) = 1 BY <1>6, <1>8 DEF Flow, Counted
    <3> QED BY <3>3, <3>7, <3>8, FlyingFinite, FS_Singleton
  <2>2. PICK d \in Node : d = p BY <1>6 DEF Placed, Types
  <2>3. Continue(w, d) BY <1>2, <1>4, <1>6, <1>8, <2>2 DEF LeaveModule
  <2>4. UNCHANGED scheduled
    <3>1. scheduled' = [m \in Node |-> scheduled[m] + Once({cache[w]})[m]]
      BY <1>2, <1>4, <1>6, <1>8 DEF LeaveModule, Schedule
    <3>2. \A m \in Node : scheduled[m] \in Nat /\ m # cache[w]
      BY <2>1 DEF Hyps, GraphAssumption, Placed, Types
    <3>3. \A m \in Node : scheduled[m] + Once({cache[w]})[m] = scheduled[m] BY <3>2 DEF Once
    <3> QED BY <3>1, <3>3 DEF Placed, Types
  <2> QED BY <1>1, <1>2, <1>4, <1>5, <1>6, <1>8, <2>1, <2>2, <2>3, <2>4, LeaveStep
<1> QED BY <1>7, <1>8

LEMMA SourcesFinite ==
    ASSUME Hyps, NEW p PROVE IsFiniteSet(Sources(p)) /\ Cardinality(Sources(p)) \in Nat
<1>1. IsFiniteSet(Sources(p)) BY FS_Subset DEF Sources, Graph, Hyps, GraphAssumption
<1> QED BY <1>1, FS_CardinalityType

\* The graph of a module that has not run is at rest.
LEMMA AtRest ==
    ASSUME Hyps, Placed, Flow, NEW n \in Node, n \notin preempted, ran[n] = 0, NEW m \in Graph(n)
    PROVE  /\ m \in Node /\ g.parent[m] = n /\ m # n
           /\ ~InFlight(m) /\ ran[m] = 0
<1>1. m \in Node /\ g.parent[m] = n BY DEF Graph
<1>2. m # n
  <2>1. Plain(g) BY Graphs DEF Placed
  <2>2. PICK depth \in [Node -> Nat] : \A x \in Node : g.parent[x] \in Node => depth[g.parent[x]] < depth[x]
    BY <2>1 DEF Plain
  <2> QED BY <1>1, <2>2
<1>3. ~Active(n) BY DEF Active, Hyps, GraphAssumption
<1>4. ~InFlight(m) BY <1>1, <1>3 DEF Flow, Flights
<1>5. ran[m] # 1 BY <1>1, <1>3 DEF Flow, Rans, Entered
<1>6. ran[m] = 0 BY <1>1, <1>5 DEF Placed, Types
<1> QED BY <1>1, <1>2, <1>4, <1>6

\* What _set_up_graph makes of the counters of a graph.
Counters(p, base) ==
    [n \in Node \cup {Top} |->
        IF n = p THEN base + Cardinality(Sources(p))
        ELSE IF n \in Graph(p) THEN StrongDependencies(n) ELSE join[n]]

\* A module starts its graph.
Opens(n) ==
    /\ Keeps /\ SameCounts /\ UNCHANGED <<ran, round>>
    /\ n \in Node \ preempted /\ Live(n) /\ ran[n] = 0
    /\ preempted' = preempted \cup {n}
    /\ \A m \in Node : InFlight(m)' <=> InFlight(m) \/ m \in Sources(n)
    /\ join' = Counters(n, join[n])

LEMMA EnterStep ==
    ASSUME Hyps, Placed, Flow, NEW w \in Worker, EnterModule(w)
    PROVE  Placed' /\ \E n \in Node : Opens(n)
<1>1. wpc[w] = "run" /\ wpc[w] \notin Away BY DEF EnterModule, Away
<1>2. PICK n \in Node : n = node[w] BY <1>1, AtWork
<1>3. n \notin preempted /\ g.kind[n] = "module" BY <1>2 DEF EnterModule
<1>4. /\ With(w, n) /\ Here(n, "worker", w, 0) /\ ran[n] = 0 /\ Live(n)
      /\ \A m : With(w, m) => m = n
  <2>1. With(w, n) /\ Here(n, "worker", w, 0) /\ ran[n] # 1 /\ \A m : With(w, m) => m = n
    BY <1>1, <1>2, AtWork DEF Earlier
  <2> QED BY <2>1 DEF Placed, Types, Live
<1>5. \A m \in Graph(n) : m \in Node /\ m # n /\ ~InFlight(m) /\ ran[m] = 0 BY <1>3, <1>4, AtRest
<1>6. Sources(n) \subseteq Graph(n) BY DEF Sources
<1>7. /\ join' = Counters(n, join[n]) /\ preempted' = preempted \cup {n}
      /\ cancelled' = cancelled \ Graph(n) /\ Schedule(Once(Sources(n))) /\ Continue(w, NoNode)
      /\ UNCHANGED <<g, waiters, got, ran, round, conds, jumped>>
  <2>1. preempted' = preempted \cup {n}
    <3>1. preempted' = (preempted \ Graph(n)) \cup ({n} \cap Node)
      BY <1>2 DEF EnterModule, SetUpGraph
    <3>2. \A m \in Graph(n) : m \notin preempted BY <1>5 DEF InFlight
    <3> QED BY <3>1, <3>2
  <2> QED BY <1>2, <2>1 DEF EnterModule, SetUpGraph, Counters, semVars, historyVars
<1>8. Top \in cancelled <=> Top \in cancelled' BY <1>7 DEF Graph, Hyps, GraphAssumption
<1>9. NoNode \notin Node BY DEF Hyps, GraphAssumption
<1>10. /\ node'[w] = NoNode /\ cache'[w] = NoNode /\ wpc'[w] = "idle"
       /\ \A v \in Worker \ {w} : UNCHANGED <<node[v], cache[v], wpc[v], k[v]>>
       /\ k' \in [Worker -> Nat] /\ node' \in [Worker -> Node \cup {NoNode}]
       /\ cache' \in [Worker -> Node \cup {NoNode}] /\ wpc' \in [Worker -> WorkerPC]
  BY <1>7 DEF Continue, Goto, Placed, Types, WorkerPC
<1>11. cache' = cache
  <2>1. cache[w] = NoNode BY <1>1 DEF Placed, Workers, WorkerOK
  <2> QED BY <1>7, <2>1 DEF Continue, Placed, Types
<1>12. \A m \in Node : /\ scheduled[m] \in Nat
                       /\ scheduled'[m] = scheduled[m] + (IF m \in Sources(n) THEN 1 ELSE 0)
  BY <1>7 DEF Schedule, Once, Placed, Types
<1>13. scheduled' \in [Node -> Nat]
  <2>1. scheduled' = [m \in Node |-> scheduled'[m]] BY <1>7 DEF Schedule
  <2>2. \A m \in Node : scheduled'[m] \in Nat BY <1>12
  <2> QED BY <2>1, <2>2
<1>14. ASSUME NEW m \in Sources(n)
       PROVE  m \in Node /\ m # n /\ scheduled'[m] = 1 /\ ~\E a, b, c : Here(m, a, b, c)
  <2>1. m \in Node /\ m # n /\ ~\E a, b, c : Here(m, a, b, c) BY <1>5, <1>6 DEF InFlight, Live
  <2>2. scheduled[m] = 0
    <3>1. ~Here(m, "queue", 0, 1) BY <2>1
    <3> QED BY <1>12, <2>1, <3>1 DEF Here
  <2> QED BY <1>12, <2>1, <2>2
<1>15. \A v \in Worker, m \in Node : With(v, m)' <=> m # n /\ With(v, m)
  <2>1. \A m \in Node : ~With(w, m)' BY <1>10 DEF With
  <2>2. \A v \in Worker \ {w}, m \in Node : With(v, m)' <=> With(v, m) BY <1>10 DEF With
  <2>3. \A v \in Worker : With(v, n) => v = w BY <1>4, Only DEF Placed
  <2> QED BY <1>4, <2>1, <2>2, <2>3
<1>16. ASSUME NEW m \in Node, NEW a, NEW b, NEW c
       PROVE  Here(m, a, b, c)' <=>
                  \/ m \in Sources(n) /\ a = "queue" /\ b = 0 /\ c = 1
                  \/ m # n /\ m \notin Sources(n) /\ Here(m, a, b, c)
  <2>1. CASE m = n
    <3>1. /\ \A j \in 1 .. scheduled[n] : FALSE
          /\ \A v \in Worker : cache[v] # n
          /\ \A v \in Worker : \A i \in 1 .. Len(got[v]) : got[v][i] # n
          /\ \A t \in Sem : \A i \in 1 .. Len(waiters[t]) : waiters[t][i] # n
      BY <1>4, Only DEF Placed
    <3>2. n \notin Sources(n) BY <1>14
    <3>3. scheduled'[n] = scheduled[n] BY <1>12, <3>2
    <3>4. ~Here(n, a, b, c)' BY <1>7, <1>11, <1>15, <3>1, <3>3 DEF Here
    <3> QED BY <2>1, <3>2, <3>4
  <2>2. CASE m \in Sources(n)
    <3>1. /\ \A v \in Worker : cache[v] # m /\ ~With(v, m)
          /\ \A v \in Worker : \A i \in 1 .. Len(got[v]) : got[v][i] # m
          /\ \A t \in Sem : \A i \in 1 .. Len(waiters[t]) : waiters[t][i] # m
      BY <1>14, <2>2 DEF Here
    <3>2. c \in 1 .. scheduled'[m] <=> c = 1
      <4>1. scheduled'[m] = 1 BY <1>14, <2>2
      <4> QED BY <4>1
    <3>3. a = "queue" => (Here(m, a, b, c)' <=> b = 0 /\ c = 1) BY <3>2 DEF Here
    <3>4. a # "queue" => ~Here(m, a, b, c)' BY <1>7, <1>11, <1>15, <3>1 DEF Here
    <3> QED BY <2>2, <3>3, <3>4
  <2>3. CASE m # n /\ m \notin Sources(n)
    <3>1. scheduled'[m] = scheduled[m] BY <1>12, <2>3
    <3>2. \A v \in Worker : With(v, m)' <=> With(v, m) BY <1>15, <2>3
    <3>3. Here(m, a, b, c)' <=> Here(m, a, b, c) BY <1>7, <1>11, <3>1, <3>2 DEF Here
    <3> QED BY <2>3, <3>3
  <2> QED BY <2>1, <2>2, <2>3
<1>17. Alones'
  <2> SUFFICES ASSUME NEW m \in Node, NEW a, NEW b, NEW c, NEW x, NEW y, NEW z,
                      Here(m, a, b, c)', Here(m, x, y, z)'
               PROVE  a = x /\ b = y /\ c = z BY DEF Alones
  <2>1. CASE m \in Sources(n) BY <1>16, <2>1
  <2>2. CASE m \notin Sources(n)
    <3>1. Here(m, a, b, c) /\ Here(m, x, y, z) BY <1>16, <2>2
    <3> QED BY <3>1 DEF Placed, Alones
  <2> QED BY <2>1, <2>2
<1>18. ASSUME NEW m \in Node, m # n, NEW a, NEW b, NEW c, Here(m, a, b, c), a = "worker"
       PROVE  b \in Worker \ {w}
  <2>1. b \in Worker /\ With(b, m) BY <1>18 DEF Here
  <2> QED BY <1>4, <1>18, <2>1
<1>19. Works'
  <2> SUFFICES ASSUME NEW m \in Node, NEW a, NEW b, NEW c, Here(m, a, b, c)'
               PROVE  IF a = "worker" THEN ran[m] = 1 <=> wpc'[b] \notin Earlier ELSE ran[m] = 0
    BY <1>7 DEF Works
  <2>1. CASE m \in Sources(n) BY <1>5, <1>6, <1>16, <2>1
  <2>2. CASE m \notin Sources(n)
    <3>1. m # n /\ Here(m, a, b, c) BY <1>16, <2>2
    <3>2. IF a = "worker" THEN ran[m] = 1 <=> wpc[b] \notin Earlier ELSE ran[m] = 0
      BY <3>1 DEF Placed, Works
    <3> QED BY <1>10, <1>18, <3>1, <3>2
  <2> QED BY <2>1, <2>2
<1>20. Modules'
  <2>1. ASSUME NEW m \in preempted', NEW a, NEW b, NEW c, Here(m, a, b, c)'
        PROVE  a = "worker" /\ wpc'[b] \in {"begin", "run"} /\ join'[m] = 0
    <3>1. m \in Node BY <1>7, <2>1 DEF Placed, Types
    <3>2. m # n BY <1>14, <1>16, <2>1, <3>1
    <3>3. m \in preempted BY <1>7, <2>1, <3>2
    <3>4. m \notin Sources(n) /\ m \notin Graph(n) BY <1>5, <1>6, <3>3 DEF InFlight
    <3>5. Here(m, a, b, c) BY <1>16, <2>1, <3>1, <3>4
    <3>6. a = "worker" /\ wpc[b] \in {"begin", "run"} /\ join[m] = 0
      BY <3>3, <3>5 DEF Placed, Modules
    <3>7. join'[m] = join[m] BY <1>7, <3>1, <3>2, <3>4 DEF Counters
    <3> QED BY <1>10, <1>18, <3>1, <3>2, <3>5, <3>6, <3>7
  <2>2. \A m \in preempted' : g.kind[m] = "module" /\ ran[m] = 0
    BY <1>3, <1>4, <1>7 DEF Placed, Modules
  <2> QED BY <1>7, <2>1, <2>2 DEF Modules
<1>21. Types'
  <2>1. \A m \in Node : StrongDependencies(m) \in Nat BY Strong DEF Placed
  <2>2. Cardinality(Sources(n)) \in Nat BY SourcesFinite
  <2>3. join' \in [Node \cup {Top} -> Int]
    <3>1. \A m \in Graph(n) : m \in Node BY <1>5
    <3>2. \A m \in Node \cup {Top} : join[m] \in Int BY DEF Placed, Types
    <3> QED BY <1>7, <2>1, <2>2, <3>1, <3>2 DEF Counters
  <2> QED BY <1>7, <1>10, <1>13, <2>3 DEF Placed, Types
<1>22. Workers'
  <2>1. WorkerOK(w) BY DEF Placed, Workers
  <2>2. WorkerOK(w)' BY <1>1, <1>7, <1>10, <2>1 DEF WorkerOK
  <2> QED BY <1>7, <1>8, <1>10, <2>2, OthersOK DEF Placed
<1>23. Cancels' BY <1>7, <1>8 DEF Placed, Cancels
<1>24. SameCounts
  <2>1. \A m \in Node : With(w, m) => ran[m] = 0 BY <1>4
  <2>2. \A m \in Node : ~With(w, m)' BY <1>10 DEF With
  <2>3. \A m \in Node : ran[m] # 0 => (With(w, m)' <=> With(w, m)) BY <2>1, <2>2
  <2> QED BY <1>7, <1>10, <2>1, <2>2, <2>3, CountsKept DEF Placed
<1>25. ASSUME NEW m \in Node PROVE InFlight(m)' <=> InFlight(m) \/ m \in Sources(n)
  <2>1. CASE m = n BY <1>4, <1>7, <2>1 DEF InFlight
  <2>2. CASE m \in Sources(n)
    <3>1. Here(m, "queue", 0, 1)' BY <1>16, <2>2
    <3> QED BY <2>2, <3>1 DEF InFlight, Live
  <2>3. CASE m # n /\ m \notin Sources(n)
    <3>1. Live(m)' <=> Live(m) BY <1>16, <2>3 DEF Live
    <3> QED BY <1>7, <2>3, <3>1 DEF InFlight
  <2> QED BY <2>1, <2>2, <2>3
<1>26. Opens(n) BY <1>3, <1>4, <1>7, <1>8, <1>24, <1>25 DEF Opens, Keeps
<1> QED BY <1>17, <1>19, <1>20, <1>21, <1>22, <1>23, <1>26 DEF Placed

\* When the last task of the topology's graph is done, no task is in flight: a task
\* further inside would be in a graph of one that is.
LEMMA LastTask ==
    ASSUME Hyps, Placed, Flow, NEW n \in Node, InFlight(n), n \notin preempted,
           g.parent[n] = Top, join[Top] = 1, NEW m \in Node, InFlight(m)
    PROVE  m = n
<1>1. \A x \in Node : InFlight(x) /\ g.parent[x] = Top => x = n
  <2> SUFFICES ASSUME NEW x \in Node, InFlight(x), g.parent[x] = Top PROVE x = n OBVIOUS
  <2>1. x \in Flying(Top) /\ n \in Flying(Top) BY DEF Flying, Graph
  <2>2. Cardinality(Flying(Top)) = 1 BY DEF Flow, Counted
  <2> QED BY <2>1, <2>2, FlyingFinite, FS_Singleton
<1> SUFFICES ASSUME m # n PROVE FALSE OBVIOUS
<1>2. PICK depth \in [Node -> Nat] :
         \A x \in Node : g.parent[x] \in Node => depth[g.parent[x]] < depth[x]
  BY Graphs DEF Placed, Plain
<1> DEFINE D == {depth[x] : x \in {y \in Node : InFlight(y) /\ y # n}}
<1>3. D # {} /\ D \subseteq Nat OBVIOUS
<1>4. PICK e \in D : \A f \in D : ~(<<f, e>> \in OpToRel(<, Nat))
  <2> HIDE DEF D
  <2> QED BY <1>3, NatLessThanWellFounded, WFMin
<1>5. \A f \in D : ~(f < e)
  <2> HIDE DEF D
  <2> QED BY <1>3, <1>4 DEF OpToRel
<1>6. PICK x \in Node : InFlight(x) /\ x # n /\ depth[x] = e OBVIOUS
<1>7. g.parent[x] # Top BY <1>1, <1>6
<1>8. g.parent[x] \in preempted /\ g.parent[x] \in Node
  BY <1>6, <1>7 DEF Flow, Flights, Active, Placed, Types
<1>9. InFlight(g.parent[x]) /\ g.parent[x] # n BY <1>8 DEF InFlight
<1>10. depth[g.parent[x]] \in D /\ depth[g.parent[x]] < e BY <1>2, <1>6, <1>8, <1>9
<1> QED BY <1>5, <1>10

\* The topology runs its graph again.
Restarts ==
    /\ UNCHANGED g /\ Top \notin cancelled /\ round < Rounds /\ round' = round + 1
    /\ preempted' = {} /\ ran' = [n \in Node |-> 0]
    /\ \A m \in Node : InFlight(m)' <=> m \in Sources(Top)
    /\ join' = Counters(Top, 0)

\* The topology is finished.
Ends(n) ==
    /\ Keeps /\ SameCounts /\ UNCHANGED <<preempted, ran>>
    /\ n \in Node /\ (ran[n] = 1 \/ Top \in cancelled)
    /\ preempted = {} /\ \A m \in Node : InFlight(m) => m = n
    /\ \A m \in Node : ~InFlight(m)'
    /\ join' = [join EXCEPT ![Top] = 0] /\ round' = Rounds + 1

\* The last task of the topology is the only one in flight.
LEMMA AtLast ==
    ASSUME Hyps, Placed, Flow, NEW w \in Worker, FinishRound(w), NEW n \in Node, n = node[w]
    PROVE  /\ SuccessorsDone(w) /\ With(w, n) /\ (ran[n] = 1 \/ Top \in cancelled)
           /\ \A m \in Node : InFlight(m) => m = n
           /\ preempted = {} /\ cache[w] = NoNode
           /\ wpc[w] \in {"countOff", "tearDown"}
           /\ \A m : With(w, m) => m = n
<1>1. SuccessorsDone(w) /\ g.parent[n] = Top /\ join[Top] = 1 BY DEF FinishRound
<1>2. /\ With(w, n) /\ Here(n, "worker", w, 0) /\ Live(n) /\ n \notin preempted
      /\ (ran[n] = 1 \/ Top \in cancelled) /\ wpc[w] \in {"countOff", "tearDown"}
      /\ \A m : With(w, m) => m = n BY <1>1, AtEnd
<1>3. InFlight(n) BY <1>2 DEF InFlight
<1>4. \A m \in Node : InFlight(m) => m = n BY <1>1, <1>2, <1>3, LastTask
<1>5. preempted = {}
  <2>1. \A m \in preempted : m \in Node /\ m = n BY <1>4 DEF InFlight, Placed, Types
  <2> QED BY <1>2, <2>1
<1>6. cache[w] = NoNode
  <2> SUFFICES ASSUME cache[w] # NoNode PROVE FALSE OBVIOUS
  <2>1. PICK d \in Node : d = cache[w] BY DEF Placed, Types
  <2>2. Here(d, "cache", w, 0) BY <2>1 DEF Here
  <2>3. d = n BY <1>4, <2>2 DEF InFlight, Live
  <2> QED BY <1>2, <2>2, <2>3 DEF Placed, Alones
<1> QED BY <1>1, <1>2, <1>4, <1>5, <1>6

LEMMA EndStep ==
    ASSUME Hyps, Placed, Flow, NEW w \in Worker, FinishRound(w),
           ~(round < Rounds /\ ~stored /\ Top \notin cancelled)
    PROVE  Placed' /\ \E n \in Node : Ends(n)
<1>1. PICK n \in Node : n = node[w] BY AtWork DEF FinishRound, SuccessorsDone, Away
<1>2. /\ SuccessorsDone(w) /\ With(w, n) /\ (ran[n] = 1 \/ Top \in cancelled)
      /\ \A m \in Node : InFlight(m) => m = n
      /\ preempted = {} /\ cache[w] = NoNode
      /\ wpc[w] \in {"countOff", "tearDown"}
      /\ \A m : With(w, m) => m = n BY <1>1, AtLast
<1>3. /\ join' = [join EXCEPT ![Top] = 0] /\ round' = Rounds + 1 /\ Continue(w, NoNode)
      /\ UNCHANGED <<g, cancelled, preempted, scheduled, got, waiters, ran, conds, jumped>>
  BY <1>2 DEF FinishRound, semVars
<1>4. NoNode \notin Node BY DEF Hyps, GraphAssumption
<1>5. PICK d \in {NoNode} : TRUE OBVIOUS
<1>6. \A m \in Node : \A a, b, c : Here(m, a, b, c)' <=> m # n /\ Here(m, a, b, c)
  <2>1. d = cache[w] /\ Continue(w, d) BY <1>2, <1>3, <1>5
  <2>2. \A m \in Node : \A a, b, c : Here(m, a, b, c)' <=>
            \/ m = d /\ a = "worker" /\ b = w /\ c = 0
            \/ m # n /\ m # d /\ Here(m, a, b, c) BY <1>1, <1>2, <1>3, <2>1, LeaveMoves
  <2> QED BY <1>4, <1>5, <2>2
<1>7. \A m \in Node : ~Live(m)' /\ \A a, b, c : ~Here(m, a, b, c)'
  <2>1. \A m \in Node : m # n => ~Live(m) BY <1>2 DEF InFlight
  <2>2. \A m \in Node : \A a, b, c : ~Here(m, a, b, c)' BY <1>6, <2>1 DEF Live
  <2> QED BY <2>2 DEF Live
<1>8. /\ node'[w] = NoNode /\ cache'[w] = NoNode /\ wpc'[w] = "idle"
      /\ \A v \in Worker \ {w} : UNCHANGED <<node[v], cache[v], wpc[v], k[v]>>
      /\ k' \in [Worker -> Nat] /\ node' \in [Worker -> Node \cup {NoNode}]
      /\ cache' \in [Worker -> Node \cup {NoNode}] /\ wpc' \in [Worker -> WorkerPC]
  BY <1>3 DEF Continue, Goto, Placed, Types, WorkerPC
<1>9. Alones' /\ Works' BY <1>7 DEF Alones, Works
<1>10. Modules' BY <1>2, <1>3 DEF Modules
<1>11. Types'
  <2>1. join' \in [Node \cup {Top} -> Int] BY <1>3 DEF Placed, Types
  <2>2. round' \in Nat BY <1>3 DEF Hyps, GraphAssumption
  <2> QED BY <1>3, <1>8, <2>1, <2>2 DEF Placed, Types
<1>12. Workers'
  <2>1. WorkerOK(w) BY DEF Placed, Workers
  <2>2. WorkerOK(w)' BY <1>2, <1>3, <1>8, <2>1 DEF WorkerOK
  <2> QED BY <1>3, <1>8, <2>2, OthersOK DEF Placed
<1>13. Cancels' BY <1>3 DEF Placed, Cancels
<1>14. SameCounts
  <2>1. \A m \in Node : With(w, m)' <=> m = d BY <1>4, <1>5, <1>8 DEF With
  <2>2. d # n /\ \A m \in Node : m = d => ran[m] = 0 BY <1>4, <1>5
  <2> QED BY <1>1, <1>2, <1>3, <1>8, <2>1, <2>2, LeaveCounts
<1>15. \A m \in Node : ~InFlight(m)' BY <1>2, <1>3, <1>7 DEF InFlight
<1>16. Ends(n) BY <1>2, <1>3, <1>14, <1>15 DEF Ends, Keeps
<1> QED BY <1>9, <1>10, <1>11, <1>12, <1>13, <1>16 DEF Placed

LEMMA RestartStep ==
    ASSUME Hyps, Placed, Flow, NEW w \in Worker, FinishRound(w),
           round < Rounds /\ ~stored /\ Top \notin cancelled
    PROVE  Placed' /\ Restarts
<1>1. PICK n \in Node : n = node[w] BY AtWork DEF FinishRound, SuccessorsDone, Away
<1>2. /\ SuccessorsDone(w) /\ With(w, n)
      /\ \A m \in Node : InFlight(m) => m = n
      /\ preempted = {} /\ cache[w] = NoNode
      /\ wpc[w] \in {"countOff", "tearDown"}
      /\ \A m : With(w, m) => m = n BY <1>1, AtLast
<1>3. NoNode \notin Node /\ Top \notin Node BY DEF Hyps, GraphAssumption
<1>4. /\ join' = Counters(Top, 0) /\ preempted' = {} /\ round' = round + 1
      /\ cancelled' = cancelled \ Graph(Top) /\ Schedule(Once(Sources(Top)))
      /\ ran' = [m \in Node |-> 0] /\ jumped' = [m \in Node |-> 0] /\ Continue(w, NoNode)
      /\ UNCHANGED <<g, got, waiters, conds>>
  BY <1>2, <1>3 DEF FinishRound, SetUpGraph, Counters, semVars
<1>5. /\ node'[w] = NoNode /\ cache'[w] = NoNode /\ wpc'[w] = "idle"
      /\ \A v \in Worker \ {w} : UNCHANGED <<node[v], cache[v], wpc[v], k[v]>>
      /\ k' \in [Worker -> Nat] /\ node' \in [Worker -> Node \cup {NoNode}]
      /\ cache' \in [Worker -> Node \cup {NoNode}] /\ wpc' \in [Worker -> WorkerPC]
  BY <1>4 DEF Continue, Goto, Placed, Types, WorkerPC
<1>6. cache' = cache BY <1>2, <1>4 DEF Continue, Placed, Types
<1>7. Here(n, "worker", w, 0) BY <1>2 DEF Here
<1>8. \A m \in Node : \A a, b, c : Here(m, a, b, c) => m = n /\ a = "worker" /\ b = w
  <2>1. \A m \in Node : \A a, b, c : Here(m, a, b, c) => m = n BY <1>2 DEF InFlight, Live
  <2> QED BY <1>7, <2>1 DEF Placed, Alones
<1>9. ASSUME NEW m \in Node
      PROVE  /\ scheduled[m] = 0
             /\ \A v \in Worker : cache[v] # m /\ (v # w => ~With(v, m))
             /\ \A v \in Worker : \A i \in 1 .. Len(got[v]) : got[v][i] # m
             /\ \A t \in Sem : \A i \in 1 .. Len(waiters[t]) : waiters[t][i] # m
  <2>1. scheduled[m] = 0
    <3>1. ~Here(m, "queue", 0, 1) BY <1>8
    <3>2. scheduled[m] \in Nat BY DEF Placed, Types
    <3> QED BY <3>1, <3>2 DEF Here
  <2>2. ASSUME NEW v \in Worker PROVE cache[v] # m /\ (v # w => ~With(v, m))
    <3>1. ~Here(m, "cache", v, 0) /\ (v # w => ~Here(m, "worker", v, 0)) BY <1>8
    <3> QED BY <3>1 DEF Here
  <2>3. ASSUME NEW v \in Worker, NEW i \in 1 .. Len(got[v]) PROVE got[v][i] # m
    <3>1. ~Here(m, "got", v, i) BY <1>8
    <3> QED BY <3>1 DEF Here
  <2>4. ASSUME NEW t \in Sem, NEW i \in 1 .. Len(waiters[t]) PROVE waiters[t][i] # m
    <3>1. ~Here(m, "waits", t, i) BY <1>8
    <3> QED BY <3>1 DEF Here
  <2> QED BY <2>1, <2>2, <2>3, <2>4
<1>10. \A m \in Node : scheduled'[m] = IF m \in Sources(Top) THEN 1 ELSE 0
  BY <1>4, <1>9 DEF Schedule, Once
<1>11. scheduled' \in [Node -> Nat]
  <2>1. scheduled' = [m \in Node |-> scheduled'[m]] BY <1>4 DEF Schedule
  <2> QED BY <1>10, <2>1
<1>12. \A v \in Worker, m \in Node : ~With(v, m)'
  <2>1. \A m \in Node : ~With(w, m)' BY <1>5 DEF With
  <2>2. \A v \in Worker \ {w}, m \in Node : With(v, m)' <=> With(v, m) BY <1>5 DEF With
  <2> QED BY <1>9, <2>1, <2>2
<1>13. ASSUME NEW m \in Node, NEW a, NEW b, NEW c
       PROVE  Here(m, a, b, c)' <=> m \in Sources(Top) /\ a = "queue" /\ b = 0 /\ c = 1
  <2>1. a # "queue" => ~Here(m, a, b, c)' BY <1>4, <1>6, <1>9, <1>12 DEF Here
  <2>2. c \in 1 .. scheduled'[m] <=> m \in Sources(Top) /\ c = 1
    <3>1. CASE m \in Sources(Top)
      <4>1. scheduled'[m] = 1 BY <1>10, <3>1
      <4> QED BY <3>1, <4>1
    <3>2. CASE m \notin Sources(Top)
      <4>1. scheduled'[m] = 0 BY <1>10, <3>2
      <4> QED BY <3>2, <4>1
    <3> QED BY <3>1, <3>2
  <2>3. a = "queue" => (Here(m, a, b, c)' <=> m \in Sources(Top) /\ b = 0 /\ c = 1) BY <2>2 DEF Here
  <2> QED BY <2>1, <2>3
<1>14. Alones' BY <1>13 DEF Alones
<1>15. Works' BY <1>4, <1>13 DEF Works
<1>16. Modules' BY <1>4 DEF Modules
<1>17. Types'
  <2>1. \A m \in Node : StrongDependencies(m) \in Nat BY Strong DEF Placed
  <2>2. Cardinality(Sources(Top)) \in Nat BY SourcesFinite
  <2>3. join' \in [Node \cup {Top} -> Int]
    <3>1. \A m \in Graph(Top) : m \in Node BY DEF Graph
    <3>2. \A m \in Node \cup {Top} : join[m] \in Int BY DEF Placed, Types
    <3> QED BY <1>4, <2>1, <2>2, <3>1, <3>2 DEF Counters
  <2>4. ran' \in [Node -> {0, 1}] /\ round' \in Nat BY <1>4 DEF Placed, Types
  <2> QED BY <1>4, <1>5, <1>11, <2>3, <2>4 DEF Placed, Types
<1>18. Workers'
  <2>1. WorkerOK(w) BY DEF Placed, Workers
  <2>2. WorkerOK(w)' BY <1>2, <1>4, <1>5, <2>1 DEF WorkerOK
  <2> QED BY <1>4, <1>5, <2>2, OthersOK DEF Placed
<1>19. Cancels' BY <1>4 DEF Placed, Cancels
<1>20. ASSUME NEW m \in Node PROVE InFlight(m)' <=> m \in Sources(Top)
  BY <1>4, <1>13 DEF InFlight, Live
<1>21. Restarts BY <1>4, <1>20 DEF Restarts
<1> QED BY <1>14, <1>15, <1>16, <1>17, <1>18, <1>19, <1>21 DEF Placed

LEMMA CancelStep == ASSUME Placed, CancelTopology PROVE Placed' /\ Quiet
<1>1. /\ cancelled' = cancelled \cup {Top}
      /\ UNCHANGED <<g, join, preempted, scheduled, waiters, ran, round, jumped,
                     wpc, node, cache, k, got, conds>>
  BY DEF CancelTopology, semVars, historyVars, workerVars
<1>2. SameHere BY <1>1 DEF SameHere, Here, With
<1>3. Alones' BY <1>2, NoneMoves DEF Placed, SameHere
<1>4. Works' /\ Modules' BY <1>1, <1>2 DEF Placed, Works, Modules, SameHere, Types
<1>5. Types' BY <1>1 DEF Placed, Types
<1>6. Workers'
  <2>1. ASSUME NEW v \in Worker PROVE WorkerOK(v)' BY <1>1 DEF Placed, Workers, WorkerOK
  <2> QED BY <2>1 DEF Workers
<1>7. Cancels' BY <1>1 DEF Cancels
<1>8. SameFlight BY <1>1, <1>2, FlightKept
<1>9. SameCounts BY <1>1 DEF SameCounts, WasReset, CountedOff, With
<1> QED BY <1>1, <1>3, <1>4, <1>5, <1>6, <1>7, <1>8, <1>9 DEF Placed, Quiet, Keeps

\* Every step is of one of these kinds.
StepKind ==
    \/ Quiet \/ Restarts
    \/ \E n \in Node : Work(n) \/ Restores(n) \/ Opens(n) \/ Leaves(n) \/ Ends(n)
    \/ \E n, i : CountsOff(n, i)

LEMMA StepKinds == ASSUME Hyps, Placed, Flow, Next PROVE Placed' /\ StepKind
<1>1. CASE CancelTopology BY <1>1, CancelStep DEF StepKind
<1>2. ASSUME NEW w \in Worker, WorkerStep(w) PROVE Placed' /\ StepKind
  <2>1. CASE \E n \in Node : Take(w, n) BY <2>1, TakeStep DEF StepKind
  <2>2. CASE Begin(w) BY <2>2, BeginStep DEF StepKind
  <2>3. CASE Acquire(w) BY <2>3, AcquireStep, AcquireFails DEF StepKind
  <2>4. CASE Rollback(w) BY <2>4, RollbackStep DEF StepKind
  <2>5. CASE Requeue(w) BY <2>5, RequeueStep DEF StepKind
  <2>6. CASE Throw(w) BY <2>6, ThrowStep DEF StepKind
  <2>7. CASE RunStatic(w) \/ ResumeModule(w) BY <2>7, RunStep DEF StepKind
  <2>8. CASE RunCondition(w)
    <3>1. wpc[w] = "run" /\ IsConditioner(node[w]) BY <2>8 DEF RunCondition
    <3>2. node[w] \in Node BY <3>1, AtWork DEF Away
    <3> QED BY <3>1, <3>2, Graphs DEF Placed
  <2>9. CASE EnterModule(w) BY <2>9, EnterStep DEF StepKind
  <2>10. CASE Raise(w) BY <2>10, RaiseStep DEF StepKind
  <2>11. CASE Store(w) BY <2>11, StoreStep DEF StepKind
  <2>12. CASE Release(w) BY <2>12, ReleaseStep DEF StepKind
  <2>13. CASE Wake(w) BY <2>13, WakeStep DEF StepKind
  <2>14. CASE Reset(w) BY <2>14, ResetStep DEF StepKind
  <2>15. CASE CountOff(w) BY <2>15, CountOffMore, CountOffLast DEF StepKind
  <2>16. CASE Jump(w) BY <2>16 DEF Jump, Placed, Workers, WorkerOK
  <2>17. CASE LeaveModule(w) BY <2>17, LeaveModuleStep DEF StepKind
  <2>18. CASE LeaveTopology(w) BY <2>18, LeaveTopologyStep DEF StepKind
  <2>19. CASE FinishRound(w) BY <2>19, EndStep, RestartStep DEF StepKind
  <2> QED BY <1>2, <2>1, <2>2, <2>3, <2>4, <2>5, <2>6, <2>7, <2>8, <2>9, <2>10, <2>11, <2>12,
       <2>13, <2>14, <2>15, <2>16, <2>17, <2>18, <2>19 DEF WorkerStep
<1> QED BY <1>1, <1>2 DEF Next

-----------------------------------------------------------------------------
(* What the kinds of steps keep. *)

LEMMA LeftKept ==
    ASSUME Hyps, Types, UNCHANGED g, SameCounts, NEW n \in Node
    PROVE  /\ Left(n)' = Left(n) /\ (WasReset(n)' <=> WasReset(n))
           /\ StrongDependencies(n)' = StrongDependencies(n)
<1>1. In(n)' = In(n) /\ StrongDependencies(n)' = StrongDependencies(n)
  BY DEF In, StrongDependencies, Predecessors, Edges, IsConditioner
<1>2. \A e \in In(n) : CountedOff(e[1], e[2])' <=> CountedOff(e[1], e[2])
  <2> SUFFICES ASSUME NEW e \in In(n) PROVE CountedOff(e[1], e[2])' <=> CountedOff(e[1], e[2])
    OBVIOUS
  <2>1. e[1] \in Node /\ e[2] \in 1 .. Len(g.succ[e[1]]) BY Strong
  <2> QED BY <2>1 DEF SameCounts
<1>3. Left(n)' = Left(n) BY <1>1, <1>2 DEF Left
<1> QED BY <1>1, <1>3 DEF SameCounts

LEMMA FlyingKept ==
    ASSUME UNCHANGED g, SameFlight, NEW p PROVE Flying(p)' = Flying(p)
BY DEF Flying, Graph, SameFlight

LEMMA QuietFlow == ASSUME Hyps, Placed, Flow, Quiet PROVE Flow'
<1>1. UNCHANGED <<g, preempted, ran, join, round>> /\ SameFlight /\ SameCounts
      /\ (Top \in cancelled => Top \in cancelled') BY DEF Quiet, Keeps
<1>2. ASSUME NEW n \in Node
      PROVE  /\ InFlight(n)' <=> InFlight(n)
             /\ Left(n)' = Left(n) /\ (WasReset(n)' <=> WasReset(n))
             /\ StrongDependencies(n)' = StrongDependencies(n)
             /\ Active(g.parent[n])' <=> Active(g.parent[n])
             /\ Entered(n)' <=> Entered(n) BY <1>1, LeftKept DEF SameFlight, Active, Entered, Placed
<1>3. Flights' BY <1>1, <1>2 DEF Flow, Flights
<1>4. Rans' BY <1>1, <1>2 DEF Flow, Rans
<1>5. Befores' BY <1>1, <1>2 DEF Flow, Befores
<1>6. Counted' BY <1>1, FlyingKept DEF Flow, Counted
<1>7. Joins' BY <1>1, <1>2 DEF Flow, Joins
<1>8. Skips' BY <1>1, <1>2 DEF Flow, Skips
<1> QED BY <1>3, <1>4, <1>5, <1>6, <1>7, <1>8 DEF Flow

\* A module that does its work leaves no task of its graph behind.
LEMMA WorkFlow == ASSUME Hyps, Placed, Flow, NEW n, Work(n) PROVE Flow'
<1>1. /\ UNCHANGED <<g, join, round>> /\ SameFlight /\ SameCounts
      /\ (Top \in cancelled => Top \in cancelled')
      /\ n \in Node /\ InFlight(n) /\ ran[n] = 0 /\ ran' = [ran EXCEPT ![n] = 1]
      /\ IF n \in preempted THEN join[n] = 0 ELSE Graph(n) = {}
      /\ preempted' = preempted \ {n} BY DEF Work, Keeps, InFlight
<1>2. ran'[n] = 1 /\ \A m \in Node \ {n} : ran'[m] = ran[m] BY <1>1 DEF Placed, Types
<1>3. ASSUME NEW m \in Node
      PROVE  /\ InFlight(m)' <=> InFlight(m)
             /\ Left(m)' = Left(m) /\ (WasReset(m)' <=> WasReset(m))
             /\ StrongDependencies(m)' = StrongDependencies(m)
  BY <1>1, LeftKept DEF SameFlight, Placed
<1>4. n # Top BY <1>1 DEF Hyps, GraphAssumption
<1>5. ASSUME NEW m \in Node, g.parent[m] = n PROVE ~InFlight(m) /\ n \in preempted
  <2>1. n \in preempted BY <1>1, <1>5 DEF Graph
  <2>2. Cardinality(Flying(n)) = 0 BY <1>1, <2>1 DEF Flow, Counted
  <2>3. Flying(n) = {} BY <2>2, FlyingFinite, FS_EmptySet
  <2> QED BY <1>5, <2>1, <2>3 DEF Flying, Graph
<1>6. ASSUME NEW m \in Node
      PROVE  /\ Active(g.parent[m])' <=> Active(g.parent[m]) /\ g.parent[m] # n
             /\ Entered(m)' <=> Entered(m)
  <2>1. Active(g.parent[m])' <=> Active(g.parent[m]) /\ g.parent[m] # n BY <1>1, <1>4 DEF Active
  <2>2. CASE g.parent[m] = n
    <3>1. Entered(m) BY <1>5, <2>2 DEF Entered, Active
    <3>2. Entered(m)' BY <1>1, <1>2, <2>2 DEF Entered
    <3> QED BY <2>1, <3>1, <3>2
  <2>3. CASE g.parent[m] # n BY <1>1, <1>2, <2>1, <2>3 DEF Entered
  <2> QED BY <2>1, <2>2, <2>3
<1>7. Flights' BY <1>1, <1>3, <1>5, <1>6 DEF Flow, Flights
<1>8. Rans'
  <2>1. Entered(n) BY <1>1 DEF Flow, Flights, Entered
  <2>2. ASSUME NEW m \in Node, ran'[m] = 1 PROVE Entered(m) BY <1>2, <2>1, <2>2 DEF Flow, Rans
  <2> QED BY <1>6, <2>2 DEF Rans
<1>9. Befores'
  <2>1. ASSUME NEW m \in Node, InFlight(m) \/ ran'[m] = 1 PROVE Left(m) = {}
    BY <1>1, <1>2, <2>1 DEF Flow, Befores
  <2> QED BY <1>3, <2>1 DEF Befores
<1>10. Counted' BY <1>1, FlyingKept DEF Flow, Counted
<1>11. Joins'
  <2>1. ASSUME NEW m \in Node, Active(g.parent[m]), m \notin preempted \ {n}
        PROVE  join[m] = Cardinality(Left(m)) + (IF WasReset(m) THEN StrongDependencies(m) ELSE 0)
    <3>1. CASE m \notin preempted BY <2>1, <3>1 DEF Flow, Joins
    <3>2. CASE m = n /\ n \in preempted
      <4>1. Left(n) = {} /\ ~WasReset(n) /\ join[n] = 0 BY <1>1, <3>2 DEF Flow, Befores, WasReset
      <4> QED BY <3>2, <4>1, FS_EmptySet
    <3> QED BY <2>1, <3>1, <3>2
  <2> QED BY <1>1, <1>3, <1>6, <2>1 DEF Joins
<1>12. Skips'
  <2>1. ASSUME Top \notin cancelled, NEW m \in Node, Entered(m), Left(m) = {}, ~InFlight(m)
        PROVE  ran'[m] = 1
    <3>1. ran[m] = 1 BY <2>1 DEF Flow, Skips
    <3> QED BY <1>1, <1>2, <3>1
  <2> QED BY <1>1, <1>3, <1>6, <2>1 DEF Skips
<1> QED BY <1>7, <1>8, <1>9, <1>10, <1>11, <1>12 DEF Flow

LEMMA LeftSame ==
    ASSUME Hyps, Types, UNCHANGED g, NEW n \in Node,
           \A m \in Node : \A i \in 1 .. Len(g.succ[m]) :
              g.succ[m][i] = n => (CountedOff(m, i)' <=> CountedOff(m, i))
    PROVE  Left(n)' = Left(n) /\ In(n)' = In(n) /\ StrongDependencies(n)' = StrongDependencies(n)
<1>1. In(n)' = In(n) /\ StrongDependencies(n)' = StrongDependencies(n)
  BY DEF In, StrongDependencies, Predecessors, Edges, IsConditioner
<1>2. \A e \in In(n) : CountedOff(e[1], e[2])' <=> CountedOff(e[1], e[2])
  <2> SUFFICES ASSUME NEW e \in In(n) PROVE CountedOff(e[1], e[2])' <=> CountedOff(e[1], e[2])
    OBVIOUS
  <2>1. e[1] \in Node /\ e[2] \in 1 .. Len(g.succ[e[1]]) /\ g.succ[e[1]][e[2]] = n BY Strong
  <2> QED BY <2>1
<1>3. Left(n)' = Left(n) BY <1>1, <1>2 DEF Left
<1> QED BY <1>1, <1>3

\* A module is a task, and the topology is none.
LEMMA TopIsNoTask == ASSUME Hyps, Types, NEW p \in preempted \cup {Top}
                     PROVE  p \in Node \cup {Top} /\ (p = Top => p \notin Node)
BY DEF Hyps, GraphAssumption, Types

\* A counter is restored before it can be counted down again.
LEMMA RestoresFlow == ASSUME Hyps, Placed, Flow, NEW n, Restores(n) PROVE Flow'
<1>1. /\ UNCHANGED <<g, preempted, ran, round>> /\ SameFlight
      /\ (Top \in cancelled => Top \in cancelled')
      /\ n \in Node \ preempted /\ ~WasReset(n) /\ WasReset(n)'
      /\ \A m \in Node \ {n} : WasReset(m)' <=> WasReset(m)
      /\ join' = [join EXCEPT ![n] = @ + StrongDependencies(n)] BY DEF Restores, Keeps
<1>2. ASSUME NEW m \in Node
      PROVE  Left(m)' = Left(m) /\ StrongDependencies(m)' = StrongDependencies(m)
             /\ (InFlight(m)' <=> InFlight(m))
             /\ (Active(g.parent[m])' <=> Active(g.parent[m])) /\ (Entered(m)' <=> Entered(m))
  <2>1. \A x \in Node : \A i \in 1 .. Len(g.succ[x]) : CountedOff(x, i)' <=> CountedOff(x, i)
    BY DEF Restores
  <2>2. Left(m)' = Left(m) /\ StrongDependencies(m)' = StrongDependencies(m)
    BY <1>1, <2>1, LeftSame DEF Placed
  <2> QED BY <1>1, <2>2 DEF SameFlight, Active, Entered
<1>3. join' \in [Node \cup {Top} -> Int] /\ join'[n] = join[n] + StrongDependencies(n)
      /\ \A m \in Node \cup {Top} : m # n => join'[m] = join[m]
  <2>1. StrongDependencies(n) \in Int BY <1>1, Strong DEF Placed
  <2> QED BY <1>1, <2>1 DEF Placed, Types
<1>4. Flights' /\ Rans' /\ Befores' /\ Skips' BY <1>1, <1>2 DEF Flow, Flights, Rans, Befores, Skips
<1>5. Counted'
  <2> SUFFICES ASSUME NEW p \in preempted \cup {Top} PROVE join'[p] = Cardinality(Flying(p)')
    BY <1>1 DEF Counted
  <2>1. p \in Node \cup {Top} /\ p # n BY <1>1, TopIsNoTask DEF Placed
  <2>2. Flying(p)' = Flying(p) BY <1>1, FlyingKept
  <2> QED BY <1>3, <2>1, <2>2 DEF Flow, Counted
<1>6. Joins'
  <2> SUFFICES ASSUME NEW m \in Node, Active(g.parent[m]), m \notin preempted
               PROVE  join'[m] = Cardinality(Left(m)) + (IF WasReset(m)' THEN StrongDependencies(m) ELSE 0)
    BY <1>1, <1>2 DEF Joins
  <2>1. join[m] = Cardinality(Left(m)) + (IF WasReset(m) THEN StrongDependencies(m) ELSE 0)
    BY DEF Flow, Joins
  <2>2. Cardinality(Left(m)) \in Nat
    <3>1. IsFiniteSet(In(m)) /\ Left(m) \subseteq In(m) BY Strong DEF Left, Placed
    <3> QED BY <3>1, FS_Subset, FS_CardinalityType
  <2>3. CASE m = n BY <1>1, <1>3, <2>1, <2>2, <2>3
  <2>4. CASE m # n BY <1>1, <1>3, <2>1, <2>4
  <2> QED BY <2>3, <2>4
<1> QED BY <1>4, <1>5, <1>6 DEF Flow

\* Whoever counts off the last edge puts the task in flight, and in its parent's
\* counter.
LEMMA CountsOffFlow == ASSUME Hyps, Placed, Flow, NEW n, NEW i, CountsOff(n, i) PROVE Flow'
<1> DEFINE t == g.succ[n][i]
<1>1. /\ UNCHANGED <<g, preempted, ran, round>> /\ (Top \in cancelled => Top \in cancelled')
      /\ n \in Node /\ InFlight(n) /\ i \in 1 .. Len(g.succ[n])
      /\ ~CountedOff(n, i) /\ CountedOff(n, i)'
      /\ \A m \in Node : WasReset(m)' <=> WasReset(m)
      /\ \A m \in Node : \A j \in 1 .. Len(g.succ[m]) :
            m # n \/ j # i => (CountedOff(m, j)' <=> CountedOff(m, j))
      /\ \A m \in Node : InFlight(m)' <=> InFlight(m) \/ (m = t /\ join[t] = 1)
      /\ join' = IF join[t] = 1 THEN [join EXCEPT ![t] = 0, ![g.parent[n]] = @ + 1]
                                ELSE [join EXCEPT ![t] = @ - 1] BY DEF CountsOff, Keeps, InFlight
<1>2. PICK s \in Node : s = t BY <1>1, Graphs DEF Placed
<1>3. PICK p \in Node \cup {Top} : p = g.parent[n] BY <1>1, IsCounted
<1>4. /\ <<n, i>> \in Left(s) /\ <<n, i>> \in In(s) /\ ~InFlight(s) /\ ran[s] = 0
      /\ g.parent[s] = p
  <2>1. <<n, i>> \in Left(s) /\ ~InFlight(s) /\ ran[s] = 0 BY <1>1, <1>2, AtEdge
  <2>2. <<n, i>> \in In(s) BY <2>1 DEF Left
  <2> QED BY <1>3, <2>1, <2>2, Strong DEF Placed
<1>5. round <= Rounds /\ Active(p) /\ p \in preempted \cup {Top} /\ join[p] \in Nat
  BY <1>1, <1>3, IsCounted
<1>6. s \notin preempted /\ s # p BY <1>4, <1>5, TopIsNoTask DEF InFlight, Placed
<1>7. IsFiniteSet(Left(s)) /\ Cardinality(Left(s)) \in Nat /\ join[s] = Cardinality(Left(s))
  <2>1. IsFiniteSet(In(s)) /\ Left(s) \subseteq In(s) BY Strong DEF Left, Placed
  <2>2. ~WasReset(s) BY <1>4 DEF WasReset
  <2>3. join[s] = Cardinality(Left(s)) + 0 BY <1>4, <1>5, <1>6, <2>2 DEF Flow, Joins
  <2>4. IsFiniteSet(Left(s)) /\ Cardinality(Left(s)) \in Nat BY <2>1, FS_Subset, FS_CardinalityType
  <2> QED BY <2>3, <2>4
<1>8. Left(s)' = Left(s) \ {<<n, i>>}
  <2>1. In(s)' = In(s) BY <1>1 DEF In, Predecessors, Edges
  <2>2. \A e \in In(s) : e # <<n, i>> => (CountedOff(e[1], e[2])' <=> CountedOff(e[1], e[2]))
    <3> SUFFICES ASSUME NEW e \in In(s), e # <<n, i>>
                 PROVE  CountedOff(e[1], e[2])' <=> CountedOff(e[1], e[2]) OBVIOUS
    <3>1. e[1] \in Node /\ e[2] \in 1 .. Len(g.succ[e[1]]) /\ e = <<e[1], e[2]>>
      BY Strong DEF Placed
    <3> QED BY <1>1, <3>1
  <2>3. \A e : e = <<n, i>> => CountedOff(e[1], e[2])' BY <1>1
  <2> QED BY <2>1, <2>2, <2>3 DEF Left
<1>9. Cardinality(Left(s)') = join[s] - 1
  <2>1. Cardinality(Left(s) \ {<<n, i>>}) = Cardinality(Left(s)) - 1 BY <1>4, <1>7, FS_RemoveElement
  <2> QED BY <1>7, <1>8, <2>1
<1>10. Left(s)' = {} <=> join[s] = 1
  <2>1. IsFiniteSet(Left(s)')
    <3>1. IsFiniteSet(Left(s) \ {<<n, i>>}) BY <1>7, FS_RemoveElement
    <3> QED BY <1>8, <3>1
  <2> QED BY <1>7, <1>9, <2>1, FS_EmptySet
<1>11. ASSUME NEW m \in Node
       PROVE  /\ m # s => Left(m)' = Left(m)
              /\ StrongDependencies(m)' = StrongDependencies(m)
              /\ Active(g.parent[m])' <=> Active(g.parent[m])
              /\ Entered(m)' <=> Entered(m)
  <2>1. StrongDependencies(m)' = StrongDependencies(m)
    BY <1>1 DEF StrongDependencies, Predecessors, Edges, IsConditioner
  <2>2. ASSUME m # s, NEW x \in Node, NEW j \in 1 .. Len(g.succ[x]), g.succ[x][j] = m
        PROVE  CountedOff(x, j)' <=> CountedOff(x, j) BY <1>1, <1>2, <2>2
  <2>3. m # s => Left(m)' = Left(m) BY <1>1, <2>2, LeftSame DEF Placed
  <2> QED BY <1>1, <2>1, <2>3 DEF Active, Entered
<1>12. ASSUME NEW m \in Node PROVE InFlight(m)' <=> InFlight(m) \/ (m = s /\ join[s] = 1)
  BY <1>1, <1>2
<1>13. /\ \A m \in Node \cup {Top} : m # s /\ m # p => join'[m] = join[m]
       /\ join'[s] = join[s] - 1
       /\ join'[p] = IF join[s] = 1 THEN join[p] + 1 ELSE join[p]
  BY <1>1, <1>2, <1>3, <1>6 DEF Placed, Types
<1> HIDE DEF t
<1>14. Flights' BY <1>1, <1>4, <1>5, <1>11, <1>12 DEF Flow, Flights
<1>15. Rans' BY <1>1, <1>11 DEF Flow, Rans
<1>16. Befores' BY <1>1, <1>4, <1>10, <1>11, <1>12 DEF Flow, Befores
<1>17. Counted'
  <2> SUFFICES ASSUME NEW q \in preempted \cup {Top} PROVE join'[q] = Cardinality(Flying(q)')
    BY <1>1 DEF Counted
  <2>1. join[q] = Cardinality(Flying(q)) /\ q \in Node \cup {Top} /\ q # s
    BY <1>6, TopIsNoTask DEF Flow, Counted, Placed
  <2>2. CASE q = p /\ join[s] = 1
    <3>1. Flying(p)' = Flying(p) \cup {s} /\ s \notin Flying(p)
      BY <1>1, <1>4, <1>12, <2>2 DEF Flying, Graph
    <3>2. Cardinality(Flying(p)') = Cardinality(Flying(p)) + 1 BY <3>1, FlyingFinite, FS_AddElement
    <3> QED BY <1>13, <2>1, <2>2, <3>2
  <2>3. CASE ~(q = p /\ join[s] = 1)
    <3>1. Flying(q)' = Flying(q) BY <1>1, <1>4, <1>12, <2>3 DEF Flying, Graph
    <3> QED BY <1>13, <2>1, <2>3, <3>1
  <2> QED BY <2>2, <2>3
<1>18. Joins'
  <2> SUFFICES ASSUME NEW m \in Node, Active(g.parent[m]), m \notin preempted
               PROVE  join'[m] = Cardinality(Left(m)') + (IF WasReset(m) THEN StrongDependencies(m) ELSE 0)
    BY <1>1, <1>11 DEF Joins
  <2>1. CASE m = s
    <3>1. ~WasReset(s) BY <1>4 DEF WasReset
    <3> QED BY <1>7, <1>9, <1>13, <2>1, <3>1
  <2>2. CASE m # s
    <3>1. m # p BY <1>5, TopIsNoTask DEF Placed
    <3> QED BY <1>11, <1>13, <2>2, <3>1 DEF Flow, Joins
  <2> QED BY <2>1, <2>2
<1>19. Skips' BY <1>1, <1>10, <1>11, <1>12 DEF Flow, Skips
<1> QED BY <1>14, <1>15, <1>16, <1>17, <1>18, <1>19 DEF Flow

\* A task that is done is taken out of its parent's counter.
LEMMA LeavesFlow == ASSUME Hyps, Placed, Flow, NEW n, Leaves(n) PROVE Flow'
<1>1. /\ UNCHANGED <<g, preempted, ran, round>> /\ (Top \in cancelled => Top \in cancelled')
      /\ SameCounts /\ n \in Node /\ n \notin preempted /\ InFlight(n)
      /\ (ran[n] = 1 \/ Top \in cancelled)
      /\ \A m \in Node : InFlight(m)' <=> InFlight(m) /\ m # n
      /\ join' = [join EXCEPT ![g.parent[n]] = @ - 1] BY DEF Leaves, Keeps, InFlight
<1>2. PICK p \in Node \cup {Top} : p = g.parent[n] BY <1>1, IsCounted
<1>3. p \in preempted \cup {Top} /\ join[p] \in Nat BY <1>1, <1>2, IsCounted
<1>4. ASSUME NEW m \in Node
      PROVE  /\ Left(m)' = Left(m) /\ (WasReset(m)' <=> WasReset(m))
             /\ StrongDependencies(m)' = StrongDependencies(m)
             /\ Active(g.parent[m])' <=> Active(g.parent[m])
             /\ Entered(m)' <=> Entered(m) BY <1>1, LeftKept DEF Active, Entered, Placed
<1>5. /\ \A m \in Node \cup {Top} : m # p => join'[m] = join[m]
      /\ join'[p] = join[p] - 1 BY <1>1, <1>2 DEF Placed, Types
<1>6. Flights' /\ Rans' /\ Befores' /\ Skips' BY <1>1, <1>4 DEF Flow, Flights, Rans, Befores, Skips
<1>7. Counted'
  <2> SUFFICES ASSUME NEW q \in preempted \cup {Top} PROVE join'[q] = Cardinality(Flying(q)')
    BY <1>1 DEF Counted
  <2>1. join[q] = Cardinality(Flying(q)) /\ q \in Node \cup {Top}
    BY TopIsNoTask DEF Flow, Counted, Placed
  <2>2. CASE q = p
    <3>1. Flying(p)' = Flying(p) \ {n} /\ n \in Flying(p) BY <1>1, <1>2 DEF Flying, Graph
    <3>2. Cardinality(Flying(p) \ {n}) = Cardinality(Flying(p)) - 1
      BY <3>1, FlyingFinite, FS_RemoveElement
    <3> QED BY <1>5, <2>1, <2>2, <3>1, <3>2
  <2>3. CASE q # p
    <3>1. Flying(q)' = Flying(q) BY <1>1, <1>2, <2>3 DEF Flying, Graph
    <3> QED BY <1>5, <2>1, <2>3, <3>1
  <2> QED BY <2>2, <2>3
<1>8. Joins'
  <2> SUFFICES ASSUME NEW m \in Node, Active(g.parent[m]), m \notin preempted
               PROVE  join'[m] = Cardinality(Left(m)) + (IF WasReset(m) THEN StrongDependencies(m) ELSE 0)
    BY <1>1, <1>4 DEF Joins
  <2>1. m # p BY <1>3, TopIsNoTask DEF Placed
  <2> QED BY <1>5, <2>1 DEF Flow, Joins
<1> QED BY <1>6, <1>7, <1>8 DEF Flow

\* The topology is finished when nothing is in flight, and not before.
LEMMA EndsFlow == ASSUME Hyps, Placed, Flow, NEW n, Ends(n) PROVE Flow'
<1>1. /\ UNCHANGED <<g, preempted, ran>> /\ (Top \in cancelled => Top \in cancelled')
      /\ SameCounts /\ n \in Node /\ preempted = {}
      /\ (ran[n] = 1 \/ Top \in cancelled)
      /\ \A m \in Node : InFlight(m) => m = n
      /\ \A m \in Node : ~InFlight(m)'
      /\ join' = [join EXCEPT ![Top] = 0] BY DEF Ends, Keeps
<1>2. ASSUME NEW m \in Node
      PROVE  /\ Left(m)' = Left(m) /\ (WasReset(m)' <=> WasReset(m))
             /\ StrongDependencies(m)' = StrongDependencies(m)
             /\ Active(g.parent[m])' <=> Active(g.parent[m])
             /\ Entered(m)' <=> Entered(m) BY <1>1, LeftKept DEF Active, Entered, Placed
<1>3. Flights' /\ Rans' /\ Befores' /\ Skips' BY <1>1, <1>2 DEF Flow, Flights, Rans, Befores, Skips
<1>4. join'[Top] = 0 /\ \A m \in Node : join'[m] = join[m]
  BY <1>1 DEF Placed, Types, Hyps, GraphAssumption
<1>5. Counted'
  <2>1. Flying(Top)' = {} BY <1>1 DEF Flying, Graph
  <2>2. Cardinality(Flying(Top)') = 0 BY <2>1, FS_EmptySet
  <2> QED BY <1>1, <1>4, <2>2 DEF Counted
<1>6. Joins' BY <1>1, <1>2, <1>4 DEF Flow, Joins
<1> QED BY <1>3, <1>5, <1>6 DEF Flow

\* The counter of a task before any of its predecessors ran.
LEMMA Untouched ==
    ASSUME Hyps, Types, NEW m \in Node, \A x \in Node : g.parent[x] = g.parent[m] => ran[x] = 0
    PROVE  /\ Left(m) = In(m) /\ ~WasReset(m)
           /\ StrongDependencies(m) = Cardinality(Left(m))
                                    + (IF WasReset(m) THEN StrongDependencies(m) ELSE 0)
           /\ m \in Sources(g.parent[m]) <=> Left(m) = {}
<1>1. ~WasReset(m) BY DEF WasReset
<1>2. \A e \in In(m) : ~CountedOff(e[1], e[2]) BY Strong DEF CountedOff
<1>3. Left(m) = In(m) BY <1>2 DEF Left
<1>4. StrongDependencies(m) = Cardinality(In(m)) /\ StrongDependencies(m) \in Nat
      /\ (In(m) = {} <=> Predecessors(m) = {}) BY Strong
<1>5. m \in Sources(g.parent[m]) <=> Predecessors(m) = {} BY DEF Sources, Graph
<1> QED BY <1>1, <1>3, <1>4, <1>5

\* A module counts the sources of its graph; the other counters wait for theirs.
LEMMA OpensFlow == ASSUME Hyps, Placed, Flow, NEW n, Opens(n) PROVE Flow'
<1>1. /\ UNCHANGED <<g, ran, round>> /\ (Top \in cancelled => Top \in cancelled')
      /\ SameCounts /\ n \in Node /\ n \notin preempted /\ InFlight(n) /\ ran[n] = 0
      /\ preempted' = preempted \cup {n}
      /\ \A m \in Node : InFlight(m)' <=> InFlight(m) \/ m \in Sources(n)
      /\ join' = Counters(n, join[n]) BY DEF Opens, Keeps, InFlight
<1>2. n # Top /\ Top \notin Node BY <1>1 DEF Hyps, GraphAssumption
<1>3. \A m \in Graph(n) : m \in Node /\ m # n /\ ~InFlight(m) /\ ran[m] = 0 BY <1>1, AtRest
<1>4. ASSUME NEW m \in Node
      PROVE  /\ Left(m)' = Left(m) /\ (WasReset(m)' <=> WasReset(m))
             /\ StrongDependencies(m)' = StrongDependencies(m)
             /\ Active(g.parent[m])' <=> Active(g.parent[m]) \/ g.parent[m] = n
             /\ Entered(m)' <=> Entered(m) \/ g.parent[m] = n
  <2>1. Left(m)' = Left(m) /\ (WasReset(m)' <=> WasReset(m))
        /\ StrongDependencies(m)' = StrongDependencies(m) BY <1>1, LeftKept DEF Placed
  <2> QED BY <1>1, <1>2, <2>1 DEF Active, Entered
<1>5. ASSUME NEW m \in Node, g.parent[m] = n
      PROVE  /\ StrongDependencies(m) = Cardinality(Left(m))
                                      + (IF WasReset(m) THEN StrongDependencies(m) ELSE 0)
             /\ m \in Sources(n) <=> Left(m) = {}
  <2>1. \A x \in Node : g.parent[x] = g.parent[m] => ran[x] = 0 BY <1>3, <1>5 DEF Graph
  <2> QED BY <1>5, <2>1, Untouched DEF Placed
<1>6. \A m \in Sources(n) : m \in Node /\ g.parent[m] = n BY DEF Sources, Graph
<1>7. join[n] = 0
  <2>1. Active(g.parent[n]) BY <1>1, IsCounted
  <2>2. Left(n) = {} /\ ~WasReset(n) BY <1>1 DEF Flow, Befores, WasReset
  <2>3. Cardinality(Left(n)) = 0 BY <2>2, FS_EmptySet
  <2> QED BY <1>1, <2>1, <2>2, <2>3 DEF Flow, Joins
<1>8. /\ join'[n] = Cardinality(Sources(n))
      /\ \A m \in Graph(n) : join'[m] = StrongDependencies(m)
      /\ \A m \in Node \cup {Top} : m # n /\ m \notin Graph(n) => join'[m] = join[m]
  <2>1. join'[n] = 0 + Cardinality(Sources(n)) BY <1>1, <1>7 DEF Counters
  <2>2. Cardinality(Sources(n)) \in Nat BY SourcesFinite
  <2> QED BY <1>1, <1>3, <2>1, <2>2 DEF Counters
<1>9. Flights'
  <2> SUFFICES ASSUME NEW m \in Node, InFlight(m)' PROVE round <= Rounds /\ Active(g.parent[m])'
    BY <1>1 DEF Flights
  <2>1. round <= Rounds BY <1>1, IsCounted
  <2>2. InFlight(m) => Active(g.parent[m]) BY DEF Flow, Flights
  <2> QED BY <1>1, <1>4, <1>6, <2>1, <2>2
<1>10. Rans' BY <1>1, <1>4 DEF Flow, Rans
<1>11. Befores' BY <1>1, <1>4, <1>5, <1>6 DEF Flow, Befores
<1>12. Counted'
  <2> SUFFICES ASSUME NEW q \in preempted \cup {n, Top} PROVE join'[q] = Cardinality(Flying(q)')
    BY <1>1 DEF Counted
  <2>1. CASE q = n
    <3>1. Flying(n)' = Sources(n) BY <1>1, <1>3, <1>6 DEF Flying, Graph
    <3> QED BY <1>8, <2>1, <3>1
  <2>2. CASE q # n
    <3>1. join[q] = Cardinality(Flying(q)) /\ q \in Node \cup {Top} /\ (q = Top \/ InFlight(q))
      BY <2>2, TopIsNoTask DEF Flow, Counted, Placed, InFlight
    <3>2. q \notin Graph(n) BY <1>2, <1>3, <3>1
    <3>3. Flying(q)' = Flying(q) BY <1>1, <1>6, <2>2 DEF Flying, Graph
    <3> QED BY <1>8, <2>2, <3>1, <3>2, <3>3
  <2> QED BY <2>1, <2>2
<1>13. Joins'
  <2> SUFFICES ASSUME NEW m \in Node, Active(g.parent[m])', m \notin preempted, m # n
               PROVE  join'[m] = Cardinality(Left(m)) + (IF WasReset(m) THEN StrongDependencies(m) ELSE 0)
    BY <1>1, <1>4 DEF Joins
  <2>1. CASE g.parent[m] = n BY <1>5, <1>8, <2>1 DEF Graph
  <2>2. CASE g.parent[m] # n
    <3>1. m \notin Graph(n) /\ Active(g.parent[m]) BY <1>4, <2>2 DEF Graph
    <3> QED BY <1>8, <3>1 DEF Flow, Joins
  <2> QED BY <2>1, <2>2
<1>14. Skips' BY <1>1, <1>4, <1>5 DEF Flow, Skips
<1> QED BY <1>9, <1>10, <1>11, <1>12, <1>13, <1>14 DEF Flow

\* So does the topology, each time it runs its graph.
LEMMA RestartsFlow == ASSUME Hyps, Placed, Flow, Placed', Restarts PROVE Flow'
<1>1. /\ UNCHANGED g /\ round' = round + 1 /\ round < Rounds
      /\ preempted' = {} /\ ran' = [n \in Node |-> 0]
      /\ \A m \in Node : InFlight(m)' <=> m \in Sources(Top)
      /\ join' = Counters(Top, 0) BY DEF Restarts
<1>2. Top \notin Node /\ Rounds \in Nat /\ round' <= Rounds
  <2>1. Top \notin Node /\ Rounds \in Nat /\ round \in Nat
    BY DEF Hyps, GraphAssumption, Placed, Types
  <2> QED BY <1>1, <2>1
<1>3. ASSUME NEW m \in Node
      PROVE  /\ Left(m)' = In(m) /\ ~WasReset(m)'
             /\ StrongDependencies(m)' = StrongDependencies(m)
             /\ StrongDependencies(m) = Cardinality(In(m)) /\ Cardinality(In(m)) \in Nat
             /\ Active(g.parent[m])' <=> g.parent[m] = Top
             /\ Entered(m)' <=> g.parent[m] = Top
             /\ In(m) = {} <=> Predecessors(m) = {}
  <2>1. In(m)' = In(m) /\ StrongDependencies(m)' = StrongDependencies(m)
    BY <1>1 DEF In, StrongDependencies, Predecessors, Edges, IsConditioner
  <2>2. /\ \A e \in In(m) : e[1] \in Node
        /\ StrongDependencies(m) = Cardinality(In(m)) /\ Cardinality(In(m)) \in Nat
        /\ In(m) = {} <=> Predecessors(m) = {} BY Strong DEF Placed
  <2>3. \A e \in In(m) : ~CountedOff(e[1], e[2])' BY <1>1, <2>2 DEF CountedOff
  <2>4. Left(m)' = In(m) BY <2>1, <2>3 DEF Left
  <2>5. ~WasReset(m)' BY <1>1 DEF WasReset
  <2>6. Active(g.parent[m])' <=> g.parent[m] = Top BY <1>1 DEF Active
  <2>7. Entered(m)' <=> g.parent[m] = Top BY <1>1, <2>6 DEF Entered
  <2> QED BY <2>1, <2>2, <2>4, <2>5, <2>6, <2>7
<1>4. \A m \in Node : m \in Sources(Top) <=> g.parent[m] = Top /\ Predecessors(m) = {}
  BY DEF Sources, Graph
<1>5. /\ join'[Top] = Cardinality(Sources(Top))
      /\ \A m \in Node : g.parent[m] = Top => join'[m] = StrongDependencies(m)
  <2>1. join'[Top] = 0 + Cardinality(Sources(Top)) BY <1>1 DEF Counters
  <2>2. Cardinality(Sources(Top)) \in Nat BY SourcesFinite
  <2> QED BY <1>1, <1>2, <2>1, <2>2 DEF Counters, Graph
<1>6. Flights' BY <1>1, <1>2, <1>3, <1>4 DEF Flights
<1>7. Rans' BY <1>1 DEF Rans
<1>8. Befores' BY <1>1, <1>3, <1>4 DEF Befores
<1>9. Counted'
  <2>1. Flying(Top)' = Sources(Top) BY <1>1, <1>4 DEF Flying, Graph, Sources
  <2> QED BY <1>1, <1>5, <2>1 DEF Counted
<1>10. Joins' BY <1>3, <1>5 DEF Joins
<1>11. Skips' BY <1>1, <1>3, <1>4 DEF Skips
<1> QED BY <1>6, <1>7, <1>8, <1>9, <1>10, <1>11 DEF Flow

LEMMA StepFlow == ASSUME Hyps, Placed, Flow, Placed', StepKind PROVE Flow'
<1>1. CASE Quiet BY <1>1, QuietFlow
<1>2. CASE Restarts BY <1>2, RestartsFlow
<1>3. CASE \E n \in Node : Work(n) \/ Restores(n) \/ Opens(n) \/ Leaves(n) \/ Ends(n)
  BY <1>3, WorkFlow, RestoresFlow, OpensFlow, LeavesFlow, EndsFlow
<1>4. CASE \E n, i : CountsOff(n, i) BY <1>4, CountsOffFlow
<1> QED BY <1>1, <1>2, <1>3, <1>4 DEF StepKind

-----------------------------------------------------------------------------
(* The initial states, and steps that change nothing. *)

LEMMA PlacedInit == ASSUME Hyps, Init PROVE Placed
<1>1. /\ g \in Shapes /\ preempted = {} /\ cancelled = {}
      /\ scheduled = Once(Sources(Top)) /\ waiters = [s \in Sem |-> <<>>]
      /\ ran = [n \in Node |-> 0] /\ jumped = [n \in Node |-> 0] /\ round = 1
      /\ wpc = [w \in Worker |-> "idle"] /\ node = [w \in Worker |-> NoNode]
      /\ cache = [w \in Worker |-> NoNode] /\ k = [w \in Worker |-> 0]
      /\ got = [w \in Worker |-> <<>>] /\ conds = [w \in Worker |-> {}]
      /\ join = [n \in Node \cup {Top} |->
                   IF n = Top THEN Cardinality(Sources(Top)) ELSE StrongDependencies(n)] BY DEF Init
<1>2. NoNode \notin Node /\ Top \notin Node BY DEF Hyps, GraphAssumption
<1>3. /\ scheduled \in [Node -> Nat]
      /\ \A m \in Node : scheduled[m] = IF m \in Sources(Top) THEN 1 ELSE 0 BY <1>1 DEF Once
<1>4. Types
  <2>1. Cardinality(Sources(Top)) \in Int BY SourcesFinite
  <2>2. \A m \in Node : StrongDependencies(m) \in Int BY <1>1, StrongEdges
  <2>3. join \in [Node \cup {Top} -> Int] BY <1>1, <2>1, <2>2
  <2>4. /\ waiters \in [Sem -> Seq(Node)] /\ got \in [Worker -> Seq(Node)]
        /\ conds = [w \in Worker |-> {}] /\ jumped = [n \in Node |-> 0] BY <1>1
  <2>5. /\ wpc \in [Worker -> WorkerPC] /\ k \in [Worker -> Nat]
        /\ node \in [Worker -> Node \cup {NoNode}] /\ cache \in [Worker -> Node \cup {NoNode}]
        /\ ran \in [Node -> {0, 1}] /\ round \in Nat /\ preempted \subseteq Node
    BY <1>1 DEF WorkerPC
  <2> QED BY <1>1, <1>3, <2>3, <2>4, <2>5 DEF Types
<1>5. ASSUME NEW m \in Node, NEW a, NEW b, NEW c, Here(m, a, b, c)
      PROVE  a = "queue" /\ b = 0 /\ c = 1
  <2>1. \A w \in Worker : ~With(w, m) /\ cache[w] # m BY <1>1, <1>2 DEF With
  <2>2. \A w \in Worker : Len(got[w]) = 0 BY <1>1
  <2>3. \A s \in Sem : Len(waiters[s]) = 0 BY <1>1
  <2>4. a = "queue" /\ b = 0 /\ c \in 1 .. scheduled[m] BY <1>5, <2>1, <2>2, <2>3 DEF Here
  <2> QED BY <1>3, <2>4
<1>6. Alones BY <1>5 DEF Alones
<1>7. Workers BY <1>1 DEF Workers, WorkerOK
<1>8. Modules /\ Cancels BY <1>1 DEF Modules, Cancels
<1>9. Works BY <1>1, <1>5 DEF Works
<1> QED BY <1>4, <1>6, <1>7, <1>8, <1>9 DEF Placed

LEMMA FlowInit == ASSUME Hyps, Init PROVE Flow
<1>1. /\ preempted = {} /\ ran = [n \in Node |-> 0] /\ round = 1
      /\ scheduled = Once(Sources(Top))
      /\ join = [n \in Node \cup {Top} |->
                   IF n = Top THEN Cardinality(Sources(Top)) ELSE StrongDependencies(n)] BY DEF Init
<1>2. Placed BY PlacedInit
<1>3. Top \notin Node /\ round <= Rounds BY <1>1 DEF Hyps, GraphAssumption
<1>4. \A m \in Node : m \in Sources(Top) <=> g.parent[m] = Top /\ Predecessors(m) = {}
  BY DEF Sources, Graph
<1>5. ASSUME NEW m \in Node PROVE InFlight(m) <=> m \in Sources(Top)
  <2>1. InFlight(m) <=> Live(m) BY <1>1 DEF InFlight
  <2>2. scheduled[m] = IF m \in Sources(Top) THEN 1 ELSE 0 BY <1>1 DEF Once
  <2>3. m \in Sources(Top) => Here(m, "queue", 0, 1) BY <2>2 DEF Here
  <2>4. ASSUME NEW a, NEW b, NEW c, Here(m, a, b, c) PROVE m \in Sources(Top)
    <3>1. \A w \in Worker : ~With(w, m) /\ cache[w] # m
      BY <1>3 DEF With, Init, Hyps, GraphAssumption
    <3>2. \A w \in Worker : Len(got[w]) = 0 BY DEF Init
    <3>3. \A s \in Sem : Len(waiters[s]) = 0 BY DEF Init
    <3>4. c \in 1 .. scheduled[m] BY <2>4, <3>1, <3>2, <3>3 DEF Here
    <3> QED BY <2>2, <3>4
  <2> QED BY <2>1, <2>3, <2>4 DEF Live
<1>6. ASSUME NEW m \in Node
      PROVE  /\ StrongDependencies(m) = Cardinality(Left(m))
                                      + (IF WasReset(m) THEN StrongDependencies(m) ELSE 0)
             /\ m \in Sources(g.parent[m]) <=> Left(m) = {}
             /\ Active(g.parent[m]) <=> g.parent[m] = Top
             /\ Entered(m) <=> g.parent[m] = Top
  <2>1. \A x \in Node : ran[x] = 0 BY <1>1
  <2>2. /\ StrongDependencies(m) = Cardinality(Left(m))
                                 + (IF WasReset(m) THEN StrongDependencies(m) ELSE 0)
        /\ m \in Sources(g.parent[m]) <=> Left(m) = {} BY <1>2, <2>1, Untouched DEF Placed
  <2> QED BY <1>1, <2>2 DEF Active, Entered
<1>7. Flights BY <1>3, <1>4, <1>5, <1>6 DEF Flights
<1>8. Rans BY <1>1 DEF Rans
<1>9. Befores BY <1>1, <1>4, <1>5, <1>6 DEF Befores
<1>10. Counted
  <2>1. Flying(Top) = Sources(Top) BY <1>4, <1>5 DEF Flying, Graph, Sources
  <2> QED BY <1>1, <2>1 DEF Counted
<1>11. Joins
  <2> SUFFICES ASSUME NEW m \in Node PROVE join[m] = StrongDependencies(m) BY <1>6 DEF Joins
  <2> QED BY <1>1, <1>3
<1>12. Skips BY <1>4, <1>5, <1>6 DEF Skips
<1> QED BY <1>7, <1>8, <1>9, <1>10, <1>11, <1>12 DEF Flow

LEMMA FlowStutter == ASSUME Hyps, Placed, Flow, UNCHANGED vars PROVE Placed' /\ Flow'
<1>1. UNCHANGED <<g, join, cancelled, preempted, scheduled, waiters, ran, round, jumped,
                  wpc, node, cache, k, got, conds>> BY DEF vars, semVars, historyVars, workerVars
<1>2. SameHere /\ \A v \in Worker, m \in Node : With(v, m)' <=> With(v, m)
  BY <1>1 DEF SameHere, Here, With
<1>3. Alones' BY <1>2, NoneMoves DEF Placed, SameHere
<1>4. Works' /\ Modules'
  <2>1. Works' BY <1>1, <1>2 DEF Placed, Works, SameHere
  <2>2. Modules' BY <1>1, <1>2 DEF Placed, Modules, SameHere, Types
  <2> QED BY <2>1, <2>2
<1>5. Types' /\ Workers' /\ Cancels' BY <1>1 DEF Placed, Types, Workers, WorkerOK, Cancels
<1>6. SameCounts BY <1>1, <1>2 DEF SameCounts, WasReset, CountedOff
<1>7. Quiet BY <1>1, <1>2, <1>6, FlightKept DEF Quiet, Keeps
<1> QED BY <1>3, <1>4, <1>5, <1>7, QuietFlow DEF Placed

\* A topology keeps its graph.
LEMMA GraphKept == ASSUME Next PROVE UNCHANGED g
<1>1. CASE CancelTopology BY <1>1 DEF CancelTopology
<1>2. ASSUME NEW w \in Worker, WorkerStep(w) PROVE UNCHANGED g
  <2>1. CASE (\E n \in Node : Take(w, n)) \/ Begin(w) \/ Acquire(w) \/ Rollback(w) \/ Requeue(w)
    BY <2>1 DEF Take, Begin, Acquire, Rollback, Requeue
  <2>2. CASE Throw(w) \/ RunStatic(w) \/ RunCondition(w) \/ EnterModule(w) \/ ResumeModule(w)
    BY <2>2 DEF Throw, RunStatic, RunCondition, EnterModule, ResumeModule
  <2>3. CASE Raise(w) \/ Store(w) \/ Release(w) \/ Wake(w) \/ Reset(w) \/ CountOff(w) \/ Jump(w)
    BY <2>3 DEF Raise, Store, Release, Wake, Reset, CountOff, Jump
  <2>4. CASE LeaveModule(w) \/ LeaveTopology(w) \/ FinishRound(w)
    BY <2>4 DEF LeaveModule, LeaveTopology, FinishRound
  <2> QED BY <1>2, <2>1, <2>2, <2>3, <2>4 DEF WorkerStep
<1> QED BY <1>1, <1>2 DEF Next

-----------------------------------------------------------------------------
(* Exceptions *)

LEMMA ThrownInit == ASSUME Init PROVE Thrown
BY DEF Init, Thrown

\* A step of a worker that neither throws nor handles what was thrown.
LEMMA ThrownKept ==
    ASSUME Thrown, wpc \in [Worker -> WorkerPC], UNCHANGED <<raised, stored, threw>>,
           NEW w \in Worker, NEW l, wpc' = [wpc EXCEPT ![w] = l],
           wpc[w] \notin {"raise", "store"}, l \notin {"raise", "store"}
    PROVE  Thrown'
<1>1. \A v \in Worker : wpc'[v] = IF v = w THEN l ELSE wpc[v] OBVIOUS
<1>2. \A v \in Worker : (wpc'[v] = "raise" <=> wpc[v] = "raise") /\ (wpc'[v] = "store" <=> wpc[v] = "store")
  BY <1>1
<1> QED BY <1>2 DEF Thrown

LEMMA ThrownMoves ==
    ASSUME Thrown, UNCHANGED <<raised, stored, threw>>, NEW w \in Worker,
           \A v \in Worker \ {w} : wpc'[v] = wpc[v],
           wpc[w] \notin {"raise", "store"}, wpc'[w] \notin {"raise", "store"}
    PROVE  Thrown'
BY DEF Thrown

LEMMA ThrownSame ==
    ASSUME Thrown, UNCHANGED <<raised, stored, threw, wpc>> PROVE Thrown'
BY DEF Thrown

LEMMA ThrownNext == ASSUME wpc \in [Worker -> WorkerPC], Thrown, Next PROVE Thrown'
<1>1. CASE CancelTopology BY <1>1, ThrownSame DEF CancelTopology, faultVars
<1>2. ASSUME NEW w \in Worker, WorkerStep(w) PROVE Thrown'
  <2>1. CASE \E n \in Node : Take(w, n)
    <3>1. /\ UNCHANGED <<raised, stored, threw>>
          /\ wpc[w] = "idle" /\ wpc'[w] = "begin"
          /\ \A v \in Worker \ {w} : wpc'[v] = wpc[v] BY <2>1 DEF Take, Goto, faultVars
    <3> QED BY <3>1, ThrownMoves
  <2>2. CASE Begin(w)
    <3>1. /\ UNCHANGED <<raised, stored, threw>> /\ wpc[w] = "begin"
          /\ wpc'[w] \in {"run", "tearDown", "acquire"}
          /\ \A v \in Worker \ {w} : wpc'[v] = wpc[v] BY <2>2 DEF Begin, Goto, faultVars
    <3> QED BY <3>1, ThrownMoves
  <2>3. CASE Acquire(w) BY <2>3, ThrownKept, ThrownSame DEF Acquire, Goto, faultVars
  <2>4. CASE Rollback(w)
    <3>1. /\ UNCHANGED <<raised, stored, threw>> /\ wpc[w] = "rollback"
          /\ wpc'[w] \in {"rollback", "requeue"}
          /\ \A v \in Worker \ {w} : wpc'[v] = wpc[v] BY <2>4 DEF Rollback, Goto, faultVars
    <3> QED BY <3>1, ThrownMoves
  <2>5. CASE Requeue(w)
    <3>1. /\ UNCHANGED <<raised, stored, threw>> /\ wpc[w] = "requeue" /\ wpc'[w] = "idle"
          /\ \A v \in Worker \ {w} : wpc'[v] = wpc[v] BY <2>5 DEF Requeue, Continue, Goto, faultVars
    <3> QED BY <3>1, ThrownMoves
  <2>6. CASE Throw(w)
    <3>1. /\ threw' = TRUE /\ UNCHANGED <<raised, stored>> /\ wpc[w] = "run"
          /\ wpc' = [wpc EXCEPT ![w] = "raise"] BY <2>6 DEF Throw, Goto
    <3>2. \A v \in Worker : wpc'[v] = IF v = w THEN "raise" ELSE wpc[v] BY <3>1
    <3> QED BY <3>1, <3>2 DEF Thrown
  <2>7. CASE RunStatic(w) \/ RunCondition(w) \/ ResumeModule(w)
    <3>1. /\ UNCHANGED <<raised, stored, threw>> /\ wpc[w] = "run"
          /\ wpc'[w] = AfterWork(node[w])
          /\ \A v \in Worker \ {w} : wpc'[v] = wpc[v]
      BY <2>7 DEF RunStatic, RunCondition, ResumeModule, Goto, faultVars
    <3>2. AfterWork(node[w]) \notin {"raise", "store"} BY DEF AfterWork
    <3> QED BY <3>1, <3>2, ThrownMoves
  <2>8. CASE EnterModule(w)
    <3>1. /\ UNCHANGED <<raised, stored, threw>> /\ wpc[w] = "run" /\ wpc'[w] = "idle"
          /\ \A v \in Worker \ {w} : wpc'[v] = wpc[v]
      BY <2>8 DEF EnterModule, Continue, Goto, faultVars
    <3> QED BY <3>1, ThrownMoves
  <2>9. CASE Raise(w)
    <3>1. /\ raised' /\ UNCHANGED <<threw, stored>> /\ wpc[w] = "raise"
          /\ wpc' = [wpc EXCEPT ![w] = IF raised THEN AfterWork(node[w]) ELSE "store"]
      BY <2>9 DEF Raise, Goto
    <3>2. \A v \in Worker : wpc'[v] = IF v # w THEN wpc[v]
                                     ELSE IF raised THEN AfterWork(node[w]) ELSE "store" BY <3>1
    <3>3. AfterWork(node[w]) \notin {"raise", "store"} BY DEF AfterWork
    <3>4. \A v \in Worker : wpc[v] = "store" => wpc'[v] = "store" BY <3>1, <3>2
    <3> QED BY <3>1, <3>2, <3>3, <3>4 DEF Thrown
  <2>10. CASE Store(w)
    <3>1. /\ stored' /\ UNCHANGED <<threw, raised>> /\ wpc[w] = "store"
          /\ wpc' = [wpc EXCEPT ![w] = AfterWork(node[w])] BY <2>10 DEF Store, Goto
    <3>2. \A v \in Worker : wpc'[v] = IF v # w THEN wpc[v] ELSE AfterWork(node[w]) BY <3>1
    <3>3. AfterWork(node[w]) \notin {"raise", "store"} BY DEF AfterWork
    <3> QED BY <3>1, <3>2, <3>3 DEF Thrown
  <2>11. CASE Release(w) BY <2>11, ThrownKept DEF Release, Goto, faultVars
  <2>12. CASE Wake(w) \/ Reset(w) BY <2>12, ThrownKept DEF Wake, Reset, Goto, faultVars
  <2>13. CASE CountOff(w) \/ Jump(w) BY <2>13, ThrownSame DEF CountOff, Jump, faultVars
  <2>14. CASE LeaveModule(w)
    BY <2>14, ThrownKept DEF LeaveModule, SuccessorsDone, Continue, Goto, faultVars
  <2>15. CASE LeaveTopology(w) \/ FinishRound(w)
    BY <2>15, ThrownKept DEF LeaveTopology, FinishRound, SuccessorsDone, Continue, Goto, faultVars
  <2> QED BY <1>2, <2>1, <2>2, <2>3, <2>4, <2>5, <2>6, <2>7, <2>8, <2>9, <2>10, <2>11, <2>12,
       <2>13, <2>14, <2>15 DEF WorkerStep
<1> QED BY <1>1, <1>2 DEF Next

-----------------------------------------------------------------------------
(* What follows from the invariant. *)

\* The smallest of zeros and ones.
LEMMA SmallestBit ==
    ASSUME NEW S \in SUBSET {0, 1}, S # {}
    PROVE  /\ Min(S) \in {0, 1} /\ (Min(S) = 0 <=> 0 \in S)
<1>1. \E x \in S : \A y \in S : x =< y
  <2>1. CASE 0 \in S
    <3>1. \A y \in S : 0 =< y OBVIOUS
    <3> QED BY <2>1, <3>1
  <2>2. CASE 0 \notin S
    <3>1. PICK x \in S : TRUE OBVIOUS
    <3>2. \A y \in S : y = 1 BY <2>2
    <3> QED BY <3>1, <3>2
  <2> QED BY <2>1, <2>2
<1> DEFINE low == CHOOSE x \in S : \A y \in S : x =< y
<1>2. low \in S /\ \A y \in S : low =< y
  <2> HIDE DEF low
  <2>1. low = CHOOSE x \in S : \A y \in S : x =< y BY DEF low
  <2> QED BY <1>1, <2>1
<1>3. Min(S) = low BY DEF Min
<1> HIDE DEF low
<1> QED BY <1>2, <1>3

\* A task may run when its graph has been entered and all its predecessors ran.
LEMMA DueIs ==
    ASSUME Hyps, Placed, Flow, NEW n \in Node, g.parent[n] # NoNode
    PROVE  Due(n) = IF Entered(n) /\ \A p \in Predecessors(n) : ran[p] = 1 THEN 1 ELSE 0
<1> DEFINE entered == IF g.parent[n] = Top THEN 1
                      ELSE ran[g.parent[n]] + (IF g.parent[n] \in preempted THEN 1 ELSE 0)
           bits == {ran[p] : p \in Predecessors(n)}
<1>1. /\ jumped[n] = 0 /\ ran \in [Node -> {0, 1}] /\ preempted \subseteq Node
      /\ g.parent[n] \in Node \cup {Top} /\ Top \notin Node
      /\ {p \in Predecessors(n) : ~IsConditioner(p)} = Predecessors(n)
  BY Graphs DEF Placed, Types, Hyps, GraphAssumption, Predecessors
<1>2. Due(n) = IF Predecessors(n) = {} THEN entered ELSE Min(bits)
  <2>1. bits # {} /\ bits \in SUBSET {0, 1} => Min(bits) \in {0, 1} BY SmallestBit
  <2>2. bits \in SUBSET {0, 1} /\ (bits # {} <=> Predecessors(n) # {}) BY <1>1 DEF Predecessors
  <2>3. entered \in Int BY <1>1
  <2>4. Due(n) = 0 + IF Predecessors(n) = {} THEN entered ELSE Min(bits)
    <3> DEFINE strong == {p \in Predecessors(n) : ~IsConditioner(p)}
    <3>1. Due(n) = jumped[n] + IF Predecessors(n) = {} THEN entered
                              ELSE IF strong = {} THEN 0 ELSE Min({ran[p] : p \in strong})
      BY DEF Due
    <3>2. strong = Predecessors(n) BY <1>1
    <3>3. {ran[p] : p \in strong} = bits BY <3>2
    <3> HIDE DEF strong, entered, bits
    <3> QED BY <1>1, <3>1, <3>2, <3>3
  <2> HIDE DEF entered, bits
  <2>5. CASE Predecessors(n) = {} BY <2>3, <2>4, <2>5
  <2>6. CASE Predecessors(n) # {}
    <3>1. Min(bits) \in {0, 1} BY <2>1, <2>2, <2>6
    <3> QED BY <2>4, <2>6, <3>1
  <2> QED BY <2>5, <2>6
<1>3. entered = IF Entered(n) THEN 1 ELSE 0
  <2>1. CASE g.parent[n] = Top BY <2>1 DEF Entered, Active
  <2>2. CASE g.parent[n] # Top /\ g.parent[n] \in preempted
    <3>1. ran[g.parent[n]] = 0 BY <2>2 DEF Placed, Modules
    <3> QED BY <2>2, <3>1 DEF Entered, Active
  <2>3. CASE g.parent[n] # Top /\ g.parent[n] \notin preempted
    <3>1. ran[g.parent[n]] \in {0, 1} /\ g.parent[n] \in Node BY <1>1, <2>3
    <3> QED BY <2>3, <3>1 DEF Entered, Active
  <2> QED BY <2>1, <2>2, <2>3
<1>4. CASE Predecessors(n) = {} BY <1>2, <1>3, <1>4
<1>5. CASE Predecessors(n) # {}
  <2>1. bits \in SUBSET {0, 1} /\ bits # {} BY <1>1, <1>5 DEF Predecessors
  <2>2. Min(bits) = IF \A p \in Predecessors(n) : ran[p] = 1 THEN 1 ELSE 0
    <3>1. 0 \in bits <=> ~\A p \in Predecessors(n) : ran[p] = 1 BY <1>1 DEF Predecessors
    <3>2. Min(bits) \in {0, 1} /\ (Min(bits) = 0 <=> 0 \in bits)
      <4> HIDE DEF bits
      <4> QED BY <2>1, SmallestBit
    <3> QED BY <3>1, <3>2
  <2>3. ASSUME \A p \in Predecessors(n) : ran[p] = 1 PROVE Entered(n)
    <3>1. PICK p \in Predecessors(n) : TRUE BY <1>5
    <3>2. Entered(p) /\ p \in Node BY <2>3 DEF Flow, Rans, Predecessors
    <3>3. g.parent[p] = g.parent[n] BY Graphs DEF Placed, Predecessors, Edges
    <3> QED BY <3>2, <3>3 DEF Entered
  <2> QED BY <1>2, <1>5, <2>2, <2>3
<1> QED BY <1>4, <1>5

LEMMA LeftIs ==
    ASSUME Hyps, Placed, NEW n \in Node
    PROVE  /\ Left(n) = {} => \A p \in Predecessors(n) : ran[p] = 1
           /\ (\A p \in Predecessors(n) : ran[p] = 1 /\ ~InFlight(p)) => Left(n) = {}
<1>1. ASSUME Left(n) = {}, NEW p \in Predecessors(n) PROVE ran[p] = 1
  <2>1. PICK i \in Edges(p, n) : TRUE BY DEF Predecessors
  <2>2. <<p, i>> \in In(n) BY DEF In
  <2>3. CountedOff(p, i) BY <1>1, <2>2 DEF Left
  <2> QED BY <2>3 DEF CountedOff
<1>2. ASSUME \A p \in Predecessors(n) : ran[p] = 1 /\ ~InFlight(p), NEW e \in In(n)
      PROVE  CountedOff(e[1], e[2])
  <2>1. ran[e[1]] = 1 /\ ~InFlight(e[1]) BY <1>2, Strong DEF Placed
  <2>2. \A w \in Worker : ~With(w, e[1]) BY <2>1 DEF InFlight, Live, Here
  <2> QED BY <2>1, <2>2 DEF CountedOff
<1> QED BY <1>1, <1>2 DEF Left

LEMMA OrderFollows == ASSUME Hyps, Placed, Flow PROVE RunsAfterPredecessors
<1> SUFFICES ASSUME NEW n \in Node, g.parent[n] # NoNode PROVE ran[n] <= Due(n)
  BY DEF RunsAfterPredecessors
<1>1. ran[n] \in {0, 1} BY DEF Placed, Types
<1>2. CASE ran[n] = 1
  <2>1. Entered(n) /\ Left(n) = {} BY <1>2 DEF Flow, Rans, Befores
  <2>2. Due(n) = 1 BY <2>1, DueIs, LeftIs
  <2> QED BY <1>2, <2>2
<1>3. CASE ran[n] = 0
  <2>1. Due(n) \in {0, 1} BY DueIs
  <2> QED BY <1>3, <2>1
<1> QED BY <1>1, <1>2, <1>3

\* Nothing is in flight when the topology is finished.
LEMMA Landed == ASSUME Hyps, Placed, Flow, Finished, NEW n \in Node PROVE ~InFlight(n)
<1>1. round \in Nat /\ Rounds \in Nat /\ round > Rounds
  BY DEF Finished, Placed, Types, Hyps, GraphAssumption
<1> QED BY <1>1 DEF Flow, Flights

LEMMA NothingSkippedFollows == ASSUME Hyps, Placed, Flow PROVE NothingSkipped
<1> SUFFICES ASSUME Finished, Top \notin cancelled, NEW n \in Node, g.parent[n] # NoNode
             PROVE  ran[n] = Due(n) BY DEF NothingSkipped
<1>1. ran[n] \in {0, 1} /\ ran[n] <= Due(n) BY OrderFollows DEF RunsAfterPredecessors, Placed, Types
<1>2. Due(n) = IF Entered(n) /\ \A p \in Predecessors(n) : ran[p] = 1 THEN 1 ELSE 0 BY DueIs
<1>3. ASSUME Entered(n), \A p \in Predecessors(n) : ran[p] = 1 PROVE ran[n] = 1
  <2>1. \A p \in Predecessors(n) : ~InFlight(p) BY Landed DEF Predecessors
  <2>2. Left(n) = {} /\ ~InFlight(n) BY <1>3, <2>1, LeftIs, Landed
  <2> QED BY <1>3, <2>2 DEF Flow, Skips
<1> QED BY <1>1, <1>2, <1>3

LEMMA ExceptionFollows == ASSUME Hyps, Placed, Flow, Thrown PROVE ExceptionKept
<1> SUFFICES ASSUME Finished PROVE stored <=> threw BY DEF ExceptionKept
<1>1. \A w \in Worker : wpc[w] \notin {"raise", "store"}
  <2> SUFFICES ASSUME NEW w \in Worker, wpc[w] \in {"raise", "store"} PROVE FALSE OBVIOUS
  <2>1. node[w] \in Node /\ Here(node[w], "worker", w, 0) BY AtWork DEF Away
  <2>2. InFlight(node[w]) BY <2>1 DEF InFlight, Live
  <2> QED BY <2>1, <2>2, Landed
<1> QED BY <1>1 DEF Thrown

-----------------------------------------------------------------------------
(* The theorems. *)

PlainInv == Plain(g) => Placed /\ Flow /\ Thrown

LEMMA PlainInvHolds == Spec => []PlainInv
<1>1. Init => PlainInv BY GraphAssumption, PlacedInit, FlowInit, ThrownInit DEF PlainInv, Hyps
<1>2. PlainInv /\ [Next]_vars => PlainInv'
  <2> SUFFICES ASSUME PlainInv, [Next]_vars, Plain(g)' PROVE Placed' /\ Flow' /\ Thrown'
    BY DEF PlainInv
  <2>1. UNCHANGED g BY GraphKept DEF vars
  <2>2. Hyps /\ Placed /\ Flow /\ Thrown BY <2>1, GraphAssumption DEF PlainInv, Hyps, Plain
  <2>3. CASE Next
    <3>1. Placed' /\ StepKind BY <2>2, <2>3, StepKinds
    <3>2. Flow' BY <2>2, <3>1, StepFlow
    <3>3. Thrown' BY <2>2, <2>3, ThrownNext DEF Placed, Types
    <3> QED BY <3>1, <3>2, <3>3
  <2>4. CASE UNCHANGED vars
    <3>1. Thrown' BY <2>2, <2>4, ThrownSame DEF vars, faultVars
    <3> QED BY <2>2, <2>4, <3>1, FlowStutter
  <2> QED BY <2>3, <2>4
<1> QED BY <1>1, <1>2, PTL DEF Spec

\* In a graph without conditions a task runs at most once in a round, and only after
\* every task with an edge to it (the join counters of _invoke), whatever the graph,
\* the modules in it, the semaphores, the exceptions and the workers.
THEOREM RunsAfterPredecessorsAlways == Spec => [](Plain(g) => RunsAfterPredecessors)
<1>1. PlainInv => (Plain(g) => RunsAfterPredecessors)
  BY OrderFollows, GraphAssumption DEF PlainInv, Hyps
<1> QED BY <1>1, PlainInvHolds, PTL

\* Such a graph, run to its end without being cancelled, has left out no task whose
\* predecessors ran, in the topology or in a module that did (_tear_down_nonasync).
THEOREM NothingSkippedAlways == Spec => [](Plain(g) => NothingSkipped)
<1>1. PlainInv => (Plain(g) => NothingSkipped)
  BY NothingSkippedFollows, GraphAssumption DEF PlainInv, Hyps
<1> QED BY <1>1, PlainInvHolds, PTL

\* An exception is in the topology when it is finished, however many tasks threw at
\* once (_process_exception).
THEOREM ExceptionKeptAlways == Spec => [](Plain(g) => ExceptionKept)
<1>1. PlainInv => (Plain(g) => ExceptionKept)
  BY ExceptionFollows, GraphAssumption DEF PlainInv, Hyps
<1> QED BY <1>1, PlainInvHolds, PTL

\* A task is at one place of the queues, the workers and the semaphores, so that no
\* two workers ever have it; and the counter of a topology, or of a module whose graph
\* runs, is the number of tasks in flight in its graph: who counts it down to zero is
\* the last (_root_join_counter).
THEOREM OnePlaceAlways == Spec => [](Plain(g) => Alones /\ Counted)
<1>1. PlainInv => (Plain(g) => Alones /\ Counted) BY DEF PlainInv, Placed, Flow
<1> QED BY <1>1, PlainInvHolds, PTL
=============================================================================
