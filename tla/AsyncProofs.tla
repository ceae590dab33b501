---------------------------- MODULE AsyncProofs -----------------------------
(***************************************************************************)
(* Tasks that spawn tasks: the small instances of DependentAsync, Runtime  *)
(* and Subflow for TLC, where the initial state chooses which of the three *)
(* makes steps and the variables of the others stay <<>>, and the proofs.  *)
(*                                                                         *)
(* Dependent-async tasks (core/async.h), for any number of clients,        *)
(* handles, workers and tasks: join counters are exact, a task is          *)
(* scheduled once and after all tasks that it depends on, and the shared   *)
(* ownership of a node by handles and executor is exact.                   *)
(* A predecessor of a task is in the list of handles that the creator has  *)
(* still to go through, or in the edges of a node that was not torn down   *)
(* that far, or finished; and the join counter counts the first two.       *)
(* Hence it is zero only when all are finished, one thread alone takes it  *)
(* there, and that thread schedules the task.                              *)
(* Runtime tasks, for any number of workers and tasks: a task is queued,   *)
(* or at one place of one worker's stack of invocations, or has been left  *)
(* before its children; its join counter is the number of them, and one    *)
(* more while its first invocation lasts; and a future is answered.        *)
(* What is proved of Subflow, in SubflowProofs, is taken over to the       *)
(* specification of the run at the end.                                    *)
(***************************************************************************)
EXTENDS DependentAsync, FiniteSetTheorems, TLC, TLAPS

CONSTANTS
    RootKinds, ChildKinds, MaxCoruns,       \* Runtime
    MaxRounds, MaxJoins                     \* Subflow

VARIABLES
    part,
    topology, stack, reported,                                          \* of two parts
    kind, parent, preempted, estate, eptr, promise, coruns, thrown,     \* of Runtime
    round, threw                                                        \* of Subflow

Run == INSTANCE Runtime
Sub == INSTANCE SubflowProofs

ASSUME MCAssumption == AsyncAssumption /\ Run!RuntimeAssumption /\ Sub!SubflowAssumption

depOnly == <<handle, astate, uses, edges, walked, pred, ran, topologies, cpc, made, todo, link,
             npred, wpc, cache>>
runOnly == <<kind, parent, preempted, estate, eptr, promise, coruns, thrown>>
subOnly == <<round, threw>>
mcVars == <<part, join, scheduled, recycled, node, topology, stack, reported,
            depOnly, runOnly, subOnly>>

DepOff == /\ handle = <<>> /\ astate = <<>> /\ uses = <<>> /\ edges = <<>> /\ walked = <<>>
          /\ pred = <<>> /\ ran = <<>> /\ topologies = <<>> /\ cpc = <<>> /\ made = <<>>
          /\ todo = <<>> /\ link = <<>> /\ npred = <<>> /\ wpc = <<>> /\ cache = <<>>
RunOff == /\ kind = <<>> /\ parent = <<>> /\ preempted = <<>> /\ estate = <<>> /\ eptr = <<>>
          /\ promise = <<>> /\ coruns = <<>> /\ thrown = <<>>
SubOff == round = <<>> /\ threw = <<>>

MCInit ==
    \/ /\ part = "dependent" /\ Init /\ RunOff /\ SubOff
       /\ topology = <<>> /\ stack = <<>> /\ reported = <<>>
    \/ /\ part = "runtime" /\ Run!Init /\ DepOff /\ SubOff
       /\ node = <<>>
    \/ /\ part = "subflow" /\ Sub!Init /\ DepOff /\ RunOff
       /\ join = <<>> /\ recycled = <<>>

MCNext ==
    \/ part = "dependent" /\ Next /\ UNCHANGED <<part, topology, stack, reported, runOnly, subOnly>>
    \/ part = "runtime" /\ Run!Next /\ UNCHANGED <<part, node, depOnly, subOnly>>
    \/ part = "subflow" /\ Sub!Next /\ UNCHANGED <<part, join, recycled, depOnly, runOnly>>

MCSpec == MCInit /\ [][MCNext]_mcVars

Symmetry == Permutations(Client) \cup Permutations(Handle) \cup Permutations(Worker)
-----------------------------------------------------------------------------
\* Counters are exact, a task is in one place, and nobody holds a node that is gone:
\* of dependent tasks, of runtime tasks with their children, and of subflows with
\* their graphs and anchors (_tear_down_dependent_async, _tear_down_async,
\* _tear_down_nonasync).
NodesConsistent ==
    CASE part = "dependent" -> Consistent
      [] part = "runtime" -> Run!Consistent
      [] part = "subflow" -> Sub!Consistent

\* A dependent task is taken up only when all tasks it was created to depend on have
\* finished, although they finish while it is linked to them (dependent_async).
DependentOrder == part = "dependent" => RunsAfterPredecessors

\* The shared ownership of a node by handles and executor is exact: nobody reaches a
\* recycled node, and nobody keeps one without an owner (AsyncTask).
DependentOwnership == part = "dependent" => Ownership

\* The graph of a subflow is run once and as a whole, although a join that failed
\* leaves it joinable and it is scheduled again (join, _invoke_subflow_task).
JoinsOnce == part = "subflow" => Sub!JoinsOnce

\* A run that failed does not look like one that did not: its future, or a caller of
\* a join, a corun or a child's future gets an exception (_process_exception).
FailureReported ==
    /\ part = "runtime" => Run!FailureReported
    /\ part = "subflow" => Sub!FailureReported

\* A future that a client holds is answered when its task is over: the task is
\* entered again for it, however it and its children end (_invoke_async_task).
FuturesAnswered == part = "runtime" => Run!FuturesAnswered

\* When no thread of the library can go on, everything that was created has run and
\* every call has returned, although workers wait on top of each other's tasks in
\* join and corun, and for locks of nodes in dependent_async.
NothingStuck ==
    CASE part = "dependent" -> NothingForgotten
      [] part = "runtime" -> Run!NothingStuck
      [] part = "subflow" -> Sub!NothingStuck

-----------------------------------------------------------------------------
(* The inductive invariant *)

\* What a client's place in dependent_async says.  A task has one creator, and a
\* locked node one client that links to it.
ClientOK(c) ==
    /\ cpc[c] = "idle" => made[c] = NoTask /\ todo[c] = {}
    /\ cpc[c] # "idle" => made[c] \in Created
    /\ cpc[c] = "return" => todo[c] = {}
    /\ cpc[c] = "link" => /\ link[c] \in todo[c] /\ handle[link[c]] \in Task
                          /\ astate[handle[link[c]]] = "locked"
    /\ \A d \in Client \ {c} :
          /\ made[c] \in Task => made[d] # made[c]
          /\ cpc[c] = "link" /\ cpc[d] = "link" => handle[link[c]] # handle[link[d]]

Dead(w) == wpc[w] \in {"walk", "count", "release"}

\* What a worker's place in _invoke and the tear-down says of its node.
WorkerOK(w) ==
    /\ wpc[w] = "idle" => node[w] = NoTask
    /\ wpc[w] # "idle" => node[w] \in Created
    /\ wpc[w] \in {"idle", "work", "finish"} => cache[w] = NoTask
    /\ cache[w] \in Created \cup {NoTask}
    /\ wpc[w] = "work" => node[w] \notin ran
    /\ wpc[w] = "finish" \/ Dead(w) => node[w] \in ran
    /\ node[w] \in Task => (Dead(w) <=> astate[node[w]] = "finished")

Clients == \A c \in Client : ClientOK(c)
Workers == \A w \in Worker : WorkerOK(w)

\* A task is nowhere before it is created, in one place until it has run, and
\* finished only after that.
Nowhere(t) == /\ join[t] = 0 /\ pred[t] = {} /\ scheduled[t] = 0 /\ t \notin ran
              /\ \A h \in Handle : handle[h] # t

OneHolder(t) == \A v, w \in Worker : /\ node[v] = t /\ node[w] = t => v = w
                                     /\ cache[v] = t /\ cache[w] = t => v = w
                                     /\ node[v] = t => cache[w] # t

NodeOK(t) ==
    /\ astate[t] = "none" => Nowhere(t)
    /\ astate[t] = "finished" => t \in ran
    /\ walked[t] <= Len(edges[t])
    /\ t \in ran => scheduled[t] = 0 /\ \A w \in Worker : cache[w] # t
    /\ \/ scheduled[t] = 0
       \/ scheduled[t] = 1 /\ \A w \in Worker : node[w] # t /\ cache[w] # t
    /\ OneHolder(t)

Nodes == \A t \in Task : NodeOK(t)

\* The join counter is exact, and what it counts can be counted.
Joins == \A t \in Task : IsFiniteSet(Pending(t)) /\ join[t] = Cardinality(Unprocessed(t)) + Cardinality(Pending(t))

\* The creator is the one that has counted off the last predecessor.
Claimed(t) == \E c \in Client : made[c] = t /\ cpc[c] \in {"process", "link"} /\ npred[c] = 0

\* Only a task that waits for nothing is taken up, by its creator or by a worker.
ReadyOK(t) == /\ TakenUp(t) \/ Claimed(t) => join[t] = 0
              /\ Claimed(t) => ~TakenUp(t)
Ready == \A t \in Task : ReadyOK(t)

\* A predecessor is finished or is still counted.
Settled(t, p) ==
    \/ astate[p] = "finished"
    \/ \E h \in Unprocessed(t) : handle[h] = p
    \/ \E i \in Nat : <<p, i>> \in Pending(t)
Preds == \A t \in Task : \A p \in pred[t] : p \in Created /\ Settled(t, p)

\* The owners of a node: handles, the handle that dependent_async is about to
\* return, and the executor until the node's tear-down.
Alive(t) == astate[t] \in {"unfinished", "locked"} \/ \E w \in Worker : node[w] = t
Holding(t) == {h \in Handle : handle[h] = t}
Returning(t) == \E c \in Client : made[c] = t
Owning(P) == IF P THEN 1 ELSE 0

OwnersOK(t) ==
    /\ uses[t] = Cardinality(Holding(t)) + Owning(Returning(t)) + Owning(Alive(t))
    /\ t \in recycled <=> t \in Created /\ uses[t] = 0
Owners == \A t \in Task : OwnersOK(t)

\* The tasks that _num_topologies counts.
Open(t) == \/ astate[t] \in {"unfinished", "locked"}
           \/ \E w \in Worker : node[w] = t /\ wpc[w] \in {"walk", "count"}
Counts == topologies = Cardinality({t \in Task : Open(t)})

IInv ==
    /\ AsyncAssumption
    /\ TypeOK /\ Clients /\ Workers /\ Nodes /\ Joins /\ Ready /\ Preds /\ Owners /\ Counts

----------------------------------------------------------------------------
(* Counters and what they count *)

\* NoTask is no task, and sets of tasks or of handles are finite.
LEMMA Sets ==
    ASSUME AsyncAssumption
    PROVE  /\ NoTask \notin Task /\ IsFiniteSet(Task) /\ IsFiniteSet(Handle)
           /\ \A S \in SUBSET Task : IsFiniteSet(S) /\ Cardinality(S) \in Nat
           /\ \A S \in SUBSET Handle : IsFiniteSet(S) /\ Cardinality(S) \in Nat
BY FS_Subset, FS_CardinalityType DEF AsyncAssumption

\* A finite set with one more or one less element.
LEMMA OneMore ==
    ASSUME NEW S, IsFiniteSet(S), NEW x, x \notin S
    PROVE  IsFiniteSet(S \cup {x}) /\ Cardinality(S \cup {x}) = Cardinality(S) + 1
BY FS_AddElement

\* A finite set with one element less.
LEMMA OneLess ==
    ASSUME NEW S, IsFiniteSet(S), NEW x \in S
    PROVE  /\ IsFiniteSet(S \ {x}) /\ Cardinality(S \ {x}) = Cardinality(S) - 1
           /\ Cardinality(S) \in Nat \ {0}
<1>1. IsFiniteSet(S \ {x}) /\ Cardinality(S \ {x}) = Cardinality(S) - 1 BY FS_RemoveElement
<1>2. Cardinality(S) \in Nat /\ Cardinality(S) # 0 BY FS_CardinalityType, FS_EmptySet
<1> QED BY <1>1, <1>2

\* A set with a member is counted by more than zero.
LEMMA NotNone ==
    ASSUME NEW S, IsFiniteSet(S)
    PROVE  Cardinality(S) \in Nat /\ (Cardinality(S) = 0 <=> S = {})
BY FS_CardinalityType, FS_EmptySet

\* The handles to go through of a task that is being created are its creator's.
LEMMA TodoOf ==
    ASSUME TypeOK, Clients, NEW c \in Client, made[c] \in Task
    PROVE  Unprocessed(made[c]) = todo[c]
<1>1. \A d \in Client : made[d] = made[c] => d = c BY DEF Clients, ClientOK
<1>2. todo[c] \in SUBSET Handle BY DEF TypeOK
<1> QED BY <1>1, <1>2 DEF Unprocessed

\* The places in the edges that still are to be counted off.
LEMMA PendingIs ==
    ASSUME NEW t, NEW e
    PROVE  e \in Pending(t) <=> \E p \in Task : \E i \in walked[p] + 1 .. Len(edges[p]) :
                                   e = <<p, i>> /\ edges[p][i] = t
BY DEF Pending

\* The same after a step.
LEMMA PendingIsNext ==
    ASSUME NEW t, NEW e
    PROVE  e \in Pending(t)' <=> \E p \in Task : \E i \in walked'[p] + 1 .. Len(edges'[p]) :
                                    e = <<p, i>> /\ edges'[p][i] = t
BY DEF Pending

\* Whether a place in the edges of a node is still to be counted off.
LEMMA PendingAt ==
    ASSUME TypeOK, NEW t, NEW p \in Task, NEW i
    PROVE  <<p, i>> \in Pending(t) <=> i \in walked[p] + 1 .. Len(edges[p]) /\ edges[p][i] = t
BY PendingIs

\* A task that waits for nothing is in no creator's list and in no edges.
LEMMA NothingLeft ==
    ASSUME IInv, NEW t \in Task, join[t] = 0
    PROVE  Unprocessed(t) = {} /\ Pending(t) = {}
<1>1. Unprocessed(t) \in SUBSET Handle BY DEF Unprocessed
<1>2. IsFiniteSet(Unprocessed(t)) /\ IsFiniteSet(Pending(t)) BY <1>1, Sets DEF IInv, Joins
<1>3. join[t] = Cardinality(Unprocessed(t)) + Cardinality(Pending(t)) BY DEF IInv, Joins
<1> QED BY <1>2, <1>3, NotNone

\* A task that waits for something has a join counter above zero.
LEMMA SomethingLeft ==
    ASSUME IInv, NEW t \in Task, Unprocessed(t) # {} \/ Pending(t) # {}
    PROVE  join[t] \in Nat \ {0}
BY NothingLeft DEF IInv, TypeOK

\* A node with an owner has a use_count above zero and is not recycled.
LEMMA Owned ==
    ASSUME IInv, NEW t \in Task, (\E h \in Handle : handle[h] = t) \/ Returning(t) \/ Alive(t)
    PROVE  uses[t] \in Nat \ {0} /\ t \notin recycled
<1>1. OwnersOK(t) BY DEF IInv, Owners
<1>2. Holding(t) \in SUBSET Handle BY DEF Holding
<1>3. Cardinality(Holding(t)) \in Nat /\ (Cardinality(Holding(t)) = 0 <=> Holding(t) = {})
  BY <1>2, Sets, NotNone DEF IInv
<1>4. PICK n \in Nat, a \in {0, 1}, b \in {0, 1} :
         /\ n = Cardinality(Holding(t)) /\ a = Owning(Returning(t)) /\ b = Owning(Alive(t))
         /\ uses[t] = n + a + b
         /\ (\E h \in Handle : handle[h] = t) => n > 0
         /\ Returning(t) => a = 1
         /\ Alive(t) => b = 1
  <2>1. Owning(Returning(t)) \in {0, 1} /\ Owning(Alive(t)) \in {0, 1} BY DEF Owning
  <2>2. (Returning(t) => Owning(Returning(t)) = 1) /\ (Alive(t) => Owning(Alive(t)) = 1)
    BY DEF Owning
  <2>3. (\E h \in Handle : handle[h] = t) => Holding(t) # {} BY DEF Holding
  <2>4. (\E h \in Handle : handle[h] = t) => Cardinality(Holding(t)) > 0 BY <1>3, <2>3
  <2> QED BY <1>1, <1>3, <2>1, <2>2, <2>4 DEF OwnersOK
<1>5. uses[t] \in Nat \ {0} BY <1>4
<1> QED BY <1>1, <1>5 DEF OwnersOK

----------------------------------------------------------------------------
(* What the operations on counters do *)

\* Dropping a reference that somebody has.
LEMMA DropFacts ==
    ASSUME IInv, NEW t \in Task \cup {NoTask}, Drop(t),
           (\E h \in Handle : handle[h] = t) \/ Returning(t) \/ Alive(t)
    PROVE  /\ uses' \in [Task -> Nat] /\ recycled' \in SUBSET Task
           /\ \A u \in Task : /\ uses'[u] = (IF u = t THEN uses[u] - 1 ELSE uses[u])
                              /\ u \in recycled' <=> u \in recycled \/ (u = t /\ uses'[u] = 0)
<1>1. TypeOK /\ NoTask \notin Task BY Sets DEF IInv
<1>2. CASE t = NoTask BY <1>1, <1>2 DEF Drop, TypeOK
<1>3. CASE t \in Task
  <2>1. /\ uses' = [uses EXCEPT ![t] = uses[t] - 1]
        /\ recycled' = IF uses[t] = 1 THEN recycled \cup {t} ELSE recycled BY <1>1, <1>3 DEF Drop
  <2>2. uses[t] \in Nat \ {0} BY <1>3, Owned
  <2>3. uses[t] - 1 \in Nat /\ (uses[t] = 1 <=> uses[t] - 1 = 0) BY <2>2
  <2>4. uses \in [Task -> Nat] /\ recycled \in SUBSET Task BY <1>1 DEF TypeOK
  <2>5. uses' \in [Task -> Nat] /\ uses'[t] = uses[t] - 1 /\ \A u \in Task : u # t => uses'[u] = uses[u]
    BY <1>3, <2>1, <2>3, <2>4
  <2> QED BY <1>3, <2>1, <2>3, <2>4, <2>5
<1> QED BY <1>2, <1>3

\* A copy of a handle changes the counts of both its tasks.
LEMMA CopyFacts ==
    ASSUME IInv, NEW h \in Handle, NEW g \in Handle, CopyHandle(h, g)
    PROVE  /\ uses' \in [Task -> Nat] /\ recycled' \in SUBSET Task
           /\ \A u \in Task :
                 /\ uses'[u] = (IF u = handle[h] THEN uses[u] - 1
                                ELSE IF u = handle[g] THEN uses[u] + 1 ELSE uses[u])
                 /\ u \in recycled' <=> u \in recycled \/ (u = handle[h] /\ uses'[u] = 0)
<1>1. /\ uses' = [t \in Task |-> IF t = handle[h] THEN uses[t] - 1
                                ELSE IF t = handle[g] THEN uses[t] + 1 ELSE uses[t]]
      /\ recycled' = recycled \cup {t \in {handle[h]} \cap Task : uses[t] = 1} BY DEF CopyHandle
<1>2. uses \in [Task -> Nat] /\ recycled \in SUBSET Task BY DEF IInv, TypeOK
<1>3. \A u \in Task : u = handle[h] => uses[u] \in Nat \ {0} BY Owned
<1>4. \A u \in Task : uses'[u] \in Nat BY <1>1, <1>2, <1>3
<1>5. uses' \in [Task -> Nat] BY <1>1, <1>4
<1>6. \A u \in Task : u = handle[h] => (uses[u] = 1 <=> uses'[u] = 0) BY <1>1, <1>2
<1> QED BY <1>1, <1>2, <1>5, <1>6

\* What the threads refer to.
LEMMA Refers ==
    ASSUME IInv
    PROVE  /\ \A h \in Handle : handle[h] \in Created \cup {NoTask}
           /\ \A c \in Client : cpc[c] # "idle" => made[c] \in Task /\ astate[made[c]] # "none"
           /\ \A w \in Worker : wpc[w] # "idle" => node[w] \in Task /\ astate[node[w]] # "none"
<1>1. \A h \in Handle : handle[h] \in Task => astate[handle[h]] # "none"
  BY DEF IInv, Nodes, NodeOK, Nowhere
<1> QED BY <1>1 DEF IInv, Clients, ClientOK, Workers, WorkerOK, Created, TypeOK

\* The join counters that a step counts down are above zero.
LEMMA CountedOff ==
    ASSUME IInv
    PROVE  /\ \A c \in Client : cpc[c] \in {"process", "link"} /\ todo[c] # {} =>
                 join[made[c]] \in Nat \ {0}
           /\ \A t \in Task : walked[t] < Len(edges[t]) =>
                 /\ walked[t] + 1 \in DOMAIN edges[t]
                 /\ edges[t][walked[t] + 1] \in Task
                 /\ <<t, walked[t] + 1>> \in Pending(edges[t][walked[t] + 1])
                 /\ join[edges[t][walked[t] + 1]] \in Nat \ {0}
<1>1. TypeOK /\ Clients BY DEF IInv
<1>2. ASSUME NEW c \in Client, cpc[c] \in {"process", "link"}, todo[c] # {}
      PROVE  join[made[c]] \in Nat \ {0}
  <2>1. made[c] \in Task BY <1>2, Refers
  <2>2. Unprocessed(made[c]) # {} BY <1>1, <1>2, <2>1, TodoOf
  <2> QED BY <2>1, <2>2, SomethingLeft
<1>3. ASSUME NEW t \in Task, walked[t] < Len(edges[t])
      PROVE  /\ walked[t] + 1 \in DOMAIN edges[t]
             /\ edges[t][walked[t] + 1] \in Task
             /\ <<t, walked[t] + 1>> \in Pending(edges[t][walked[t] + 1])
             /\ join[edges[t][walked[t] + 1]] \in Nat \ {0}
  <2>1. edges[t] \in Seq(Task) /\ walked[t] \in Nat BY <1>1 DEF TypeOK
  <2>2. walked[t] + 1 \in DOMAIN edges[t] /\ walked[t] + 1 \in walked[t] + 1 .. Len(edges[t])
    BY <1>3, <2>1
  <2>3. edges[t][walked[t] + 1] \in Task BY <2>1, <2>2
  <2>4. <<t, walked[t] + 1>> \in Pending(edges[t][walked[t] + 1]) BY <1>1, <2>2, PendingAt
  <2>5. join[edges[t][walked[t] + 1]] \in Nat \ {0} BY <2>3, <2>4, SomethingLeft
  <2> QED BY <2>2, <2>3, <2>4, <2>5
<1> QED BY <1>2, <1>3

\* A task that is scheduled once more.
LEMMA OnceMore ==
    ASSUME scheduled \in [Task -> Nat], NEW t \in Task
    PROVE  /\ [scheduled EXCEPT ![t] = scheduled[t] + 1] \in [Task -> Nat]
           /\ [scheduled EXCEPT ![t] = @ + 1] \in [Task -> Nat]
<1>1. scheduled[t] + 1 \in Nat OBVIOUS
<1> QED BY <1>1

\* A worker that counts its task as done has one to count.
LEMMA OneOpen ==
    ASSUME IInv, NEW w \in Worker, wpc[w] = "count"
    PROVE  topologies \in Nat \ {0} /\ topologies - 1 \in Nat
<1>1. node[w] \in {t \in Task : Open(t)} BY Refers DEF Open
<1>2. IsFiniteSet({t \in Task : Open(t)}) BY Sets DEF IInv
<1>3. Cardinality({t \in Task : Open(t)}) \in Nat \ {0} BY <1>1, <1>2, OneLess
<1> QED BY <1>3 DEF IInv, Counts

----------------------------------------------------------------------------
(* Types *)

\* The types, in the initial state and over a step: no counter falls below zero.
LEMMA TypeInit == ASSUME AsyncAssumption, Init PROVE TypeOK
<1>1. \A h \in Handle : [k \in Handle |-> NoTask][h] = NoTask OBVIOUS
<1> QED BY <1>1 DEF Init, TypeOK

\* A step keeps the types, for it counts down only what is counted.
LEMMA TypeNext == ASSUME IInv, Next PROVE TypeOK'
<1> USE DEF clientVars, workerVars
<1>1. TypeOK /\ NoTask \notin Task BY Sets DEF IInv
<1>2. ASSUME NEW h \in Handle, ResetHandle(h) PROVE TypeOK'
  <2>1. handle[h] \in Task \cup {NoTask} /\ Drop(handle[h]) BY <1>1, <1>2 DEF ResetHandle, TypeOK
  <2>2. uses' \in [Task -> Nat] /\ recycled' \in SUBSET Task BY <2>1, DropFacts
  <2> QED BY <1>1, <1>2, <2>2 DEF ResetHandle, TypeOK
<1>3. ASSUME NEW h \in Handle, NEW g \in Handle, MoveHandle(h, g) PROVE TypeOK'
  <2>1. handle[h] \in Task \cup {NoTask} /\ Drop(handle[h]) BY <1>1, <1>3 DEF MoveHandle, TypeOK
  <2>2. uses' \in [Task -> Nat] /\ recycled' \in SUBSET Task BY <2>1, DropFacts
  <2> QED BY <1>1, <1>3, <2>2 DEF MoveHandle, TypeOK
<1>4. ASSUME NEW h \in Handle, NEW g \in Handle, CopyHandle(h, g) PROVE TypeOK'
  <2>1. uses' \in [Task -> Nat] /\ recycled' \in SUBSET Task BY <1>4, CopyFacts
  <2> QED BY <1>1, <1>4, <2>1 DEF CopyHandle, TypeOK
<1>5. ASSUME NEW c \in Client, Create(c) PROVE TypeOK'
  <2>1. PICK t \in Fresh, hs \in SUBSET Handle :
          /\ astate' = [astate EXCEPT ![t] = "unfinished"]
          /\ uses' = [uses EXCEPT ![t] = 2]
          /\ join' = [join EXCEPT ![t] = Cardinality(hs)]
          /\ pred' = [pred EXCEPT ![t] = {handle[h] : h \in hs} \ {NoTask}]
          /\ made' = [made EXCEPT ![c] = t]
          /\ todo' = [todo EXCEPT ![c] = hs]
          /\ npred' = [npred EXCEPT ![c] = Cardinality(hs)] BY <1>5 DEF Create
  <2>2. t \in Task /\ Cardinality(hs) \in Nat BY Sets DEF Fresh, IInv
  <2>3. {handle[h] : h \in hs} \ {NoTask} \in SUBSET Task BY <1>1 DEF TypeOK
  <2> QED BY <1>1, <1>5, <2>1, <2>2, <2>3 DEF Create, TypeOK
<1>6. ASSUME NEW c \in Client, NEW h \in Handle, CountOff(c, h) PROVE TypeOK'
  <2>1. join[made[c]] \in Nat \ {0} /\ made[c] \in Task BY <1>6, CountedOff, Refers DEF CountOff
  <2>2. join[made[c]] - 1 \in Nat BY <2>1
  <2> QED BY <1>1, <1>6, <2>1, <2>2 DEF CountOff, TypeOK
<1>7. ASSUME NEW c \in Client, NEW h \in Handle, Lock(c, h) PROVE TypeOK'
  BY <1>1, <1>7 DEF Lock, TypeOK
<1>8. ASSUME NEW c \in Client, Link(c) PROVE TypeOK'
  <2>1. handle[link[c]] \in Task /\ made[c] \in Task
    BY <1>8, Refers DEF Link, IInv, Clients, ClientOK
  <2>2. edges' = [edges EXCEPT ![handle[link[c]]] = Append(edges[handle[link[c]]], made[c])]
    BY <1>8 DEF Link
  <2>3. edges' \in [Task -> Seq(Task)] BY <1>1, <2>1, <2>2 DEF TypeOK
  <2> QED BY <1>1, <1>8, <2>1, <2>3 DEF Link, TypeOK
<1>9. ASSUME NEW c \in Client, ScheduleIfReady(c) PROVE TypeOK'
  <2>1. made[c] \in Task BY <1>9, Refers DEF ScheduleIfReady
  <2>2. scheduled' \in [Task -> Nat] BY <1>1, <1>9, <2>1, OnceMore DEF ScheduleIfReady, TypeOK
  <2> QED BY <1>1, <1>9, <2>2 DEF ScheduleIfReady, TypeOK
<1>10. ASSUME NEW c \in Client, NEW h \in Handle, ReturnTo(c, h) PROVE TypeOK'
  <2>1. handle[h] \in Task \cup {NoTask} /\ Drop(handle[h]) BY <1>1, <1>10 DEF ReturnTo, TypeOK
  <2>2. uses' \in [Task -> Nat] /\ recycled' \in SUBSET Task BY <2>1, DropFacts
  <2> QED BY <1>1, <1>10, <2>2 DEF ReturnTo, TypeOK
<1>11. ASSUME NEW c \in Client, Discard(c) PROVE TypeOK'
  <2>1. made[c] \in Task \cup {NoTask} /\ Drop(made[c]) /\ Returning(made[c])
    BY <1>1, <1>11 DEF Discard, TypeOK, Returning
  <2>2. uses' \in [Task -> Nat] /\ recycled' \in SUBSET Task BY <2>1, DropFacts
  <2> QED BY <1>1, <1>11, <2>2 DEF Discard, TypeOK
<1>12. ASSUME NEW w \in Worker, NEW t \in Task, Pick(w, t) PROVE TypeOK'
  BY <1>1, <1>12 DEF Pick, Goto, TypeOK
<1>13. ASSUME NEW w \in Worker, Work(w) PROVE TypeOK'
  <2>1. node[w] \in Task BY <1>13, Refers DEF Work
  <2> QED BY <1>1, <1>13, <2>1 DEF Work, Goto, TypeOK
<1>14. ASSUME NEW w \in Worker, Finish(w) PROVE TypeOK' BY <1>1, <1>14 DEF Finish, Goto, TypeOK
<1>15. ASSUME NEW w \in Worker, Walk(w) PROVE TypeOK'
  <2>1. node[w] \in Task BY <1>15, Refers DEF Walk
  <2>2. PICK t \in Task, s \in Task, n \in Nat :
            t = node[w] /\ n = walked[t] /\ s = edges[t][n + 1] /\ join[s] \in Nat \ {0}
    BY <1>1, <1>15, <2>1, CountedOff DEF Walk, TypeOK
  <2>3. join[s] - 1 \in Nat /\ n + 1 \in Nat BY <2>2
  <2>4. /\ walked' = [walked EXCEPT ![t] = n + 1]
        /\ join' = [join EXCEPT ![s] = join[s] - 1]
        /\ IF join[s] = 1 THEN UpdateCache(w, s) ELSE UNCHANGED <<cache, scheduled>>
        /\ UNCHANGED <<handle, astate, uses, recycled, edges, pred, ran, topologies, clientVars, wpc, node>>
    BY <1>15, <2>2 DEF Walk
  <2>5. scheduled' \in [Task -> Nat] /\ cache' \in [Worker -> Task \cup {NoTask}]
    <3>1. CASE join[s] = 1
      <4>1. /\ scheduled \in [Task -> Nat] /\ cache \in [Worker -> Task \cup {NoTask}]
            /\ cache[w] \in Task \cup {NoTask} /\ NoTask \notin Task BY <1>1 DEF TypeOK
      <4> QED BY <2>4, <3>1, <4>1, OnceMore DEF UpdateCache
    <3>2. CASE join[s] # 1 BY <1>1, <2>4, <3>2 DEF TypeOK
    <3> QED BY <3>1, <3>2
  <2> QED BY <1>1, <2>3, <2>4, <2>5 DEF TypeOK
<1>16. ASSUME NEW w \in Worker, EndWalk(w) PROVE TypeOK' BY <1>1, <1>16 DEF EndWalk, Goto, TypeOK
<1>17. ASSUME NEW w \in Worker, DecrementTopology(w) PROVE TypeOK'
  <2>1. topologies - 1 \in Nat BY <1>17, OneOpen DEF DecrementTopology
  <2> QED BY <1>1, <1>17, <2>1 DEF DecrementTopology, Goto, TypeOK
<1>18. ASSUME NEW w \in Worker, Release(w) PROVE TypeOK'
  <2>1. node[w] \in Task /\ Drop(node[w]) /\ Alive(node[w]) BY <1>18, Refers DEF Release, Alive
  <2>2. uses' \in [Task -> Nat] /\ recycled' \in SUBSET Task BY <2>1, DropFacts
  <2> QED BY <1>1, <1>18, <2>2 DEF Release, Goto, TypeOK
<1> QED BY <1>2, <1>3, <1>4, <1>5, <1>6, <1>7, <1>8, <1>9, <1>10, <1>11, <1>12, <1>13, <1>14, <1>15,
     <1>16, <1>17, <1>18 DEF Next, ClientStep, WorkerStep, UseHandles

----------------------------------------------------------------------------
(* Clients and workers *)

\* Steps of others leave a client's facts alone, if its locked node stays locked.
LEMMA ClientsKept ==
    ASSUME Clients, UNCHANGED clientVars,
           \A t \in Task : astate[t] # "none" => astate'[t] # "none",
           \A c \in Client : cpc[c] = "link" =>
               handle'[link[c]] = handle[link[c]] /\ astate'[handle[link[c]]] = "locked"
    PROVE  Clients'
BY DEF Clients, ClientOK, Created, clientVars

\* Steps of others leave a worker's facts alone, if its node stays finished or not.
LEMMA WorkersKept ==
    ASSUME Workers, UNCHANGED workerVars, ran' = ran,
           \A t \in Task : astate[t] # "none" => astate'[t] # "none",
           \A t \in Task : astate'[t] = "finished" <=> astate[t] = "finished"
    PROVE  Workers'
<1> SUFFICES ASSUME NEW w \in Worker PROVE WorkerOK(w)' BY DEF Workers
<1>1. /\ WorkerOK(w) /\ (Dead(w)' <=> Dead(w))
      /\ wpc' = wpc /\ node' = node /\ cache' = cache BY DEF Workers, Dead, workerVars
<1>2. \A t : t \in Created => t \in Created' BY DEF Created
<1>3. node[w] \in Task => (astate'[node[w]] = "finished" <=> astate[node[w]] = "finished") OBVIOUS
<1> QED BY <1>1, <1>2, <1>3 DEF WorkerOK

\* A step keeps what the clients know: a node that is locked stays so until its
\* client has linked to it, and a created task stays its creator's until it returns.
LEMMA ClientsNext == ASSUME IInv, Next PROVE Clients'
<1>1. TypeOK /\ NoTask \notin Task /\ Clients /\ Workers BY Sets DEF IInv
<1>2. \A c \in Client : cpc[c] = "link" => /\ link[c] \in Busy /\ handle[link[c]] \in Task
                                           /\ astate[handle[link[c]]] = "locked"
  BY <1>1 DEF Clients, ClientOK, Busy
<1>3. ASSUME NEW h \in Handle, ResetHandle(h) PROVE Clients'
  BY <1>1, <1>2, <1>3, ClientsKept DEF ResetHandle, TypeOK
<1>4. ASSUME NEW h \in Handle, NEW g \in Handle, MoveHandle(h, g) PROVE Clients'
  <2>1. \A k \in Busy : handle'[k] = handle[k] BY <1>1, <1>4 DEF MoveHandle, TypeOK, Busy
  <2>2. UNCHANGED <<astate, clientVars>> BY <1>4 DEF MoveHandle
  <2> QED BY <1>1, <1>2, <2>1, <2>2, ClientsKept
<1>5. ASSUME NEW h \in Handle, NEW g \in Handle, CopyHandle(h, g) PROVE Clients'
  BY <1>1, <1>2, <1>5, ClientsKept DEF CopyHandle, TypeOK
<1>6. ASSUME NEW c \in Client, Create(c) PROVE Clients'
  <2>1. PICK t \in Fresh, hs \in SUBSET Handle :
          /\ astate' = [astate EXCEPT ![t] = "unfinished"]
          /\ made' = [made EXCEPT ![c] = t]
          /\ todo' = [todo EXCEPT ![c] = hs]
          /\ cpc' = [cpc EXCEPT ![c] = "process"]
          /\ UNCHANGED <<handle, link>> BY <1>6 DEF Create
  <2>2. /\ t \in Task /\ astate[t] = "none" /\ cpc[c] = "idle"
        /\ \A d \in Client : made[d] # t BY <1>1, <1>6 DEF Fresh, Created, Create, Clients, ClientOK
  <2>3. \A u \in Task : u \in Created' <=> u \in Created \/ u = t
    BY <1>1, <2>1, <2>2 DEF Created, TypeOK
  <2>4. ClientOK(c)' BY <1>1, <2>1, <2>2, <2>3 DEF ClientOK, TypeOK
  <2>5. ASSUME NEW d \in Client, d # c PROVE ClientOK(d)'
    <3>1. ClientOK(d) /\ cpc'[d] = cpc[d] /\ made'[d] = made[d] /\ todo'[d] = todo[d]
      BY <1>1, <2>1, <2>5 DEF Clients, TypeOK
    <3>2. cpc[d] = "link" => astate'[handle[link[d]]] = "locked"
      BY <1>1, <1>2, <2>1, <2>2 DEF TypeOK
    <3>3. /\ cpc'[c] = "process" /\ made'[c] = t /\ made[d] # t
          /\ \A e \in Client : e # c => made'[e] = made[e] /\ cpc'[e] = cpc[e]
      BY <1>1, <2>1, <2>2 DEF TypeOK
    <3>4. \A e \in Client \ {d} :
             /\ made'[d] \in Task => made'[e] # made'[d]
             /\ cpc'[d] = "link" /\ cpc'[e] = "link" => handle'[link'[d]] # handle'[link'[e]]
      BY <2>1, <3>1, <3>3 DEF ClientOK
    <3>5. \A x : x \in Created => x \in Created' BY <2>3 DEF Created
    <3> QED BY <2>1, <3>1, <3>2, <3>4, <3>5 DEF ClientOK
  <2> QED BY <2>4, <2>5 DEF Clients
<1>7. ASSUME NEW c \in Client, NEW h \in Handle, CountOff(c, h) PROVE Clients'
  BY <1>1, <1>7 DEF CountOff, Clients, ClientOK, TypeOK, Created
<1>8. ASSUME NEW c \in Client, NEW h \in Handle, Lock(c, h) PROVE Clients'
  <2>1. /\ handle[h] \in Task /\ astate' = [astate EXCEPT ![handle[h]] = "locked"]
        /\ astate[handle[h]] = "unfinished"
        /\ h \in todo[c] /\ made[c] \in Created
        /\ link' = [link EXCEPT ![c] = h] /\ cpc' = [cpc EXCEPT ![c] = "link"]
        /\ UNCHANGED <<handle, made, todo>> BY <1>1, <1>8 DEF Lock, TypeOK, Clients, ClientOK
  <2>2. Created' = Created BY <1>1, <2>1 DEF Created, TypeOK
  <2>3. /\ cpc'[c] = "link" /\ link'[c] = h
        /\ \A d \in Client : d # c => cpc'[d] = cpc[d] /\ link'[d] = link[d]
    BY <1>1, <2>1 DEF TypeOK
  <2>4. \A d \in Client : d # c /\ cpc[d] = "link" =>
            handle[link[d]] # handle[h] /\ astate'[handle[link[d]]] = "locked"
    BY <1>1, <1>2, <2>1 DEF TypeOK
  <2>5. astate'[handle[h]] = "locked" BY <1>1, <2>1 DEF TypeOK
  <2> QED BY <1>1, <2>1, <2>2, <2>3, <2>4, <2>5 DEF Clients, ClientOK
<1>9. ASSUME NEW c \in Client, Link(c) PROVE Clients'
  <2>1. /\ handle[link[c]] \in Task /\ astate' = [astate EXCEPT ![handle[link[c]]] = "unfinished"]
        /\ astate[handle[link[c]]] = "locked" /\ made[c] \in Created
        /\ cpc[c] = "link" /\ cpc' = [cpc EXCEPT ![c] = "process"]
        /\ link' = [link EXCEPT ![c] = NoTask]
        /\ todo' = [todo EXCEPT ![c] = todo[c] \ {link[c]}]
        /\ UNCHANGED <<handle, made>> BY <1>1, <1>9 DEF Link, TypeOK, Clients, ClientOK
  <2>2. Created' = Created BY <1>1, <2>1 DEF Created, TypeOK
  <2>3. /\ cpc'[c] = "process"
        /\ \A d \in Client : d # c => cpc'[d] = cpc[d] /\ link'[d] = link[d] /\ todo'[d] = todo[d]
    BY <1>1, <2>1 DEF TypeOK
  <2>4. \A d \in Client : d # c /\ cpc[d] = "link" => astate'[handle[link[d]]] = "locked"
    BY <1>1, <1>2, <2>1 DEF TypeOK, Clients, ClientOK
  <2> QED BY <1>1, <2>1, <2>2, <2>3, <2>4 DEF Clients, ClientOK
<1>10. ASSUME NEW c \in Client, ScheduleIfReady(c) PROVE Clients'
  BY <1>1, <1>10 DEF ScheduleIfReady, Clients, ClientOK, TypeOK, Created
<1>11. ASSUME NEW c \in Client, NEW h \in Handle, ReturnTo(c, h) PROVE Clients'
  <2>1. /\ cpc[c] = "return" /\ cpc' = [cpc EXCEPT ![c] = "idle"]
        /\ made' = [made EXCEPT ![c] = NoTask] /\ todo[c] = {}
        /\ UNCHANGED <<astate, todo, link>> BY <1>1, <1>11 DEF ReturnTo, Clients, ClientOK
  <2>2. \A k \in Busy : handle'[k] = handle[k] BY <1>1, <1>11 DEF ReturnTo, TypeOK, Busy
  <2>3. /\ cpc'[c] = "idle" /\ made'[c] = NoTask
        /\ \A d \in Client : d # c => cpc'[d] = cpc[d] /\ made'[d] = made[d]
        /\ \A d \in Client : cpc'[d] = "link" => handle'[link[d]] = handle[link[d]]
    BY <1>1, <1>2, <2>1, <2>2 DEF TypeOK
  <2>4. Created' = Created BY <2>1 DEF Created
  <2> QED BY <1>1, <2>1, <2>3, <2>4 DEF Clients, ClientOK
<1>12. ASSUME NEW c \in Client, Discard(c) PROVE Clients'
  BY <1>1, <1>12 DEF Discard, Clients, ClientOK, TypeOK, Created
<1>13. ASSUME NEW w \in Worker, Finish(w) PROVE Clients'
  <2>1. node[w] \in Task /\ astate[node[w]] = "unfinished" BY <1>13, Refers DEF Finish
  <2>2. astate' = [astate EXCEPT ![node[w]] = "finished"] /\ UNCHANGED <<handle, clientVars>>
    BY <1>13 DEF Finish
  <2>3. \A c \in Client : cpc[c] = "link" =>
            handle'[link[c]] = handle[link[c]] /\ astate'[handle[link[c]]] = "locked"
    BY <1>1, <1>2, <2>1, <2>2 DEF TypeOK
  <2>4. \A t \in Task : astate[t] # "none" => astate'[t] # "none" BY <1>1, <2>1, <2>2 DEF TypeOK
  <2> QED BY <1>1, <2>2, <2>3, <2>4, ClientsKept
<1>14. ASSUME NEW w \in Worker,
              \/ \E t \in Task : Pick(w, t)
              \/ Work(w) \/ Walk(w) \/ EndWalk(w) \/ DecrementTopology(w) \/ Release(w)
       PROVE  Clients'
  <2>1. UNCHANGED <<clientVars, astate, handle>>
    BY <1>14 DEF Pick, Work, Walk, EndWalk, DecrementTopology, Release
  <2> QED BY <1>1, <1>2, <2>1, ClientsKept
<1> QED BY <1>3, <1>4, <1>5, <1>6, <1>7, <1>8, <1>9, <1>10, <1>11, <1>12, <1>13, <1>14
     DEF Next, ClientStep, WorkerStep, UseHandles

\* A step of one worker leaves the facts of another alone.
LEMMA OtherWorker ==
    ASSUME NEW v \in Worker, WorkerOK(v),
           wpc'[v] = wpc[v], node'[v] = node[v], cache'[v] = cache[v],
           node[v] \in Created => (node[v] \in ran' <=> node[v] \in ran),
           \A t \in Task : astate[t] # "none" => astate'[t] # "none",
           node[v] \in Task => (astate'[node[v]] = "finished" <=> astate[node[v]] = "finished")
    PROVE  WorkerOK(v)'
<1>1. ASSUME NEW t \in Created PROVE t \in Created' BY DEF Created
<1>2. Dead(v)' <=> Dead(v) BY DEF Dead
<1>3. Dead(v) => wpc[v] # "idle" BY DEF Dead
<1> QED BY <1>1, <1>2, <1>3 DEF WorkerOK

\* A step keeps what the workers know of their nodes.
LEMMA WorkersNext == ASSUME IInv, Next PROVE Workers'
<1>1. TypeOK /\ NoTask \notin Task /\ Clients /\ Workers /\ Nodes BY Sets DEF IInv
<1>2. \A v, w \in Worker : v # w /\ node[w] \in Task => node[v] # node[w]
  BY <1>1 DEF Nodes, NodeOK, OneHolder
<1>3. ASSUME NEW h \in Handle,
             ResetHandle(h) \/ \E g \in Handle : CopyHandle(h, g) \/ MoveHandle(h, g)
      PROVE  Workers'
  <2>1. UNCHANGED <<workerVars, ran, astate>> BY <1>3 DEF ResetHandle, CopyHandle, MoveHandle
  <2> QED BY <1>1, <2>1, WorkersKept
<1>4. ASSUME NEW c \in Client,
             \/ \E h \in Handle : CountOff(c, h) \/ ReturnTo(c, h)
             \/ ScheduleIfReady(c) \/ Discard(c)
      PROVE  Workers'
  <2>1. UNCHANGED <<workerVars, ran, astate>>
    BY <1>4 DEF CountOff, ReturnTo, ScheduleIfReady, Discard
  <2> QED BY <1>1, <2>1, WorkersKept
<1>5. ASSUME NEW c \in Client, Create(c) PROVE Workers'
  <2>1. PICK t \in Task : astate[t] = "none" /\ astate' = [astate EXCEPT ![t] = "unfinished"]
    BY <1>5 DEF Create, Fresh, Created
  <2>2. UNCHANGED <<workerVars, ran>> BY <1>5 DEF Create
  <2>3. \A u \in Task : astate[u] # "none" => astate'[u] # "none" BY <1>1, <2>1 DEF TypeOK
  <2>4. \A u \in Task : astate'[u] = "finished" <=> astate[u] = "finished" BY <1>1, <2>1 DEF TypeOK
  <2> QED BY <1>1, <2>2, <2>3, <2>4, WorkersKept
<1>6. ASSUME NEW c \in Client, Link(c) \/ \E h \in Handle : Lock(c, h) PROVE Workers'
  <2>1. PICK t \in Task, l \in {"unfinished", "locked"} :
            /\ astate[t] \in {"unfinished", "locked"} /\ astate' = [astate EXCEPT ![t] = l]
            /\ UNCHANGED <<workerVars, ran>>
    <3>1. CASE Link(c)
      <4>1. /\ handle[link[c]] \in Task /\ astate[handle[link[c]]] = "locked"
            /\ astate' = [astate EXCEPT ![handle[link[c]]] = "unfinished"]
            /\ UNCHANGED <<workerVars, ran>> BY <1>1, <3>1 DEF Link, Clients, ClientOK
      <4> QED BY <4>1
    <3>2. ASSUME NEW h \in Handle, Lock(c, h)
          PROVE  /\ handle[h] \in Task /\ astate[handle[h]] = "unfinished"
                 /\ astate' = [astate EXCEPT ![handle[h]] = "locked"]
                 /\ UNCHANGED <<workerVars, ran>> BY <1>1, <3>2 DEF Lock, TypeOK
    <3> QED BY <1>6, <3>1, <3>2
  <2>3. \A u \in Task : astate[u] # "none" => astate'[u] # "none" BY <1>1, <2>1 DEF TypeOK
  <2>4. \A u \in Task : astate'[u] = "finished" <=> astate[u] = "finished" BY <1>1, <2>1 DEF TypeOK
  <2> QED BY <1>1, <2>1, <2>3, <2>4, WorkersKept
<1>7. ASSUME NEW w \in Worker, NEW t \in Task, Pick(w, t) PROVE Workers'
  <2>1. /\ node' = [node EXCEPT ![w] = t] /\ wpc' = [wpc EXCEPT ![w] = "work"]
        /\ wpc[w] = "idle" /\ UNCHANGED <<cache, ran, astate>> /\ scheduled[t] # 0
    BY <1>1, <1>7 DEF Pick, Goto, TypeOK
  <2>2. t \in Created /\ t \notin ran /\ astate[t] # "finished"
    BY <1>1, <2>1 DEF Nodes, NodeOK, Nowhere, Created
  <2>3. WorkerOK(w)'
    <3>1. node'[w] = t /\ wpc'[w] = "work" /\ cache[w] = NoTask /\ ~Dead(w)' /\ Created' = Created
      BY <1>1, <2>1 DEF TypeOK, Workers, WorkerOK, Dead, Created
    <3> QED BY <2>1, <2>2, <3>1 DEF WorkerOK
  <2>4. ASSUME NEW v \in Worker, v # w PROVE WorkerOK(v)'
    BY <1>1, <2>1, <2>4, OtherWorker DEF TypeOK, Workers
  <2> QED BY <2>3, <2>4 DEF Workers
<1>8. ASSUME NEW w \in Worker, Work(w) PROVE Workers'
  <2>1. /\ wpc' = [wpc EXCEPT ![w] = "finish"] /\ ran' = ran \cup {node[w]}
        /\ wpc[w] = "work" /\ UNCHANGED <<node, cache, astate>> /\ node[w] \in Task
    BY <1>8, Refers DEF Work, Goto
  <2>2. WorkerOK(w)'
    <3>1. wpc'[w] = "finish" /\ ~Dead(w)' /\ ~Dead(w) /\ Created' = Created
      BY <1>1, <2>1 DEF TypeOK, Dead, Created
    <3> QED BY <1>1, <2>1, <3>1 DEF Workers, WorkerOK
  <2>3. ASSUME NEW v \in Worker, v # w PROVE WorkerOK(v)'
    <3>1. wpc'[v] = wpc[v] /\ node[v] # node[w] /\ WorkerOK(v)
      BY <1>1, <1>2, <2>1, <2>3 DEF TypeOK, Workers
    <3> QED BY <2>1, <3>1, OtherWorker
  <2> QED BY <2>2, <2>3 DEF Workers
<1>9. ASSUME NEW w \in Worker, Finish(w) PROVE Workers'
  <2>1. /\ wpc' = [wpc EXCEPT ![w] = "walk"] /\ astate' = [astate EXCEPT ![node[w]] = "finished"]
        /\ wpc[w] = "finish" /\ UNCHANGED <<node, cache, ran>> /\ node[w] \in Task
    BY <1>9, Refers DEF Finish, Goto
  <2>2. \A u \in Task : astate[u] # "none" => astate'[u] # "none" BY <1>1, <2>1 DEF TypeOK
  <2>3. WorkerOK(w)'
    <3>1. wpc'[w] = "walk" /\ Dead(w)' /\ astate'[node[w]] = "finished" /\ cache[w] = NoTask /\ node[w] \in ran
      BY <1>1, <2>1 DEF TypeOK, Dead, Workers, WorkerOK
    <3>2. node[w] \in Created' BY <1>1, <2>1, <3>1 DEF Created
    <3> QED BY <2>1, <3>1, <3>2 DEF WorkerOK
  <2>4. ASSUME NEW v \in Worker, v # w PROVE WorkerOK(v)'
    <3>1. wpc'[v] = wpc[v] /\ node[v] # node[w] /\ WorkerOK(v)
      BY <1>1, <1>2, <2>1, <2>4 DEF TypeOK, Workers
    <3>2. node[v] \in Task => astate'[node[v]] = astate[node[v]] BY <1>1, <2>1, <3>1 DEF TypeOK
    <3> QED BY <2>1, <2>2, <3>1, <3>2, OtherWorker
  <2> QED BY <2>3, <2>4 DEF Workers
<1>10. ASSUME NEW w \in Worker, Walk(w) PROVE Workers'
  <2>1. PICK s \in Task : /\ join[s] # 0 /\ wpc[w] = "walk"
                          /\ UNCHANGED <<ran, astate, wpc, node>>
                          /\ cache' = [cache EXCEPT ![w] = s] \/ cache' = cache
    <3>1. /\ node[w] \in Task /\ walked[node[w]] < Len(edges[node[w]])
          /\ UNCHANGED <<ran, astate, wpc, node>> /\ wpc[w] = "walk" BY <1>10, Refers DEF Walk
    <3>2. PICK s \in Task : s = edges[node[w]][walked[node[w]] + 1] /\ join[s] # 0
      BY <3>1, CountedOff
    <3>3. cache' = [cache EXCEPT ![w] = s] \/ cache' = cache BY <1>10, <3>2 DEF Walk, UpdateCache
    <3> QED BY <3>1, <3>2, <3>3
  <2>2. s \in Created BY <1>1, <2>1 DEF Nodes, NodeOK, Nowhere, Created
  <2>3. WorkerOK(w)'
    <3>1. cache'[w] \in Created \cup {NoTask} /\ Created' = Created /\ (Dead(w)' <=> Dead(w))
      BY <1>1, <2>1, <2>2 DEF TypeOK, Workers, WorkerOK, Dead, Created
    <3> QED BY <1>1, <2>1, <3>1 DEF Workers, WorkerOK
  <2>4. ASSUME NEW v \in Worker, v # w PROVE WorkerOK(v)'
    <3>1. cache'[v] = cache[v] /\ WorkerOK(v) BY <1>1, <2>1, <2>4 DEF TypeOK, Workers
    <3> QED BY <2>1, <3>1, OtherWorker
  <2> QED BY <2>3, <2>4 DEF Workers
<1>11. ASSUME NEW w \in Worker, EndWalk(w) \/ DecrementTopology(w) PROVE Workers'
  <2>1. PICK l \in {"count", "release"} :
            /\ wpc' = [wpc EXCEPT ![w] = l] /\ Dead(w)
            /\ UNCHANGED <<node, cache, ran, astate>>
    BY <1>11 DEF EndWalk, DecrementTopology, Goto, Dead
  <2>2. WorkerOK(w)'
    <3>1. wpc'[w] = l /\ Dead(w)' /\ Created' = Created /\ wpc[w] # "idle"
      BY <1>1, <2>1 DEF TypeOK, Dead, Created
    <3> QED BY <1>1, <2>1, <3>1 DEF Workers, WorkerOK
  <2>3. ASSUME NEW v \in Worker, v # w PROVE WorkerOK(v)'
    <3>1. wpc'[v] = wpc[v] /\ WorkerOK(v) BY <1>1, <2>1, <2>3 DEF TypeOK, Workers
    <3> QED BY <2>1, <3>1, OtherWorker
  <2> QED BY <2>2, <2>3 DEF Workers
<1>12. ASSUME NEW w \in Worker, Release(w) PROVE Workers'
  <2>1. /\ node' = [node EXCEPT ![w] = cache[w]] /\ cache' = [cache EXCEPT ![w] = NoTask]
        /\ wpc' = [wpc EXCEPT ![w] = IF cache[w] = NoTask THEN "idle" ELSE "work"]
        /\ UNCHANGED <<ran, astate>> BY <1>12 DEF Release, Goto
  <2>2. cache[w] \in Created => cache[w] \notin ran /\ astate[cache[w]] # "finished" /\ cache[w] # NoTask
    BY <1>1 DEF Nodes, NodeOK, Created
  <2>3. WorkerOK(w)'
    <3>1. /\ node'[w] = cache[w] /\ cache'[w] = NoTask /\ ~Dead(w)' /\ Created' = Created
          /\ wpc'[w] = IF cache[w] = NoTask THEN "idle" ELSE "work"
          /\ cache[w] \in Created \cup {NoTask}
      BY <1>1, <2>1 DEF TypeOK, Workers, WorkerOK, Dead, Created
    <3> QED BY <1>1, <2>1, <2>2, <3>1 DEF WorkerOK
  <2>4. ASSUME NEW v \in Worker, v # w PROVE WorkerOK(v)'
    <3>1. wpc'[v] = wpc[v] /\ node'[v] = node[v] /\ cache'[v] = cache[v] /\ WorkerOK(v)
      BY <1>1, <2>1, <2>4 DEF TypeOK, Workers
    <3> QED BY <2>1, <3>1, OtherWorker
  <2> QED BY <2>3, <2>4 DEF Workers
<1> QED BY <1>3, <1>4, <1>5, <1>6, <1>7, <1>8, <1>9, <1>10, <1>11, <1>12
     DEF Next, ClientStep, WorkerStep, UseHandles

----------------------------------------------------------------------------
(* Nodes *)

\* What concerns the workers and the queues in NodeOK.
Placed(t) ==
    /\ t \in ran => scheduled[t] = 0 /\ \A w \in Worker : cache[w] # t
    /\ \/ scheduled[t] = 0
       \/ scheduled[t] = 1 /\ \A w \in Worker : node[w] # t /\ cache[w] # t
    /\ OneHolder(t)

\* A step that moves no task keeps all of them in their places.
LEMMA PlacedKept ==
    ASSUME UNCHANGED <<ran, scheduled, node, cache>>, NEW t \in Task, Placed(t)
    PROVE  Placed(t)'
BY DEF Placed, OneHolder

\* A task is not taken up while it waits for something.
LEMMA NotTakenUp ==
    ASSUME IInv, NEW t \in Task, join[t] # 0 \/ Claimed(t)
    PROVE  scheduled[t] = 0 /\ t \notin ran /\ \A w \in Worker : node[w] # t /\ cache[w] # t
<1>1. ~TakenUp(t) BY DEF IInv, Ready, ReadyOK
<1>2. scheduled[t] \in Nat BY DEF IInv, TypeOK
<1> QED BY <1>1, <1>2 DEF TakenUp

\* A step that changes no state of a node but locks.
LEMMA NodesKept ==
    ASSUME IInv, \A t \in Task : Placed(t)',
           \A t \in Task : astate'[t] = "none" <=> astate[t] = "none",
           \A t \in Task : astate'[t] = "finished" => t \in ran',
           \A t \in Task : walked'[t] <= Len(edges'[t]),
           \A t \in Task : astate[t] = "none" => join'[t] = join[t] /\ pred'[t] = pred[t],
           \A t \in Task : astate[t] = "none" => scheduled'[t] = 0 /\ t \notin ran',
           \A t \in Task : astate[t] = "none" => \A h \in Handle : handle'[h] # t
    PROVE  Nodes'
<1> SUFFICES ASSUME NEW t \in Task PROVE NodeOK(t)' BY DEF Nodes
<1>1. NodeOK(t) /\ Placed(t)' BY DEF IInv, Nodes
<1>2. (astate[t] = "none" => Nowhere(t))'
  <2>1. astate[t] = "none" => Nowhere(t) BY <1>1 DEF NodeOK
  <2> QED BY <2>1 DEF Nowhere
<1> QED BY <1>1, <1>2 DEF NodeOK, Placed

\* A step keeps every task in one place: a task that becomes ready is not taken up yet.
LEMMA NodesNext == ASSUME IInv, Next PROVE Nodes'
<1>1. TypeOK /\ NoTask \notin Task /\ Clients /\ Workers BY Sets DEF IInv
<1>2. /\ \A t \in Task : Placed(t)
      /\ \A t \in Task : astate[t] = "none" => Nowhere(t)
      /\ \A t \in Task : astate[t] = "finished" => t \in ran
      /\ \A t \in Task : walked[t] <= Len(edges[t]) BY DEF IInv, Nodes, NodeOK, Placed
<1>3. ASSUME NEW h \in Handle,
             ResetHandle(h) \/ \E g \in Handle : CopyHandle(h, g) \/ MoveHandle(h, g)
      PROVE  Nodes'
  <2>1. /\ UNCHANGED <<ran, scheduled, node, cache, astate, walked, edges, join, pred>>
        /\ \A k \in Handle : handle'[k] \in {handle[g] : g \in Handle} \cup {NoTask}
    <3>1. PICK g \in Handle : \/ handle' = [handle EXCEPT ![h] = NoTask]
                              \/ handle' = [handle EXCEPT ![h] = handle[g]]
                              \/ handle' = [handle EXCEPT ![h] = handle[g], ![g] = NoTask]
      BY <1>3 DEF ResetHandle, CopyHandle, MoveHandle
    <3>2. \A k \in Handle : handle'[k] \in {handle[k], handle[g], NoTask} BY <1>1, <3>1 DEF TypeOK
    <3>3. UNCHANGED <<ran, scheduled, node, cache, astate, walked, edges, join, pred>>
      BY <1>3 DEF ResetHandle, CopyHandle, MoveHandle, workerVars
    <3> QED BY <3>2, <3>3
  <2>2. \A t \in Task : Placed(t)' BY <1>2, <2>1, PlacedKept
  <2>3. \A t \in Task : astate[t] = "none" => \A k \in Handle : handle'[k] # t
    BY <1>1, <1>2, <2>1 DEF Nowhere
  <2> QED BY <1>2, <2>1, <2>2, <2>3, NodesKept DEF Nowhere
<1>4. ASSUME NEW c \in Client, \E h \in Handle : CountOff(c, h) PROVE Nodes'
  <2>1. /\ UNCHANGED <<ran, scheduled, node, cache, astate, walked, edges, handle, pred>>
        /\ join' = [join EXCEPT ![made[c]] = @ - 1] /\ made[c] \in Task /\ astate[made[c]] # "none"
    BY <1>4, Refers DEF CountOff, workerVars
  <2>2. \A t \in Task : Placed(t)' BY <1>2, <2>1, PlacedKept
  <2>3. \A t \in Task : astate[t] = "none" => join'[t] = join[t] BY <1>1, <2>1 DEF TypeOK
  <2> QED BY <1>2, <2>1, <2>2, <2>3, NodesKept DEF Nowhere
<1>5. ASSUME NEW c \in Client, Discard(c) \/ \E h \in Handle : ReturnTo(c, h) PROVE Nodes'
  <2>1. /\ UNCHANGED <<ran, scheduled, node, cache, astate, walked, edges, join, pred>>
        /\ \A k \in Handle : handle'[k] = handle[k] \/ handle'[k] = made[c]
        /\ made[c] \in Task /\ astate[made[c]] # "none"
    BY <1>1, <1>5, Refers DEF Discard, ReturnTo, workerVars, TypeOK
  <2>2. \A t \in Task : Placed(t)' BY <1>2, <2>1, PlacedKept
  <2>3. \A t \in Task : astate[t] = "none" => \A k \in Handle : handle'[k] # t
    BY <1>2, <2>1 DEF Nowhere
  <2> QED BY <1>2, <2>1, <2>2, <2>3, NodesKept DEF Nowhere
<1>6. ASSUME NEW c \in Client, ScheduleIfReady(c) PROVE Nodes'
  <2>1. PICK t \in Task : /\ t = made[c] /\ astate[t] # "none"
                          /\ scheduled' = [scheduled EXCEPT ![t] = @ + 1] \/ scheduled' = scheduled
                          /\ scheduled' = scheduled \/ Claimed(t)
                          /\ UNCHANGED <<ran, node, cache, astate, walked, edges, join, pred, handle>>
    BY <1>6, Refers DEF ScheduleIfReady, Claimed, workerVars
  <2>2. ASSUME NEW u \in Task PROVE Placed(u)'
    <3>1. CASE scheduled'[u] = scheduled[u] BY <1>2, <2>1, <3>1 DEF Placed, OneHolder
    <3>2. CASE scheduled'[u] # scheduled[u]
      <4>1. u = t /\ scheduled'[t] = scheduled[t] + 1 /\ Claimed(t) BY <1>1, <2>1, <3>2 DEF TypeOK
      <4>2. scheduled'[u] = 1 /\ u \notin ran /\ \A w \in Worker : node[w] # u /\ cache[w] # u
        BY <4>1, NotTakenUp
      <4> QED BY <1>2, <2>1, <4>2 DEF Placed, OneHolder
    <3> QED BY <3>1, <3>2
  <2>3. \A u \in Task : astate[u] = "none" => scheduled'[u] = scheduled[u] BY <1>1, <2>1 DEF TypeOK
  <2> QED BY <1>2, <2>1, <2>2, <2>3, NodesKept DEF Nowhere
<1>7. ASSUME NEW c \in Client, Create(c) PROVE Nodes'
  <2>1. PICK t \in Task, hs \in SUBSET Handle :
          /\ astate[t] = "none"
          /\ astate' = [astate EXCEPT ![t] = "unfinished"]
          /\ join' = [join EXCEPT ![t] = Cardinality(hs)]
          /\ pred' = [pred EXCEPT ![t] = {handle[h] : h \in hs} \ {NoTask}]
    BY <1>7 DEF Create, Fresh, Created
  <2>2. UNCHANGED <<ran, scheduled, node, cache, walked, edges, handle>>
    BY <1>7 DEF Create, workerVars
  <2>3. \A u \in Task : Placed(u)' BY <1>2, <2>2, PlacedKept
  <2>4. \A u \in Task : u # t => astate'[u] = astate[u] /\ join'[u] = join[u] /\ pred'[u] = pred[u]
    BY <1>1, <2>1 DEF TypeOK
  <2>5. astate'[t] = "unfinished" BY <1>1, <2>1 DEF TypeOK
  <2>6. ASSUME NEW u \in Task PROVE NodeOK(u)'
    <3>1. CASE u = t BY <1>2, <2>2, <2>3, <2>5, <3>1 DEF NodeOK, Placed
    <3>2. CASE u # t
      <4>1. (astate[u] = "none" => Nowhere(u))' BY <1>2, <2>2, <2>4, <3>2 DEF Nowhere
      <4> QED BY <1>2, <2>2, <2>3, <2>4, <3>2, <4>1 DEF NodeOK, Placed
    <3> QED BY <3>1, <3>2
  <2> QED BY <2>6 DEF Nodes
<1>8. ASSUME NEW c \in Client, NEW h \in Handle, Lock(c, h) PROVE Nodes'
  <2>1. /\ handle[h] \in Task /\ astate[handle[h]] = "unfinished"
        /\ astate' = [astate EXCEPT ![handle[h]] = "locked"]
        /\ UNCHANGED <<ran, scheduled, node, cache, walked, edges, join, pred, handle>>
    BY <1>1, <1>8 DEF Lock, workerVars, TypeOK
  <2>2. \A u \in Task : Placed(u)' BY <1>2, <2>1, PlacedKept
  <2>3. \A u \in Task : /\ astate'[u] = "none" <=> astate[u] = "none"
                        /\ astate'[u] = "finished" => astate[u] = "finished"
    BY <1>1, <2>1 DEF TypeOK
  <2> QED BY <1>2, <2>1, <2>2, <2>3, NodesKept DEF Nowhere
<1>9. ASSUME NEW c \in Client, Link(c) PROVE Nodes'
  <2>1. PICK p \in Task, m \in Task :
           /\ p = handle[link[c]] /\ m = made[c] /\ astate[p] = "locked"
           /\ astate' = [astate EXCEPT ![p] = "unfinished"]
           /\ edges' = [edges EXCEPT ![p] = Append(@, m)]
           /\ UNCHANGED <<ran, scheduled, node, cache, walked, join, pred, handle>>
    BY <1>1, <1>9, Refers DEF Link, Clients, ClientOK, workerVars
  <2>2. \A u \in Task : Placed(u)' BY <1>2, <2>1, PlacedKept
  <2>3. \A u \in Task : /\ astate'[u] = "none" <=> astate[u] = "none"
                        /\ astate'[u] = "finished" => astate[u] = "finished"
    BY <1>1, <2>1 DEF TypeOK
  <2>4. ASSUME NEW u \in Task PROVE walked[u] <= Len(edges'[u])
    <3>1. edges[u] \in Seq(Task) /\ walked[u] \in Nat /\ walked[u] <= Len(edges[u])
      BY <1>1, <1>2 DEF TypeOK
    <3>2. edges'[u] = edges[u] \/ edges'[u] = Append(edges[u], m) BY <1>1, <2>1 DEF TypeOK
    <3> QED BY <3>1, <3>2
  <2> QED BY <1>2, <2>1, <2>2, <2>3, <2>4, NodesKept DEF Nowhere
<1>10. ASSUME NEW w \in Worker, NEW t \in Task, Pick(w, t) PROVE Nodes'
  <2>1. /\ node' = [node EXCEPT ![w] = t] /\ scheduled' = [scheduled EXCEPT ![t] = @ - 1]
        /\ scheduled[t] > 0
        /\ UNCHANGED <<ran, cache, astate, walked, edges, join, pred, handle>>
    BY <1>10 DEF Pick, clientVars
  <2>2. /\ scheduled[t] = 1 /\ t \notin ran
        /\ \A v \in Worker : node[v] # t /\ cache[v] # t BY <1>1, <1>2, <2>1 DEF Placed, TypeOK
  <2>3. /\ scheduled'[t] = 0 /\ node'[w] = t
        /\ \A u \in Task : u # t => scheduled'[u] = scheduled[u]
        /\ \A v \in Worker : v # w => node'[v] = node[v] BY <1>1, <2>1, <2>2 DEF TypeOK
  <2>4. ASSUME NEW u \in Task PROVE Placed(u)'
    <3>1. CASE u = t BY <2>1, <2>2, <2>3, <3>1 DEF Placed, OneHolder
    <3>2. CASE u # t BY <1>2, <2>1, <2>3, <3>2 DEF Placed, OneHolder
    <3> QED BY <3>1, <3>2
  <2> QED BY <1>2, <2>1, <2>3, <2>4, NodesKept DEF Nowhere
<1>11. ASSUME NEW w \in Worker, Work(w) PROVE Nodes'
  <2>1. PICK t \in Task : /\ t = node[w] /\ astate[t] # "none" /\ ran' = ran \cup {t}
                          /\ UNCHANGED <<scheduled, node, cache, astate, walked, edges, join, pred, handle>>
    BY <1>11, Refers DEF Work, clientVars
  <2>2. scheduled[t] = 0 /\ \A v \in Worker : cache[v] # t BY <1>2, <2>1 DEF Placed, OneHolder
  <2>3. ASSUME NEW u \in Task PROVE Placed(u)' BY <1>2, <2>1, <2>2 DEF Placed, OneHolder
  <2> QED BY <1>2, <2>1, <2>3, NodesKept DEF Nowhere
<1>12. ASSUME NEW w \in Worker, Finish(w) PROVE Nodes'
  <2>1. PICK t \in Task : /\ t = node[w] /\ astate[t] # "none" /\ t \in ran
                          /\ astate' = [astate EXCEPT ![t] = "finished"]
                          /\ UNCHANGED <<ran, scheduled, node, cache, walked, edges, join, pred, handle>>
    BY <1>1, <1>12, Refers DEF Finish, clientVars, Workers, WorkerOK
  <2>2. \A u \in Task : Placed(u)' BY <1>2, <2>1, PlacedKept
  <2>3. \A u \in Task : /\ astate'[u] = "none" <=> astate[u] = "none"
                        /\ astate'[u] = "finished" => astate[u] = "finished" \/ u = t
    BY <1>1, <2>1 DEF TypeOK
  <2> QED BY <1>2, <2>1, <2>2, <2>3, NodesKept DEF Nowhere
<1>13. ASSUME NEW w \in Worker, Walk(w) PROVE Nodes'
  <2>1. PICK t \in Task, s \in Task :
           /\ walked[t] < Len(edges[t]) /\ walked' = [walked EXCEPT ![t] = @ + 1]
           /\ join[s] # 0 /\ join' = [join EXCEPT ![s] = @ - 1]
           /\ IF join[s] = 1 THEN UpdateCache(w, s) ELSE UNCHANGED <<cache, scheduled>>
           /\ UNCHANGED <<ran, node, astate, edges, pred, handle>>
    <3>1. node[w] \in Task /\ walked[node[w]] < Len(edges[node[w]]) BY <1>13, Refers DEF Walk
    <3>2. PICK s \in Task : s = edges[node[w]][walked[node[w]] + 1] /\ join[s] # 0
      BY <3>1, CountedOff
    <3> QED BY <1>13, <3>1, <3>2 DEF Walk
  <2>2. /\ scheduled[s] = 0 /\ s \notin ran /\ \A v \in Worker : node[v] # s /\ cache[v] # s
        /\ astate[s] # "none" BY <1>2, <2>1, NotTakenUp DEF Nowhere
  <2>3. \A u \in Task : Placed(u)' /\ (astate[u] = "none" => scheduled'[u] = 0)
    <3>1. CASE UNCHANGED <<cache, scheduled>> BY <1>2, <2>1, <3>1, PlacedKept DEF Nowhere
    <3>2. CASE UpdateCache(w, s) /\ cache[w] = NoTask
      <4>1. /\ scheduled' = scheduled /\ cache'[w] = s
            /\ \A v \in Worker : v # w => cache'[v] = cache[v] BY <1>1, <3>2 DEF UpdateCache, TypeOK
      <4>2. ASSUME NEW u \in Task PROVE Placed(u)'
        <5>1. CASE u = s BY <2>1, <2>2, <4>1, <5>1 DEF Placed, OneHolder
        <5>2. CASE u # s BY <1>2, <2>1, <4>1, <5>2 DEF Placed, OneHolder
        <5> QED BY <5>1, <5>2
      <4> QED BY <1>2, <4>1, <4>2 DEF Nowhere
    <3>3. CASE UpdateCache(w, s) /\ cache[w] # NoTask
      <4>1. PICK k \in Task : k = cache[w] /\ k # s /\ astate[k] # "none"
        BY <1>1, <2>2, <3>3 DEF TypeOK, Workers, WorkerOK, Created
      <4>2. /\ scheduled[k] = 0 /\ k \notin ran /\ \A v \in Worker : node[v] # k
            /\ \A v \in Worker : v # w => cache[v] # k BY <1>2, <4>1 DEF Placed, OneHolder
      <4>3. /\ scheduled'[k] = 1 /\ \A u \in Task : u # k => scheduled'[u] = scheduled[u]
            /\ cache'[w] = s /\ \A v \in Worker : v # w => cache'[v] = cache[v]
        BY <1>1, <3>3, <4>1, <4>2 DEF UpdateCache, TypeOK
      <4>4. ASSUME NEW u \in Task PROVE Placed(u)'
        <5>1. CASE u = s BY <2>1, <2>2, <4>1, <4>3, <5>1 DEF Placed, OneHolder
        <5>2. CASE u = k BY <2>1, <4>1, <4>2, <4>3, <5>2 DEF Placed, OneHolder
        <5>3. CASE u # s /\ u # k BY <1>2, <2>1, <4>1, <4>3, <5>3 DEF Placed, OneHolder
        <5> QED BY <5>1, <5>2, <5>3
      <4> QED BY <1>2, <4>1, <4>3, <4>4 DEF Nowhere
    <3> QED BY <2>1, <3>1, <3>2, <3>3
  <2>4. \A u \in Task : astate[u] = "none" => join'[u] = join[u] BY <1>1, <2>1, <2>2 DEF TypeOK
  <2>5. ASSUME NEW u \in Task PROVE walked'[u] <= Len(edges'[u])
    <3>1. edges[u] \in Seq(Task) /\ walked[u] \in Nat /\ walked[u] <= Len(edges[u])
      BY <1>1, <1>2 DEF TypeOK
    <3>2. walked'[u] = walked[u] \/ (u = t /\ walked'[u] = walked[u] + 1) BY <1>1, <2>1 DEF TypeOK
    <3> QED BY <2>1, <3>1, <3>2
  <2> QED BY <1>2, <2>1, <2>3, <2>4, <2>5, NodesKept DEF Nowhere
<1>14. ASSUME NEW w \in Worker, EndWalk(w) \/ DecrementTopology(w) PROVE Nodes'
  <2>1. UNCHANGED <<ran, scheduled, node, cache, astate, walked, edges, join, pred, handle>>
    BY <1>14 DEF EndWalk, DecrementTopology
  <2>2. \A u \in Task : Placed(u)' BY <1>2, <2>1, PlacedKept
  <2> QED BY <1>2, <2>1, <2>2, NodesKept DEF Nowhere
<1>15. ASSUME NEW w \in Worker, Release(w) PROVE Nodes'
  <2>1. /\ node' = [node EXCEPT ![w] = cache[w]] /\ cache' = [cache EXCEPT ![w] = NoTask]
        /\ UNCHANGED <<ran, scheduled, astate, walked, edges, join, pred, handle>>
    BY <1>15 DEF Release
  <2>2. /\ node'[w] = cache[w] /\ cache'[w] = NoTask
        /\ \A v \in Worker : v # w => node'[v] = node[v] /\ cache'[v] = cache[v]
    BY <1>1, <2>1 DEF TypeOK
  <2>3. ASSUME NEW u \in Task PROVE Placed(u)'
    <3>1. Placed(u) /\ u # NoTask BY <1>1, <1>2
    <3>2. OneHolder(u)' BY <2>2, <3>1 DEF Placed, OneHolder
    <3> QED BY <2>1, <2>2, <3>1, <3>2 DEF Placed
  <2> QED BY <1>2, <2>1, <2>3, NodesKept DEF Nowhere
<1> QED BY <1>3, <1>4, <1>5, <1>6, <1>7, <1>8, <1>9, <1>10, <1>11, <1>12, <1>13, <1>14, <1>15
     DEF Next, ClientStep, WorkerStep, UseHandles

----------------------------------------------------------------------------
(* Join counters *)

\* A predecessor that its creator has gone through.
LEMMA TodoStep ==
    ASSUME TypeOK, Clients, NEW c \in Client, NEW m \in Task, made[c] = m, made' = made,
           NEW h \in todo[c], todo' = [todo EXCEPT ![c] = @ \ {h}]
    PROVE  /\ h \in Unprocessed(m) /\ Unprocessed(m)' = Unprocessed(m) \ {h}
           /\ \A u \in Task : u # m => Unprocessed(u)' = Unprocessed(u)
<1>1. \A d \in Client : made[d] = m => d = c BY DEF Clients, ClientOK
<1>2. todo[c] \in SUBSET Handle BY DEF TypeOK
<1>3. todo'[c] = todo[c] \ {h} /\ \A d \in Client : d # c => todo'[d] = todo[d] BY DEF TypeOK
<1>4. Unprocessed(m) = todo[c] BY <1>2, TodoOf
<1>5. Unprocessed(m)' = todo[c] \ {h} BY <1>1, <1>2, <1>3 DEF Unprocessed
<1>6. ASSUME NEW u \in Task, u # m PROVE Unprocessed(u)' = Unprocessed(u)
  <2>1. \A d \in Client : made[d] = u => todo'[d] = todo[d] BY <1>3, <1>6
  <2> QED BY <2>1 DEF Unprocessed
<1> QED BY <1>4, <1>5, <1>6

\* A successor that is added to the edges of a node.
LEMMA PendingMore ==
    ASSUME TypeOK, NEW p \in Task, NEW m \in Task, walked[p] <= Len(edges[p]),
           walked' = walked, edges' = [edges EXCEPT ![p] = Append(@, m)]
    PROVE  /\ <<p, Len(edges[p]) + 1>> \notin Pending(m)
           /\ Pending(m)' = Pending(m) \cup {<<p, Len(edges[p]) + 1>>}
           /\ \A u \in Task : u # m => Pending(u)' = Pending(u)
<1>1. /\ edges[p] \in Seq(Task) /\ Len(edges[p]) \in Nat /\ \A q \in Task : walked[q] \in Nat
      /\ edges \in [Task -> Seq(Task)] BY DEF TypeOK
<1>2. /\ edges'[p] = Append(edges[p], m) /\ \A q \in Task : q # p => edges'[q] = edges[q] BY <1>1
<1>3. /\ Len(edges'[p]) = Len(edges[p]) + 1 /\ edges'[p][Len(edges[p]) + 1] = m
      /\ \A i \in 1 .. Len(edges[p]) : edges'[p][i] = edges[p][i] BY <1>1, <1>2
<1>4. <<p, Len(edges[p]) + 1>> \notin Pending(m)
  <2>1. Len(edges[p]) + 1 \notin walked[p] + 1 .. Len(edges[p]) BY <1>1
  <2> QED BY <2>1, PendingAt
<1>5. ASSUME NEW u \in Task, NEW e
      PROVE  e \in Pending(u)' <=> e \in Pending(u) \/ (u = m /\ e = <<p, Len(edges[p]) + 1>>)
  <2>1. e \in Pending(u)' <=> \E q \in Task : \E i \in walked'[q] + 1 .. Len(edges'[q]) :
                                 e = <<q, i>> /\ edges'[q][i] = u
    BY PendingIsNext, Zenon DEF Pending
  <2>2. e \in Pending(u) <=> \E q \in Task : \E i \in walked[q] + 1 .. Len(edges[q]) :
                                e = <<q, i>> /\ edges[q][i] = u BY PendingIs
  <2>3. ASSUME NEW i
        PROVE  i \in walked[p] + 1 .. Len(edges'[p]) /\ edges'[p][i] = u <=>
                 \/ i \in walked[p] + 1 .. Len(edges[p]) /\ edges[p][i] = u
                 \/ i = Len(edges[p]) + 1 /\ u = m
    <3>1. i \in walked[p] + 1 .. Len(edges'[p]) <=>
            i \in walked[p] + 1 .. Len(edges[p]) \/ i = Len(edges[p]) + 1 BY <1>1, <1>3
    <3>2. i \in walked[p] + 1 .. Len(edges[p]) => i \in 1 .. Len(edges[p]) BY <1>1
    <3> QED BY <1>3, <3>1, <3>2
  <2>4. ASSUME NEW q \in Task, q # p, NEW i
        PROVE  i \in walked[q] + 1 .. Len(edges'[q]) /\ edges'[q][i] = u <=>
                 i \in walked[q] + 1 .. Len(edges[q]) /\ edges[q][i] = u BY <1>2, <2>4
  <2>5. ASSUME NEW q \in Task, NEW i
        PROVE  /\ e = <<q, i>> /\ i \in walked'[q] + 1 .. Len(edges'[q]) /\ edges'[q][i] = u <=>
                 \/ e = <<q, i>> /\ i \in walked[q] + 1 .. Len(edges[q]) /\ edges[q][i] = u
                 \/ q = p /\ i = Len(edges[p]) + 1 /\ u = m /\ e = <<q, i>> BY <2>3, <2>4
  <2>6. /\ Len(edges[p]) + 1 \in walked'[p] + 1 .. Len(edges'[p])
        /\ edges'[p][Len(edges[p]) + 1] = m BY <1>1, <1>3
  <2>7. ASSUME e \in Pending(u)' PROVE e \in Pending(u) \/ (u = m /\ e = <<p, Len(edges[p]) + 1>>)
    BY <2>1, <2>2, <2>5, <2>7
  <2>8. ASSUME e \in Pending(u) PROVE e \in Pending(u)'
    <3>1. PICK q \in Task : \E i \in walked[q] + 1 .. Len(edges[q]) : e = <<q, i>> /\ edges[q][i] = u
      BY <2>2, <2>8
    <3>3. PICK i \in walked[q] + 1 .. Len(edges[q]) : e = <<q, i>> /\ edges[q][i] = u BY <3>1
    <3>2. i \in walked'[q] + 1 .. Len(edges'[q]) /\ edges'[q][i] = u BY <2>5, <3>3
    <3> QED BY <2>1, <3>2, <3>3
  <2>9. u = m /\ e = <<p, Len(edges[p]) + 1>> => e \in Pending(u)' BY <2>1, <2>6
  <2> QED BY <2>7, <2>8, <2>9
<1> QED BY <1>4, <1>5

\* A successor that the tear-down of a node counts off.
LEMMA PendingLess ==
    ASSUME TypeOK, NEW t \in Task, walked[t] < Len(edges[t]), NEW s \in Task,
           s = edges[t][walked[t] + 1], walked' = [walked EXCEPT ![t] = @ + 1], edges' = edges
    PROVE  /\ <<t, walked[t] + 1>> \in Pending(s)
           /\ Pending(s)' = Pending(s) \ {<<t, walked[t] + 1>>}
           /\ \A u \in Task : u # s => Pending(u)' = Pending(u)
<1>1. Len(edges[t]) \in Nat /\ walked \in [Task -> Nat] /\ walked[t] \in Nat
  <2>1. edges[t] \in Seq(Task) /\ walked \in [Task -> Nat] BY DEF TypeOK
  <2> QED BY <2>1
<1>2. walked'[t] = walked[t] + 1 /\ \A q \in Task : q # t => walked'[q] = walked[q] BY <1>1
<1>3. <<t, walked[t] + 1>> \in Pending(s)
  <2>1. walked[t] + 1 \in walked[t] + 1 .. Len(edges[t]) BY <1>1
  <2> QED BY <2>1, PendingAt
<1>4. ASSUME NEW u \in Task, NEW e
      PROVE  e \in Pending(u)' <=> e \in Pending(u) /\ e # <<t, walked[t] + 1>>
  <2>1. e \in Pending(u)' <=> \E q \in Task : \E i \in walked'[q] + 1 .. Len(edges[q]) :
                                 e = <<q, i>> /\ edges[q][i] = u BY DEF Pending
  <2>2. e \in Pending(u) <=> \E q \in Task : \E i \in walked[q] + 1 .. Len(edges[q]) :
                                e = <<q, i>> /\ edges[q][i] = u BY PendingIs
  <2>3. ASSUME NEW i
        PROVE  i \in walked'[t] + 1 .. Len(edges[t]) <=>
                 i \in walked[t] + 1 .. Len(edges[t]) /\ i # walked[t] + 1 BY <1>1, <1>2
  <2>4. ASSUME NEW q \in Task, q # t, NEW i
        PROVE  i \in walked'[q] + 1 .. Len(edges[q]) <=> i \in walked[q] + 1 .. Len(edges[q])
    BY <1>2, <2>4
  <2>5. ASSUME NEW q \in Task, NEW i
        PROVE  /\ i \in walked'[q] + 1 .. Len(edges[q]) <=>
                    i \in walked[q] + 1 .. Len(edges[q]) /\ <<q, i>> # <<t, walked[t] + 1>>
    BY <2>3, <2>4
  <2> QED BY <2>1, <2>2, <2>5
<1>5. ASSUME NEW u \in Task, u # s PROVE <<t, walked[t] + 1>> \notin Pending(u) BY <1>5, PendingAt
<1> QED BY <1>3, <1>4, <1>5

\* A step that goes through no predecessor and no successor.
LEMMA JoinsKept ==
    ASSUME IInv, UNCHANGED <<join, walked, edges>>,
           \A t \in Task : Unprocessed(t)' = Unprocessed(t)
    PROVE  Joins'
<1>1. \A t \in Task : Pending(t)' = Pending(t) BY DEF Pending
<1> QED BY <1>1 DEF IInv, Joins

\* A call that returns has gone through all its predecessors.
LEMMA TodoSame ==
    ASSUME NEW c \in Client, TypeOK, todo' = todo, todo[c] = {}, NEW x,
           made' = [made EXCEPT ![c] = x]
    PROVE  \A t \in Task : Unprocessed(t)' = Unprocessed(t)
<1>1. \A d \in Client : d # c => made'[d] = made[d] BY DEF TypeOK
<1>2. ASSUME NEW t \in Task, NEW d \in Client, NEW h \in Handle
      PROVE  made'[d] = t /\ h \in todo[d] <=> made[d] = t /\ h \in todo[d] BY <1>1
<1> QED BY <1>2 DEF Unprocessed

\* A step counts off what it goes through, and nothing else: a client that links moves
\* its predecessor from its list to the edges of the node.
LEMMA JoinsNext == ASSUME IInv, Next PROVE Joins'
<1>1. TypeOK /\ Clients /\ IsFiniteSet(Handle) BY Sets DEF IInv
<1>2. /\ \A t \in Task : IsFiniteSet(Pending(t)) /\ IsFiniteSet(Unprocessed(t))
      /\ \A t \in Task : join[t] = Cardinality(Unprocessed(t)) + Cardinality(Pending(t))
      /\ \A t \in Task : Cardinality(Pending(t)) \in Nat /\ Cardinality(Unprocessed(t)) \in Nat
  <2>1. \A t \in Task : Unprocessed(t) \in SUBSET Handle BY DEF Unprocessed
  <2>2. \A t \in Task : IsFiniteSet(Pending(t)) /\ IsFiniteSet(Unprocessed(t))
    BY <2>1, Sets DEF IInv, Joins
  <2> QED BY <2>2, NotNone DEF IInv, Joins
<1>3. ASSUME UNCHANGED <<join, walked, edges, made, todo>> PROVE Joins'
  <2>1. \A t \in Task : Unprocessed(t)' = Unprocessed(t) BY <1>3 DEF Unprocessed
  <2> QED BY <1>3, <2>1, JoinsKept
<1>4. ASSUME NEW c \in Client, Create(c) PROVE Joins'
  <2>1. PICK t \in Task, hs \in SUBSET Handle :
          /\ astate[t] = "none"
          /\ join' = [join EXCEPT ![t] = Cardinality(hs)]
          /\ made' = [made EXCEPT ![c] = t] /\ todo' = [todo EXCEPT ![c] = hs]
    BY <1>4 DEF Create, Fresh, Created
  <2>2. UNCHANGED <<walked, edges>> /\ cpc[c] = "idle" BY <1>4 DEF Create
  <2>3. made[c] = NoTask /\ todo[c] = {} /\ \A d \in Client : made[d] # t
    BY <1>1, <2>1, <2>2, Sets DEF IInv, Clients, ClientOK, Created
  <2>4. /\ made'[c] = t /\ todo'[c] = hs
        /\ \A d \in Client : d # c => made'[d] = made[d] /\ todo'[d] = todo[d]
    BY <1>1, <2>1 DEF TypeOK
  <2>5. Unprocessed(t)' = hs BY <2>3, <2>4 DEF Unprocessed
  <2>6. ASSUME NEW u \in Task, u # t PROVE Unprocessed(u)' = Unprocessed(u)
    <3>1. ASSUME NEW d \in Client, NEW h \in Handle
          PROVE  made'[d] = u /\ h \in todo'[d] <=> made[d] = u /\ h \in todo[d] BY <2>3, <2>4, <2>6
    <3> QED BY <3>1 DEF Unprocessed
  <2>7. Pending(t) = {}
    <3>1. join[t] = 0 BY <2>1 DEF IInv, Nodes, NodeOK, Nowhere
    <3> QED BY <3>1, NothingLeft
  <2>8. \A u \in Task : Pending(u)' = Pending(u) BY <2>2 DEF Pending
  <2>9. Cardinality(hs) \in Nat /\ Cardinality(Pending(t)) = 0 BY <2>7, Sets, FS_EmptySet DEF IInv
  <2>10. join'[t] = Cardinality(hs) /\ \A u \in Task : u # t => join'[u] = join[u]
    BY <1>1, <2>1 DEF TypeOK
  <2>11. ASSUME NEW u \in Task
         PROVE  join'[u] = Cardinality(Unprocessed(u)') + Cardinality(Pending(u)')
    <3>1. CASE u = t BY <2>5, <2>8, <2>9, <2>10, <3>1
    <3>2. CASE u # t BY <1>2, <2>6, <2>8, <2>10, <3>2
    <3> QED BY <3>1, <3>2
  <2> QED BY <1>2, <2>8, <2>11 DEF Joins
<1>5. ASSUME NEW c \in Client, NEW h \in Handle, CountOff(c, h) PROVE Joins'
  <2>1. PICK m \in Task : m = made[c] BY <1>5, Refers DEF CountOff
  <2>2. /\ h \in todo[c] /\ todo' = [todo EXCEPT ![c] = @ \ {h}]
        /\ join' = [join EXCEPT ![m] = @ - 1] /\ UNCHANGED <<made, walked, edges>>
    BY <1>5, <2>1 DEF CountOff
  <2>3. h \in Unprocessed(m) /\ Unprocessed(m)' = Unprocessed(m) \ {h} BY <1>1, <2>1, <2>2, TodoStep
  <2>4. \A u \in Task : u # m => Unprocessed(u)' = Unprocessed(u) BY <1>1, <2>1, <2>2, TodoStep
  <2>5. \A u \in Task : Pending(u)' = Pending(u) BY <2>2 DEF Pending
  <2>6. join'[m] = join[m] - 1 /\ \A u \in Task : u # m => join'[u] = join[u]
    BY <1>1, <2>2 DEF TypeOK
  <2>7. Cardinality(Unprocessed(m)') = Cardinality(Unprocessed(m)) - 1 BY <1>2, <2>3, OneLess
  <2>8. join'[m] = Cardinality(Unprocessed(m)') + Cardinality(Pending(m)') BY <1>2, <2>5, <2>6, <2>7
  <2> QED BY <1>2, <2>4, <2>5, <2>6, <2>8 DEF Joins
<1>6. ASSUME NEW c \in Client, Link(c) PROVE Joins'
  <2>1. PICK m \in Task, p \in Task, h \in Handle :
           m = made[c] /\ h = link[c] /\ p = handle[h] /\ h \in todo[c]
    BY <1>1, <1>6, Refers DEF Link, Clients, ClientOK, TypeOK
  <2>2. /\ todo' = [todo EXCEPT ![c] = @ \ {h}] /\ edges' = [edges EXCEPT ![p] = Append(@, m)]
        /\ UNCHANGED <<made, walked, join>> BY <1>6, <2>1 DEF Link
  <2>3. walked[p] <= Len(edges[p]) BY DEF IInv, Nodes, NodeOK
  <2>4. h \in Unprocessed(m) /\ Unprocessed(m)' = Unprocessed(m) \ {h} BY <1>1, <2>1, <2>2, TodoStep
  <2>5. \A u \in Task : u # m => Unprocessed(u)' = Unprocessed(u) BY <1>1, <2>1, <2>2, TodoStep
  <2>6. PICK e : e \notin Pending(m) /\ Pending(m)' = Pending(m) \cup {e}
    BY <1>1, <2>2, <2>3, PendingMore
  <2>7. \A u \in Task : u # m => Pending(u)' = Pending(u) BY <1>1, <2>2, <2>3, PendingMore
  <2>8. Cardinality(Unprocessed(m)') = Cardinality(Unprocessed(m)) - 1 BY <1>2, <2>4, OneLess
  <2>9. IsFiniteSet(Pending(m)') /\ Cardinality(Pending(m)') = Cardinality(Pending(m)) + 1
    BY <1>2, <2>6, OneMore
  <2>10. join[m] = Cardinality(Unprocessed(m)') + Cardinality(Pending(m)') BY <1>2, <2>8, <2>9
  <2> QED BY <1>2, <2>2, <2>5, <2>7, <2>9, <2>10 DEF Joins
<1>7. ASSUME NEW c \in Client, Discard(c) \/ \E h \in Handle : ReturnTo(c, h) PROVE Joins'
  <2>1. /\ UNCHANGED <<join, walked, edges, todo>> /\ made' = [made EXCEPT ![c] = NoTask]
        /\ todo[c] = {} BY <1>1, <1>7 DEF Discard, ReturnTo, Clients, ClientOK
  <2>2. \A t \in Task : Unprocessed(t)' = Unprocessed(t) BY <1>1, <2>1, TodoSame
  <2> QED BY <2>1, <2>2, JoinsKept
<1>8. ASSUME NEW w \in Worker, Walk(w) PROVE Joins'
  <2>1. PICK t \in Task : t = node[w] /\ walked[t] < Len(edges[t]) BY <1>8, Refers DEF Walk
  <2>2. PICK s \in Task : s = edges[t][walked[t] + 1] BY <2>1, CountedOff
  <2>3. /\ walked' = [walked EXCEPT ![t] = @ + 1] /\ join' = [join EXCEPT ![s] = @ - 1]
        /\ UNCHANGED <<made, todo, edges>> BY <1>8, <2>1, <2>2 DEF Walk, clientVars
  <2>4. PICK e \in Pending(s) : Pending(s)' = Pending(s) \ {e}
    BY <1>1, <2>1, <2>2, <2>3, PendingLess
  <2>5. \A u \in Task : u # s => Pending(u)' = Pending(u) BY <1>1, <2>1, <2>2, <2>3, PendingLess
  <2>6. \A u \in Task : Unprocessed(u)' = Unprocessed(u) BY <2>3 DEF Unprocessed
  <2>7. join'[s] = join[s] - 1 /\ \A u \in Task : u # s => join'[u] = join[u]
    BY <1>1, <2>3 DEF TypeOK
  <2>8. IsFiniteSet(Pending(s)') /\ Cardinality(Pending(s)') = Cardinality(Pending(s)) - 1
    BY <1>2, <2>4, OneLess
  <2>9. join'[s] = Cardinality(Unprocessed(s)') + Cardinality(Pending(s)') BY <1>2, <2>6, <2>7, <2>8
  <2> QED BY <1>2, <2>5, <2>6, <2>7, <2>8, <2>9 DEF Joins
<1>9. ASSUME UseHandles PROVE Joins'
  BY <1>3, <1>9 DEF UseHandles, ResetHandle, CopyHandle, MoveHandle, clientVars
<1>10. ASSUME NEW c \in Client, ScheduleIfReady(c) \/ \E h \in Handle : Lock(c, h) PROVE Joins'
  BY <1>3, <1>10 DEF ScheduleIfReady, Lock
<1>11. ASSUME NEW w \in Worker,
              \/ \E t \in Task : Pick(w, t)
              \/ Work(w) \/ Finish(w) \/ EndWalk(w) \/ DecrementTopology(w) \/ Release(w)
       PROVE  Joins'
  BY <1>3, <1>11 DEF Pick, Work, Finish, EndWalk, DecrementTopology, Release, clientVars
<1> QED BY <1>4, <1>5, <1>6, <1>7, <1>8, <1>9, <1>10, <1>11 DEF Next, ClientStep, WorkerStep

----------------------------------------------------------------------------
(* Ready tasks *)

\* A step that neither takes a task up nor counts it off.
LEMMA ReadyKept ==
    ASSUME NEW u, ReadyOK(u), TakenUp(u)' => TakenUp(u), Claimed(u)' => Claimed(u),
           join'[u] = join[u]
    PROVE  ReadyOK(u)'
BY DEF ReadyOK

\* A creator that keeps its task and its count claims what it has claimed before.
LEMMA ClaimedKept ==
    ASSUME UNCHANGED <<made, npred>>, NEW u,
           \A c \in Client : cpc'[c] \in {"process", "link"} => cpc[c] \in {"process", "link"}
    PROVE  Claimed(u)' => Claimed(u)
BY DEF Claimed

\* A step takes up only a task whose join counter is zero, and only one thread takes
\* it to zero.
LEMMA ReadyNext == ASSUME IInv, Next PROVE Ready'
<1>1. TypeOK /\ Clients /\ Workers /\ NoTask \notin Task BY Sets DEF IInv
<1>2. \A t \in Task : ReadyOK(t) BY DEF IInv, Ready
<1>3. ASSUME UNCHANGED <<ran, scheduled, node, cache, cpc, made, npred, join>> PROVE Ready'
  <2>1. ASSUME NEW u \in Task PROVE ReadyOK(u)'
    <3>1. (TakenUp(u)' => TakenUp(u)) /\ (Claimed(u)' => Claimed(u)) BY <1>3 DEF TakenUp, Claimed
    <3> QED BY <1>2, <1>3, <3>1, ReadyKept
  <2> QED BY <2>1 DEF Ready
<1>4. ASSUME NEW c \in Client, Create(c) PROVE Ready'
  <2>1. PICK t \in Task, hs \in SUBSET Handle :
          /\ astate[t] = "none"
          /\ join' = [join EXCEPT ![t] = Cardinality(hs)]
          /\ made' = [made EXCEPT ![c] = t] /\ npred' = [npred EXCEPT ![c] = Cardinality(hs)]
    BY <1>4 DEF Create, Fresh, Created
  <2>2. /\ UNCHANGED <<ran, scheduled, node, cache>> /\ cpc[c] = "idle"
        /\ cpc' = [cpc EXCEPT ![c] = "process"] BY <1>4 DEF Create, workerVars
  <2>3. \A d \in Client : made[d] # t BY <1>1, <2>1 DEF Clients, ClientOK, Created
  <2>4. /\ made'[c] = t /\ npred'[c] = Cardinality(hs) /\ join'[t] = Cardinality(hs)
        /\ \A d \in Client : d # c => made'[d] = made[d] /\ npred'[d] = npred[d] /\ cpc'[d] = cpc[d]
        /\ \A u \in Task : u # t => join'[u] = join[u] BY <1>1, <2>1, <2>2 DEF TypeOK
  <2>5. \A u \in Task : TakenUp(u)' => TakenUp(u) BY <2>2 DEF TakenUp
  <2>6. ~TakenUp(t)
    <3>1. Nowhere(t) BY <2>1 DEF IInv, Nodes, NodeOK
    <3>2. \A w \in Worker : node[w] # t /\ cache[w] # t BY <1>1, <2>1 DEF Workers, WorkerOK, Created
    <3> QED BY <3>1, <3>2 DEF TakenUp, Nowhere
  <2>7. ASSUME NEW u \in Task PROVE ReadyOK(u)'
    <3>1. CASE u = t
      <4>1. Claimed(t)' => join'[t] = 0 BY <2>3, <2>4 DEF Claimed
      <4> QED BY <2>5, <2>6, <3>1, <4>1 DEF ReadyOK
    <3>2. CASE u # t
      <4>1. Claimed(u)' => Claimed(u) BY <2>4, <3>2 DEF Claimed
      <4> QED BY <1>2, <2>4, <2>5, <3>2, <4>1, ReadyKept
    <3> QED BY <3>1, <3>2
  <2> QED BY <2>7 DEF Ready
<1>5. ASSUME NEW c \in Client, NEW h \in Handle, CountOff(c, h) PROVE Ready'
  <2>1. PICK m \in Task : m = made[c] /\ join[m] \in Nat \ {0} /\ cpc[c] = "process"
    BY <1>5, Refers, CountedOff DEF CountOff
  <2>2. /\ npred' = [npred EXCEPT ![c] = join[m] - 1] /\ join' = [join EXCEPT ![m] = @ - 1]
        /\ UNCHANGED <<ran, scheduled, node, cache, cpc, made>>
    BY <1>5, <2>1 DEF CountOff, workerVars
  <2>3. /\ npred'[c] = join[m] - 1 /\ \A d \in Client : d # c => npred'[d] = npred[d]
        /\ join'[m] = join[m] - 1 /\ \A u \in Task : u # m => join'[u] = join[u]
    BY <1>1, <2>1, <2>2 DEF TypeOK
  <2>4. \A u \in Task : TakenUp(u)' => TakenUp(u) BY <2>2 DEF TakenUp
  <2>5. \A d \in Client : d # c => made[d] # m BY <1>1, <2>1 DEF Clients, ClientOK
  <2>6. ASSUME NEW u \in Task PROVE ReadyOK(u)'
    <3>1. CASE u = m
      <4>1. ~TakenUp(m) BY <1>2, <2>1 DEF ReadyOK
      <4>2. Claimed(m)' => join'[m] = 0 BY <2>2, <2>3, <2>5 DEF Claimed
      <4> QED BY <2>4, <3>1, <4>1, <4>2 DEF ReadyOK
    <3>2. CASE u # m
      <4>1. Claimed(u)' => Claimed(u) BY <2>1, <2>2, <2>3, <3>2 DEF Claimed
      <4> QED BY <1>2, <2>3, <2>4, <3>2, <4>1, ReadyKept
    <3> QED BY <3>1, <3>2
  <2> QED BY <2>6 DEF Ready
<1>6. ASSUME NEW c \in Client, Link(c) \/ \E h \in Handle : Lock(c, h) PROVE Ready'
  <2>1. /\ UNCHANGED <<ran, scheduled, node, cache, made, npred, join>>
        /\ cpc[c] \in {"process", "link"}
        /\ cpc' = [cpc EXCEPT ![c] = "process"] \/ cpc' = [cpc EXCEPT ![c] = "link"]
    BY <1>6 DEF Link, Lock, workerVars
  <2>2. \A d \in Client : cpc'[d] \in {"process", "link"} => cpc[d] \in {"process", "link"}
    BY <1>1, <2>1 DEF TypeOK
  <2>3. ASSUME NEW u \in Task PROVE ReadyOK(u)'
    <3>1. TakenUp(u)' => TakenUp(u) BY <2>1 DEF TakenUp
    <3>2. Claimed(u)' => Claimed(u) BY <2>1, <2>2, ClaimedKept
    <3> QED BY <1>2, <2>1, <3>1, <3>2, ReadyKept
  <2> QED BY <2>3 DEF Ready
<1>7. ASSUME NEW c \in Client, ScheduleIfReady(c) PROVE Ready'
  <2>1. PICK m \in Task : m = made[c] BY <1>7, Refers DEF ScheduleIfReady
  <2>2. /\ scheduled' = IF npred[c] = 0 THEN [scheduled EXCEPT ![m] = @ + 1] ELSE scheduled
        /\ cpc[c] = "process" /\ cpc' = [cpc EXCEPT ![c] = "return"]
        /\ UNCHANGED <<ran, node, cache, made, npred, join>>
    BY <1>7, <2>1 DEF ScheduleIfReady, workerVars
  <2>3. cpc'[c] = "return" /\ \A d \in Client : d # c => cpc'[d] = cpc[d] BY <1>1, <2>2 DEF TypeOK
  <2>4. ASSUME NEW u \in Task PROVE Claimed(u)' => Claimed(u) /\ made[c] # u
    <3>1. ASSUME Claimed(u)' PROVE Claimed(u) /\ made[c] # u
      <4>1. PICK d \in Client : made[d] = u /\ cpc'[d] \in {"process", "link"} /\ npred[d] = 0
        BY <2>2, <3>1 DEF Claimed
      <4>2. d # c /\ cpc[d] \in {"process", "link"} BY <2>3, <4>1
      <4>3. made[c] # u BY <1>1, <4>1, <4>2 DEF Clients, ClientOK
      <4> QED BY <4>1, <4>2, <4>3 DEF Claimed
    <3> QED BY <3>1
  <2>5. ASSUME NEW u \in Task PROVE ReadyOK(u)'
    <3>1. CASE u = m /\ npred[c] = 0
      <4>1. Claimed(m) BY <2>1, <2>2, <3>1 DEF Claimed
      <4>2. join[m] = 0 BY <1>2, <4>1 DEF ReadyOK
      <4>3. ~Claimed(m)' BY <2>1, <2>4
      <4> QED BY <2>2, <3>1, <4>2, <4>3 DEF ReadyOK
    <3>2. CASE ~(u = m /\ npred[c] = 0)
      <4>1. scheduled'[u] = scheduled[u] BY <1>1, <2>2, <3>2 DEF TypeOK
      <4>2. TakenUp(u)' => TakenUp(u) BY <2>2, <4>1 DEF TakenUp
      <4> QED BY <1>2, <2>2, <2>4, <4>2, ReadyKept
    <3> QED BY <3>1, <3>2
  <2> QED BY <2>5 DEF Ready
<1>8. ASSUME NEW c \in Client, Discard(c) \/ \E h \in Handle : ReturnTo(c, h) PROVE Ready'
  <2>1. /\ UNCHANGED <<ran, scheduled, node, cache, join>>
        /\ cpc' = [cpc EXCEPT ![c] = "idle"] /\ made' = [made EXCEPT ![c] = NoTask]
        /\ npred' = [npred EXCEPT ![c] = 0] BY <1>8 DEF Discard, ReturnTo, workerVars
  <2>2. /\ cpc'[c] = "idle"
        /\ \A d \in Client : d # c => cpc'[d] = cpc[d] /\ made'[d] = made[d] /\ npred'[d] = npred[d]
    BY <1>1, <2>1 DEF TypeOK
  <2>3. ASSUME NEW u \in Task PROVE ReadyOK(u)'
    <3>1. TakenUp(u)' => TakenUp(u) BY <2>1 DEF TakenUp
    <3>2. Claimed(u)' => Claimed(u) BY <2>2 DEF Claimed
    <3> QED BY <1>2, <2>1, <3>1, <3>2, ReadyKept
  <2> QED BY <2>3 DEF Ready
<1>9. ASSUME NEW w \in Worker, NEW t \in Task, Pick(w, t) PROVE Ready'
  <2>1. /\ node' = [node EXCEPT ![w] = t] /\ scheduled' = [scheduled EXCEPT ![t] = @ - 1]
        /\ scheduled[t] > 0 /\ UNCHANGED <<ran, cache, join, cpc, made, npred>>
    BY <1>9 DEF Pick, clientVars
  <2>2. /\ \A u \in Task : u # t => scheduled'[u] = scheduled[u]
        /\ \A v \in Worker : node'[v] = t \/ node'[v] = node[v] BY <1>1, <2>1 DEF TypeOK
  <2>3. ASSUME NEW u \in Task PROVE ReadyOK(u)'
    <3>1. TakenUp(t) BY <2>1 DEF TakenUp
    <3>2. u # t => (TakenUp(u)' => TakenUp(u)) BY <2>1, <2>2 DEF TakenUp
    <3>3. Claimed(u)' => Claimed(u) BY <2>1, ClaimedKept
    <3> QED BY <1>2, <2>1, <3>1, <3>2, <3>3, ReadyKept
  <2> QED BY <2>3 DEF Ready
<1>10. ASSUME NEW w \in Worker, Work(w) PROVE Ready'
  <2>1. ran' = ran \cup {node[w]} /\ UNCHANGED <<scheduled, node, cache, join, cpc, made, npred>>
    BY <1>10 DEF Work, clientVars
  <2>2. ASSUME NEW u \in Task PROVE ReadyOK(u)'
    <3>1. TakenUp(u)' => TakenUp(u) BY <2>1 DEF TakenUp
    <3>2. Claimed(u)' => Claimed(u) BY <2>1, ClaimedKept
    <3> QED BY <1>2, <2>1, <3>1, <3>2, ReadyKept
  <2> QED BY <2>2 DEF Ready
<1>11. ASSUME NEW w \in Worker, Walk(w) PROVE Ready'
  <2>1. PICK t \in Task : t = node[w] /\ walked[t] < Len(edges[t]) BY <1>11, Refers DEF Walk
  <2>2. PICK s \in Task : s = edges[t][walked[t] + 1] /\ join[s] \in Nat \ {0} BY <2>1, CountedOff
  <2>3. /\ join' = [join EXCEPT ![s] = @ - 1]
        /\ IF join[s] = 1 THEN UpdateCache(w, s) ELSE UNCHANGED <<cache, scheduled>>
        /\ UNCHANGED <<ran, node, cpc, made, npred>> BY <1>11, <2>1, <2>2 DEF Walk, clientVars
  <2>4. join'[s] = join[s] - 1 /\ \A u \in Task : u # s => join'[u] = join[u]
    BY <1>1, <2>3 DEF TypeOK
  <2>5. ~TakenUp(s) /\ ~Claimed(s) BY <1>2, <2>2 DEF ReadyOK
  <2>6. ASSUME NEW u \in Task PROVE Claimed(u)' => Claimed(u) BY <2>3, ClaimedKept
  <2>7. ASSUME NEW u \in Task, u # s PROVE TakenUp(u)' => TakenUp(u)
    <3>1. CASE UNCHANGED <<cache, scheduled>> BY <2>3, <3>1 DEF TakenUp
    <3>2. CASE UpdateCache(w, s)
      <4>1. \A v \in Worker : cache'[v] = s \/ cache'[v] = cache[v]
        BY <1>1, <3>2 DEF UpdateCache, TypeOK
      <4>2. scheduled'[u] = scheduled[u] \/ cache[w] = u BY <1>1, <3>2 DEF UpdateCache, TypeOK
      <4> QED BY <2>3, <2>7, <4>1, <4>2 DEF TakenUp
    <3> QED BY <2>3, <3>1, <3>2
  <2>8. ReadyOK(s)'
    <3>1. CASE join[s] = 1 BY <2>4, <2>5, <2>6, <3>1 DEF ReadyOK
    <3>2. CASE join[s] # 1
      <4>1. ~TakenUp(s)' BY <2>3, <2>5, <3>2 DEF TakenUp
      <4> QED BY <2>5, <2>6, <4>1 DEF ReadyOK
    <3> QED BY <3>1, <3>2
  <2>9. ASSUME NEW u \in Task, u # s PROVE ReadyOK(u)' BY <1>2, <2>4, <2>6, <2>7, <2>9, ReadyKept
  <2> QED BY <2>8, <2>9 DEF Ready
<1>12. ASSUME NEW w \in Worker, Release(w) PROVE Ready'
  <2>1. /\ node' = [node EXCEPT ![w] = cache[w]] /\ cache' = [cache EXCEPT ![w] = NoTask]
        /\ UNCHANGED <<ran, scheduled, join, cpc, made, npred>> BY <1>12 DEF Release, clientVars
  <2>2. /\ node'[w] = cache[w] /\ cache'[w] = NoTask
        /\ \A v \in Worker : v # w => node'[v] = node[v] /\ cache'[v] = cache[v]
    BY <1>1, <2>1 DEF TypeOK
  <2>3. ASSUME NEW u \in Task PROVE ReadyOK(u)'
    <3>1. TakenUp(u)' => TakenUp(u) BY <1>1, <2>1, <2>2 DEF TakenUp
    <3>2. Claimed(u)' => Claimed(u) BY <2>1, ClaimedKept
    <3> QED BY <1>2, <2>1, <3>1, <3>2, ReadyKept
  <2> QED BY <2>3 DEF Ready
<1>13. ASSUME UseHandles PROVE Ready'
  BY <1>3, <1>13 DEF UseHandles, ResetHandle, CopyHandle, MoveHandle, clientVars, workerVars
<1>14. ASSUME NEW w \in Worker, Finish(w) \/ EndWalk(w) \/ DecrementTopology(w) PROVE Ready'
  BY <1>3, <1>14 DEF Finish, EndWalk, DecrementTopology, clientVars
<1> QED BY <1>4, <1>5, <1>6, <1>7, <1>8, <1>9, <1>10, <1>11, <1>12, <1>13, <1>14
     DEF Next, ClientStep, WorkerStep

----------------------------------------------------------------------------
(* Predecessors *)

\* Nodes come and finish for good.
LEMMA NodesGrow ==
    ASSUME IInv, Next
    PROVE  \A p \in Task : /\ astate[p] = "finished" => astate'[p] = "finished"
                           /\ p \in Created => p \in Created'
<1>1. TypeOK /\ Clients BY DEF IInv
<1> SUFFICES \/ UNCHANGED astate
             \/ \E p \in Task : \E a \in {"unfinished", "locked", "finished"} :
                   astate[p] # "finished" /\ astate' = [astate EXCEPT ![p] = a]
  BY <1>1 DEF TypeOK, Created
<1>2. ASSUME NEW c \in Client, Create(c)
      PROVE  \E p \in Task : astate[p] # "finished" /\ astate' = [astate EXCEPT ![p] = "unfinished"]
  BY <1>2 DEF Create, Fresh, Created
<1>3. ASSUME NEW c \in Client, NEW h \in Handle, Lock(c, h)
      PROVE  \E p \in Task : astate[p] # "finished" /\ astate' = [astate EXCEPT ![p] = "locked"]
  BY <1>1, <1>3 DEF Lock, TypeOK
<1>4. ASSUME NEW c \in Client, Link(c)
      PROVE  \E p \in Task : astate[p] # "finished" /\ astate' = [astate EXCEPT ![p] = "unfinished"]
  BY <1>1, <1>4 DEF Link, Clients, ClientOK
<1>5. ASSUME NEW w \in Worker, Finish(w)
      PROVE  \E p \in Task : astate[p] # "finished" /\ astate' = [astate EXCEPT ![p] = "finished"]
  BY <1>5, Refers DEF Finish
<1>6. ASSUME NEW c \in Client,
             \/ \E h \in Handle : CountOff(c, h) \/ ReturnTo(c, h)
             \/ ScheduleIfReady(c) \/ Discard(c)
      PROVE  UNCHANGED astate BY <1>6 DEF CountOff, ReturnTo, ScheduleIfReady, Discard
<1>7. ASSUME NEW w \in Worker,
             \/ \E t \in Task : Pick(w, t)
             \/ Work(w) \/ Walk(w) \/ EndWalk(w) \/ DecrementTopology(w) \/ Release(w)
      PROVE  UNCHANGED astate BY <1>7 DEF Pick, Work, Walk, EndWalk, DecrementTopology, Release
<1>8. ASSUME UseHandles PROVE UNCHANGED astate
  BY <1>8 DEF UseHandles, ResetHandle, CopyHandle, MoveHandle
<1> QED BY <1>2, <1>3, <1>4, <1>5, <1>6, <1>7, <1>8 DEF Next, ClientStep, WorkerStep

\* A predecessor that is counted and stays so.
LEMMA StillCounted ==
    ASSUME IInv, Next, NEW t \in Task, NEW p \in Task, Settled(t, p),
           \A h \in Unprocessed(t) : h \in Unprocessed(t)' /\ handle'[h] = handle[h],
           \A e \in Pending(t) : e \in Pending(t)'
    PROVE  Settled(t, p)'
<1>1. CASE astate[p] = "finished" BY <1>1, NodesGrow DEF Settled
<1>2. CASE \E h \in Unprocessed(t) : handle[h] = p BY <1>2 DEF Settled
<1>3. CASE \E i \in Nat : <<p, i>> \in Pending(t) BY <1>3 DEF Settled
<1> QED BY <1>1, <1>2, <1>3 DEF Settled

\* A step that creates no node keeps the predecessors that it leaves settled.
LEMMA PredsKept ==
    ASSUME IInv, Next, pred' = pred,
           \A t \in Task : \A p \in Task : Settled(t, p) => Settled(t, p)'
    PROVE  Preds'
<1>1. \A t \in Task : \A p \in pred[t] : p \in Created /\ p \in Task /\ Settled(t, p)
  BY DEF IInv, Preds, Created
<1> QED BY <1>1, NodesGrow DEF Preds

\* A step that goes through no predecessor and no successor and touches no handle
\* still to be gone through.
LEMMA PredsSame ==
    ASSUME IInv, Next, pred' = pred,
           \A t \in Task : Unprocessed(t)' = Unprocessed(t) /\ Pending(t)' = Pending(t),
           \A h \in Busy : handle'[h] = handle[h]
    PROVE  Preds'
<1>1. \A t \in Task : \A h \in Unprocessed(t) : h \in Busy BY DEF Unprocessed, Busy
<1>2. ASSUME NEW t \in Task, NEW p \in Task, Settled(t, p) PROVE Settled(t, p)'
  BY <1>1, <1>2, StillCounted
<1> QED BY <1>2, PredsKept

\* A step settles a predecessor for good, or leaves it to be counted off.
LEMMA PredsNext == ASSUME IInv, Next PROVE Preds'
<1>1. TypeOK /\ Clients /\ Workers /\ NoTask \notin Task BY Sets DEF IInv
<1>2. \A t \in Task : \A p \in pred[t] : p \in Created /\ Settled(t, p) BY DEF IInv, Preds
<1>3. ASSUME UNCHANGED <<walked, edges, made, todo, pred, handle>> PROVE Preds'
  <2>1. \A t \in Task : Unprocessed(t)' = Unprocessed(t) /\ Pending(t)' = Pending(t)
    BY <1>3 DEF Unprocessed, Pending
  <2> QED BY <1>3, <2>1, PredsSame
<1>4. ASSUME UseHandles PROVE Preds'
  <2>1. UNCHANGED <<walked, edges, made, todo, pred>>
    BY <1>4 DEF UseHandles, ResetHandle, CopyHandle, MoveHandle, clientVars
  <2>2. \A t \in Task : Unprocessed(t)' = Unprocessed(t) /\ Pending(t)' = Pending(t)
    BY <2>1 DEF Unprocessed, Pending
  <2>3. \A k \in Busy : k \in Handle BY <1>1 DEF Busy, TypeOK
  <2>4. PICK h \in Handle, g \in Handle : /\ h \notin Busy
                                          /\ \/ handle' = [handle EXCEPT ![h] = NoTask]
                                             \/ handle' = [handle EXCEPT ![h] = handle[g]]
                                             \/ /\ handle' = [handle EXCEPT ![h] = handle[g], ![g] = NoTask]
                                                /\ g \notin Busy
    BY <1>4 DEF UseHandles, ResetHandle, CopyHandle, MoveHandle
  <2>5. \A k \in Busy : handle'[k] = handle[k] BY <1>1, <2>3, <2>4 DEF TypeOK
  <2> QED BY <2>1, <2>2, <2>5, PredsSame
<1>5. ASSUME NEW c \in Client, Create(c) PROVE Preds'
  <2>1. PICK t \in Task, hs \in SUBSET Handle :
          /\ astate[t] = "none" /\ astate' = [astate EXCEPT ![t] = "unfinished"]
          /\ pred' = [pred EXCEPT ![t] = {handle[h] : h \in hs} \ {NoTask}]
          /\ made' = [made EXCEPT ![c] = t] /\ todo' = [todo EXCEPT ![c] = hs]
    BY <1>5 DEF Create, Fresh, Created
  <2>2. UNCHANGED <<walked, edges, handle>> /\ cpc[c] = "idle" BY <1>5 DEF Create
  <2>3. made[c] = NoTask BY <1>1, <2>2 DEF Clients, ClientOK
  <2>4. /\ made'[c] = t /\ todo'[c] = hs /\ pred'[t] = {handle[h] : h \in hs} \ {NoTask}
        /\ \A d \in Client : d # c => made'[d] = made[d] /\ todo'[d] = todo[d]
        /\ \A u \in Task : u # t => pred'[u] = pred[u] BY <1>1, <2>1 DEF TypeOK
  <2>5. \A h \in hs : h \in Unprocessed(t)' BY <2>4 DEF Unprocessed
  <2>6. ASSUME NEW u \in Task, u # t PROVE Unprocessed(u)' = Unprocessed(u)
    <3>1. ASSUME NEW d \in Client, NEW h \in Handle
          PROVE  made'[d] = u /\ h \in todo'[d] <=> made[d] = u /\ h \in todo[d]
      BY <1>1, <2>3, <2>4, <2>6
    <3> QED BY <3>1 DEF Unprocessed
  <2>7. \A u \in Task : Pending(u)' = Pending(u) BY <2>2 DEF Pending
  <2>8. ASSUME NEW u \in Task, NEW p \in pred'[u] PROVE p \in Created' /\ Settled(u, p)'
    <3>1. CASE u = t
      <4>1. PICK h \in hs : p = handle[h] /\ p # NoTask BY <2>4, <3>1
      <4>2. p \in Created /\ p \in Task BY <4>1, Refers DEF Created
      <4> QED BY <2>2, <2>5, <3>1, <4>1, <4>2, NodesGrow DEF Settled
    <3>2. CASE u # t
      <4>1. p \in Created /\ p \in Task /\ Settled(u, p) BY <1>2, <2>4, <3>2 DEF Created
      <4> QED BY <2>2, <2>6, <2>7, <3>2, <4>1, NodesGrow, StillCounted
    <3> QED BY <3>1, <3>2
  <2> QED BY <2>8 DEF Preds
<1>6. ASSUME NEW c \in Client, NEW h \in Handle, CountOff(c, h) PROVE Preds'
  <2>1. PICK m \in Task : m = made[c] BY <1>6, Refers DEF CountOff
  <2>2. /\ h \in todo[c] /\ todo' = [todo EXCEPT ![c] = @ \ {h}]
        /\ UNCHANGED <<made, walked, edges, handle, pred>>
        /\ handle[h] # NoTask => astate[handle[h]] = "finished" BY <1>6, <2>1 DEF CountOff
  <2>3. \A u \in Task : \A k \in Unprocessed(u) : k = h \/ k \in Unprocessed(u)'
    BY <1>1, <2>1, <2>2, TodoStep, ZenonT(60)
  <2>4. \A u \in Task : Pending(u)' = Pending(u) BY <2>2 DEF Pending
  <2>5. ASSUME NEW u \in Task, NEW p \in Task, Settled(u, p) PROVE Settled(u, p)'
    <3>1. CASE astate[p] = "finished" BY <3>1, NodesGrow DEF Settled
    <3>2. CASE \E k \in Unprocessed(u) : handle[k] = p
      <4>1. PICK k \in Unprocessed(u) : handle[k] = p BY <3>2
      <4>2. CASE k = h BY <1>1, <2>2, <4>1, <4>2, NodesGrow DEF Settled
      <4>3. CASE k # h BY <2>2, <2>3, <4>1, <4>3 DEF Settled
      <4> QED BY <4>2, <4>3
    <3>3. CASE \E i \in Nat : <<p, i>> \in Pending(u) BY <2>4, <3>3 DEF Settled
    <3> QED BY <2>5, <3>1, <3>2, <3>3 DEF Settled
  <2> QED BY <2>2, <2>5, PredsKept
<1>7. ASSUME NEW c \in Client, Link(c) PROVE Preds'
  <2>1. PICK m \in Task, q \in Task, h \in Handle :
           m = made[c] /\ h = link[c] /\ q = handle[h] /\ h \in todo[c]
    BY <1>1, <1>7, Refers DEF Link, Clients, ClientOK, TypeOK
  <2>2. /\ todo' = [todo EXCEPT ![c] = @ \ {h}] /\ edges' = [edges EXCEPT ![q] = Append(@, m)]
        /\ UNCHANGED <<made, walked, handle, pred>> BY <1>7, <2>1 DEF Link
  <2>3. walked[q] <= Len(edges[q]) /\ Len(edges[q]) + 1 \in Nat
    <3>1. edges[q] \in Seq(Task) BY <1>1 DEF TypeOK
    <3> QED BY <3>1 DEF IInv, Nodes, NodeOK
  <2>4. /\ Unprocessed(m)' = Unprocessed(m) \ {h}
        /\ \A u \in Task : u # m => Unprocessed(u)' = Unprocessed(u) BY <1>1, <2>1, <2>2, TodoStep
  <2>5. /\ Pending(m)' = Pending(m) \cup {<<q, Len(edges[q]) + 1>>}
        /\ \A u \in Task : u # m => Pending(u)' = Pending(u) BY <1>1, <2>2, <2>3, PendingMore
  <2>6. ASSUME NEW u \in Task, NEW p \in Task, Settled(u, p) PROVE Settled(u, p)'
    <3>1. CASE u # m BY <2>2, <2>4, <2>5, <2>6, <3>1, StillCounted
    <3>2. CASE u = m /\ astate[p] = "finished" BY <3>2, NodesGrow DEF Settled
    <3>3. CASE u = m /\ \E k \in Unprocessed(m) : handle[k] = p
      <4>1. PICK k \in Unprocessed(m) : handle[k] = p BY <3>3
      <4>2. CASE k = h
        <5>1. <<p, Len(edges[q]) + 1>> \in Pending(m)' BY <2>1, <2>5, <4>1, <4>2
        <5> QED BY <2>3, <3>3, <5>1 DEF Settled
      <4>3. CASE k # h BY <2>2, <2>4, <3>3, <4>1, <4>3 DEF Settled
      <4> QED BY <4>2, <4>3
    <3>4. CASE u = m /\ \E i \in Nat : <<p, i>> \in Pending(m) BY <2>5, <3>4 DEF Settled
    <3> QED BY <2>6, <3>1, <3>2, <3>3, <3>4 DEF Settled
  <2> QED BY <2>2, <2>6, PredsKept
<1>8. ASSUME NEW c \in Client, Discard(c) \/ \E h \in Handle : ReturnTo(c, h) PROVE Preds'
  <2>1. /\ UNCHANGED <<walked, edges, todo, pred>> /\ made' = [made EXCEPT ![c] = NoTask]
        /\ todo[c] = {} BY <1>1, <1>8 DEF Discard, ReturnTo, Clients, ClientOK
  <2>2. \A t \in Task : Unprocessed(t)' = Unprocessed(t) BY <1>1, <2>1, TodoSame
  <2>3. \A t \in Task : Pending(t)' = Pending(t) BY <2>1 DEF Pending
  <2>4. \A k \in Busy : k \in Handle BY <1>1 DEF Busy, TypeOK
  <2>5. \A k \in Busy : handle'[k] = handle[k] BY <1>1, <1>8, <2>4 DEF Discard, ReturnTo, TypeOK
  <2> QED BY <2>1, <2>2, <2>3, <2>5, PredsSame
<1>9. ASSUME NEW w \in Worker, Walk(w) PROVE Preds'
  <2>1. PICK t \in Task : t = node[w] /\ walked[t] < Len(edges[t]) /\ wpc[w] = "walk"
    BY <1>9, Refers DEF Walk
  <2>2. PICK s \in Task : s = edges[t][walked[t] + 1] BY <2>1, CountedOff
  <2>3. walked' = [walked EXCEPT ![t] = @ + 1] /\ UNCHANGED <<made, todo, edges, handle, pred>>
    BY <1>9, <2>1, <2>2 DEF Walk, clientVars
  <2>4. astate[t] = "finished" BY <1>1, <2>1 DEF Workers, WorkerOK, Dead
  <2>5. /\ Pending(s)' = Pending(s) \ {<<t, walked[t] + 1>>}
        /\ \A u \in Task : u # s => Pending(u)' = Pending(u)
    BY <1>1, <2>1, <2>2, <2>3, PendingLess, ZenonT(60)
  <2>6. \A u \in Task : Unprocessed(u)' = Unprocessed(u) BY <2>3 DEF Unprocessed
  <2>7. ASSUME NEW u \in Task, NEW p \in Task, Settled(u, p) PROVE Settled(u, p)'
    <3>1. CASE astate[p] = "finished" BY <3>1, NodesGrow DEF Settled
    <3>2. CASE \E k \in Unprocessed(u) : handle[k] = p BY <2>3, <2>6, <3>2 DEF Settled
    <3>3. CASE p # t /\ \E i \in Nat : <<p, i>> \in Pending(u)
      <4>1. PICK i \in Nat : <<p, i>> \in Pending(u) BY <3>3
      <4>2. <<p, i>> # <<t, walked[t] + 1>> BY <3>3
      <4>3. <<p, i>> \in Pending(u)' BY <2>5, <4>1, <4>2
      <4> QED BY <4>3 DEF Settled
    <3>4. CASE p = t BY <2>4, <3>1, <3>4
    <3> QED BY <2>7, <3>1, <3>2, <3>3, <3>4 DEF Settled
  <2> QED BY <2>3, <2>7, PredsKept
<1>10. ASSUME NEW c \in Client, ScheduleIfReady(c) \/ \E h \in Handle : Lock(c, h) PROVE Preds'
  BY <1>3, <1>10 DEF ScheduleIfReady, Lock
<1>11. ASSUME NEW w \in Worker,
              \/ \E t \in Task : Pick(w, t)
              \/ Work(w) \/ Finish(w) \/ EndWalk(w) \/ DecrementTopology(w) \/ Release(w)
       PROVE  Preds'
  BY <1>3, <1>11 DEF Pick, Work, Finish, EndWalk, DecrementTopology, Release, clientVars
<1> QED BY <1>4, <1>5, <1>6, <1>7, <1>8, <1>9, <1>10, <1>11 DEF Next, ClientStep, WorkerStep

----------------------------------------------------------------------------
(* Owners *)

\* How many handles of f hold t.
Held(f, t) == Cardinality({h \in Handle : f[h] = t})

\* Handles are finitely many.
LEMMA HeldNat == ASSUME AsyncAssumption PROVE \A f, t : Held(f, t) \in Nat
<1>1. ASSUME NEW f, NEW t PROVE Held(f, t) \in Nat
  <2>1. {h \in Handle : f[h] = t} \in SUBSET Handle OBVIOUS
  <2> QED BY <2>1, Sets DEF Held
<1> QED BY <1>1

\* A change of one handle.
LEMMA HeldStep ==
    ASSUME AsyncAssumption, NEW f, NEW g, NEW h \in Handle,
           \A k \in Handle : k # h => g[k] = f[k]
    PROVE  \A t : Held(g, t) = Held(f, t) + (IF t = g[h] THEN 1 ELSE 0) - (IF t = f[h] THEN 1 ELSE 0)
<1> SUFFICES ASSUME NEW t
             PROVE  Held(g, t) = Held(f, t) + (IF t = g[h] THEN 1 ELSE 0) - (IF t = f[h] THEN 1 ELSE 0)
  OBVIOUS
<1> DEFINE S == {k \in Handle : f[k] = t}
           T == {k \in Handle : g[k] = t}
           x == g[h]
<1>1. IsFiniteSet(S) /\ Cardinality(S) \in Nat
  <2>1. S \in SUBSET Handle OBVIOUS
  <2> QED BY <2>1, Sets
<1>2. T = IF t = x THEN S \cup {h} ELSE S \ {h} OBVIOUS
<1>3. h \in S <=> t = f[h] OBVIOUS
<1> HIDE DEF S, T, x
<1>4. Cardinality(T) = Cardinality(S) + (IF t = x THEN 1 ELSE 0) - (IF t = f[h] THEN 1 ELSE 0)
  <2>1. CASE t = x /\ h \in S
    <3>1. T = S BY <1>2, <2>1
    <3> QED BY <1>1, <1>3, <2>1, <3>1
  <2>2. CASE t = x /\ h \notin S
    <3>1. Cardinality(T) = Cardinality(S) + 1 BY <1>1, <1>2, <2>2, OneMore
    <3> QED BY <1>1, <1>3, <2>2, <3>1
  <2>3. CASE t # x /\ h \in S
    <3>1. Cardinality(T) = Cardinality(S) - 1 BY <1>1, <1>2, <2>3, OneLess
    <3> QED BY <1>1, <1>3, <2>3, <3>1
  <2>4. CASE t # x /\ h \notin S
    <3>1. T = S BY <1>2, <2>4
    <3> QED BY <1>1, <1>3, <2>4, <3>1
  <2> QED BY <2>1, <2>2, <2>3, <2>4
<1> QED BY <1>4 DEF S, T, x, Held

\* An assignment to a handle.
LEMMA HandleStep ==
    ASSUME AsyncAssumption, TypeOK, NEW h \in Handle, NEW x, handle' = [handle EXCEPT ![h] = x]
    PROVE  \A t \in Task : Held(handle', t) = Held(handle, t) + (IF t = x THEN 1 ELSE 0)
                                              - (IF t = handle[h] THEN 1 ELSE 0)
<1>1. handle'[h] = x /\ \A k \in Handle : k # h => handle'[k] = handle[k] BY DEF TypeOK
<1>2. PICK f, g : f = handle /\ g = handle' OBVIOUS
<1>3. \A t : Held(g, t) = Held(f, t) + (IF t = g[h] THEN 1 ELSE 0) - (IF t = f[h] THEN 1 ELSE 0)
  <2>1. \A k \in Handle : k # h => g[k] = f[k] BY <1>1, <1>2
  <2> QED BY <2>1, HeldStep, ZenonT(60)
<1> QED BY <1>1, <1>2, <1>3

\* The owners of a task, counted.
OwnerCount(t) ==
    Held(handle, t) + (IF Returning(t) THEN 1 ELSE 0) + (IF Alive(t) THEN 1 ELSE 0)

\* What OwnersOK says of a task, with its owners counted.
LEMMA OwnersAre ==
    ASSUME IInv, NEW t \in Task
    PROVE  /\ Held(handle, t) \in Nat /\ uses[t] \in Nat
           /\ uses[t] = OwnerCount(t)
           /\ t \in recycled <=> t \in Created /\ uses[t] = 0
<1>1. OwnersOK(t) /\ handle \in [Handle -> Task \cup {NoTask}] /\ uses[t] \in Nat
  BY DEF IInv, Owners, TypeOK
<1>2. {h \in Handle : handle[h] = t} \in SUBSET Handle OBVIOUS
<1>3. Held(handle, t) \in Nat BY <1>2, Sets DEF IInv, Held
<1> QED BY <1>1, <1>3 DEF OwnersOK, Owning, Holding, Held, OwnerCount

\* What is to be shown of a task after a step.
LEMMA OwnersWill ==
    ASSUME NEW t \in Task,
           uses'[t] = OwnerCount(t)',
           t \in recycled' <=> t \in Created' /\ uses'[t] = 0
    PROVE  OwnersOK(t)'
BY DEF OwnersOK, Owning, Holding, Held, OwnerCount

\* A step that leaves handles, creators' tasks and counts alone.
LEMMA OwnersKept ==
    ASSUME IInv, UNCHANGED <<handle, made, uses, recycled>>,
           \A t \in Task : Alive(t)' <=> Alive(t),
           \A t \in Task : t \in Created' <=> t \in Created
    PROVE  Owners'
<1>1. ASSUME NEW t \in Task PROVE OwnersOK(t)'
  <2>1. OwnersOK(t) BY DEF IInv, Owners
  <2>2. Returning(t)' <=> Returning(t) BY DEF Returning
  <2>3. Holding(t)' = Holding(t) BY DEF Holding
  <2>4. Owning(Returning(t))' = Owning(Returning(t)) /\ Owning(Alive(t))' = Owning(Alive(t))
    BY <2>2 DEF Owning
  <2> QED BY <2>1, <2>3, <2>4 DEF OwnersOK
<1> QED BY <1>1 DEF Owners

\* A step that drops one reference, to x.
LEMMA OwnersDrop ==
    ASSUME IInv, NEW x \in Created \cup {NoTask}, Drop(x),
           (\E h \in Handle : handle[h] = x) \/ Returning(x) \/ Alive(x),
           \A u \in Task : OwnerCount(u)' = OwnerCount(u) - (IF u = x THEN 1 ELSE 0),
           \A u \in Task : u \in Created' <=> u \in Created
    PROVE  Owners'
<1>1. x \in Task \cup {NoTask} /\ (x \in Task => x \in Created) BY Sets DEF IInv, Created
<1>2. \A u \in Task : uses'[u] = (IF u = x THEN uses[u] - 1 ELSE uses[u]) BY <1>1, DropFacts
<1>3. \A u \in Task : u \in recycled' <=> u \in recycled \/ (u = x /\ uses'[u] = 0)
  BY <1>1, DropFacts
<1>4. ASSUME NEW u \in Task PROVE OwnersOK(u)'
  <2>1. /\ uses[u] \in Nat /\ (u \in recycled <=> u \in Created /\ uses[u] = 0)
        /\ uses[u] = OwnerCount(u) BY OwnersAre
  <2>2. uses'[u] = OwnerCount(u)'
    <3>1. uses'[u] = uses[u] - (IF u = x THEN 1 ELSE 0) BY <1>2, <2>1
    <3> QED BY <2>1, <3>1
  <2>3. u = x => u \notin recycled /\ u \in Created BY <1>1, Owned
  <2>4. u \in recycled' <=> u \in Created' /\ uses'[u] = 0 BY <1>2, <1>3, <2>1, <2>3
  <2> QED BY <2>2, <2>4, OwnersWill
<1> QED BY <1>4 DEF Owners

\* A step drops a reference that it has, and takes one where there is an owner.
LEMMA OwnersNext == ASSUME IInv, Next PROVE Owners'
<1>1. TypeOK /\ Clients /\ Workers /\ NoTask \notin Task /\ AsyncAssumption BY Sets DEF IInv
<1>2. handle \in [Handle -> Task \cup {NoTask}] /\ \A h \in Handle : handle[h] \in Created \cup {NoTask}
  BY <1>1, Refers DEF TypeOK
<1>3. ASSUME NEW h \in Handle, ResetHandle(h) PROVE Owners'
  <2>1. /\ handle' = [handle EXCEPT ![h] = NoTask] /\ Drop(handle[h])
        /\ UNCHANGED <<astate, made, node>> BY <1>3 DEF ResetHandle, clientVars, workerVars
  <2>2. \A u \in Task : Held(handle', u) = Held(handle, u) - (IF u = handle[h] THEN 1 ELSE 0)
    <3>1. \A u \in Task : Held(handle', u) = Held(handle, u) + (IF u = NoTask THEN 1 ELSE 0)
                                             - (IF u = handle[h] THEN 1 ELSE 0)
      BY <1>1, <2>1, HandleStep, ZenonT(60)
    <3>2. \A u \in Task : Held(handle, u) \in Nat /\ u # NoTask BY <1>1, HeldNat
    <3> QED BY <3>1, <3>2
  <2>3. \A u \in Task : /\ Returning(u)' <=> Returning(u)
                        /\ Alive(u)' <=> Alive(u)
                        /\ u \in Created' <=> u \in Created
                        /\ Held(handle, u) \in Nat BY <2>1, OwnersAre DEF Returning, Alive, Created
  <2>4. \A u \in Task :
           OwnerCount(u)' = OwnerCount(u) - (IF u = handle[h] THEN 1 ELSE 0)
    BY <2>2, <2>3 DEF OwnerCount
  <2> QED BY <1>2, <2>1, <2>3, <2>4, OwnersDrop
<1>4. ASSUME NEW h \in Handle, NEW g \in Handle, MoveHandle(h, g) PROVE Owners'
  <2>1. /\ handle' = [handle EXCEPT ![h] = handle[g], ![g] = NoTask] /\ Drop(handle[h]) /\ h # g
        /\ UNCHANGED <<astate, made, node>> BY <1>4 DEF MoveHandle, clientVars, workerVars
  <2>2. PICK f : f = [handle EXCEPT ![h] = handle[g]] OBVIOUS
  <2>3. /\ f[h] = handle[g] /\ f[g] = handle[g] /\ handle'[g] = NoTask
        /\ \A k \in Handle : k # h => f[k] = handle[k]
        /\ \A k \in Handle : k # g => handle'[k] = f[k] BY <1>2, <2>1, <2>2
  <2>4. \A u \in Task : Held(f, u) = Held(handle, u) + (IF u = handle[g] THEN 1 ELSE 0)
                                     - (IF u = handle[h] THEN 1 ELSE 0) BY <1>1, <2>3, HeldStep
  <2>5. \A u \in Task : Held(handle', u) = Held(f, u) - (IF u = handle[g] THEN 1 ELSE 0)
    <3>3. PICK k : k = handle' OBVIOUS
    <3>4. \A u : Held(k, u) = Held(f, u) + (IF u = k[g] THEN 1 ELSE 0) - (IF u = f[g] THEN 1 ELSE 0)
      <4>1. \A e \in Handle : e # g => k[e] = f[e] BY <2>3, <3>3
      <4> QED BY <1>1, <4>1, HeldStep, ZenonT(60)
    <3>1. \A u \in Task : Held(handle', u) = Held(f, u) + (IF u = NoTask THEN 1 ELSE 0)
                                             - (IF u = handle[g] THEN 1 ELSE 0) BY <2>3, <3>3, <3>4
    <3>2. \A u \in Task : Held(f, u) \in Nat /\ u # NoTask BY <1>1, HeldNat
    <3> QED BY <3>1, <3>2
  <2>6. \A u \in Task : Held(handle', u) = Held(handle, u) - (IF u = handle[h] THEN 1 ELSE 0)
    <3>1. \A u \in Task : Held(handle, u) \in Nat BY <1>1, HeldNat
    <3> QED BY <2>4, <2>5, <3>1
  <2>7. \A u \in Task : /\ Returning(u)' <=> Returning(u)
                        /\ Alive(u)' <=> Alive(u)
                        /\ u \in Created' <=> u \in Created
                        /\ Held(handle, u) \in Nat BY <2>1, OwnersAre DEF Returning, Alive, Created
  <2>8. \A u \in Task : OwnerCount(u)' = OwnerCount(u) - (IF u = handle[h] THEN 1 ELSE 0)
    BY <2>6, <2>7 DEF OwnerCount
  <2> QED BY <1>2, <2>1, <2>7, <2>8, OwnersDrop
<1>5. ASSUME NEW h \in Handle, NEW g \in Handle, CopyHandle(h, g) PROVE Owners'
  <2>1. /\ handle' = [handle EXCEPT ![h] = handle[g]] /\ handle[h] # handle[g]
        /\ UNCHANGED <<astate, made, node>> BY <1>5 DEF CopyHandle, clientVars, workerVars
  <2>2. \A u \in Task : Held(handle', u) = Held(handle, u) + (IF u = handle[g] THEN 1 ELSE 0)
                                           - (IF u = handle[h] THEN 1 ELSE 0)
    BY <1>1, <2>1, HandleStep, ZenonT(60)
  <2>3. \A u \in Task : /\ Returning(u)' <=> Returning(u)
                        /\ Alive(u)' <=> Alive(u)
                        /\ u \in Created' <=> u \in Created BY <2>1 DEF Returning, Alive, Created
  <2>4. \A u \in Task : uses'[u] = (IF u = handle[h] THEN uses[u] - 1
                                    ELSE IF u = handle[g] THEN uses[u] + 1 ELSE uses[u])
    BY <1>5, CopyFacts
  <2>5. \A u \in Task : u \in recycled' <=> u \in recycled \/ (u = handle[h] /\ uses'[u] = 0)
    BY <1>5, CopyFacts
  <2>6. ASSUME NEW u \in Task PROVE OwnersOK(u)'
    <3>1. /\ uses[u] \in Nat /\ (u \in recycled <=> u \in Created /\ uses[u] = 0)
          /\ uses[u] = OwnerCount(u)
          /\ Held(handle, u) \in Nat BY OwnersAre
    <3>2. uses'[u] = OwnerCount(u)'
      <4>1. uses'[u] = uses[u] + (IF u = handle[g] THEN 1 ELSE 0) - (IF u = handle[h] THEN 1 ELSE 0)
        BY <2>1, <2>4, <3>1
      <4> QED BY <2>2, <2>3, <3>1, <4>1 DEF OwnerCount
    <3>3. u = handle[h] \/ u = handle[g] => u \notin recycled /\ u \in Created
      BY <1>2, Owned, Sets DEF IInv
    <3>4. u \in recycled' <=> u \in Created' /\ uses'[u] = 0 BY <2>3, <2>4, <2>5, <3>1, <3>3
    <3> QED BY <3>2, <3>4, OwnersWill
  <2> QED BY <2>6 DEF Owners
<1>6. ASSUME NEW c \in Client, Create(c) PROVE Owners'
  <2>1. PICK t \in Task : /\ astate[t] = "none" /\ astate' = [astate EXCEPT ![t] = "unfinished"]
                          /\ uses' = [uses EXCEPT ![t] = 2] /\ made' = [made EXCEPT ![c] = t]
    BY <1>6 DEF Create, Fresh, Created
  <2>2. UNCHANGED <<handle, recycled, node>> /\ cpc[c] = "idle" BY <1>6 DEF Create, workerVars
  <2>3. /\ astate'[t] = "unfinished" /\ \A u \in Task : u # t => astate'[u] = astate[u]
        /\ uses'[t] = 2 /\ \A u \in Task : u # t => uses'[u] = uses[u]
        /\ made'[c] = t /\ \A d \in Client : d # c => made'[d] = made[d]
        /\ made[c] = NoTask BY <1>1, <2>1, <2>2 DEF TypeOK, Clients, ClientOK
  <2>4. OwnersOK(t)'
    <3>1. \A h \in Handle : handle[h] # t BY <2>1 DEF IInv, Nodes, NodeOK, Nowhere
    <3>2. {h \in Handle : handle[h] = t} = {} BY <3>1
    <3>3. Held(handle', t) = 0 BY <2>2, <3>2, FS_EmptySet DEF Held
    <3>4. Returning(t)' /\ Alive(t)' BY <2>3 DEF Returning, Alive
    <3>5. t \notin recycled BY <2>1, OwnersAre DEF Created
    <3>6. uses'[t] = OwnerCount(t)' BY <2>3, <3>3, <3>4 DEF OwnerCount
    <3>7. t \in recycled' <=> t \in Created' /\ uses'[t] = 0 BY <2>2, <2>3, <3>5
    <3> QED BY <3>6, <3>7, OwnersWill
  <2>5. ASSUME NEW u \in Task, u # t PROVE OwnersOK(u)'
    <3>1. Returning(u)' <=> Returning(u) BY <1>1, <2>3, <2>5 DEF Returning
    <3>2. Alive(u)' <=> Alive(u) BY <2>2, <2>3, <2>5 DEF Alive
    <3>3. u \in Created' <=> u \in Created BY <2>3, <2>5 DEF Created
    <3> QED BY <2>2, <2>3, <2>5, <3>1, <3>2, <3>3, OwnersAre, OwnersWill DEF OwnerCount
  <2> QED BY <2>4, <2>5 DEF Owners
<1>7. ASSUME NEW c \in Client, Discard(c) PROVE Owners'
  <2>1. PICK m \in Task : m = made[c] /\ astate[m] # "none" BY <1>7, Refers DEF Discard
  <2>2. Drop(m) /\ made' = [made EXCEPT ![c] = NoTask] /\ UNCHANGED <<handle, astate, node>>
    BY <1>7, <2>1 DEF Discard, workerVars
  <2>3. made'[c] = NoTask /\ \A d \in Client : d # c => made'[d] = made[d] /\ made[d] # m
    BY <1>1, <2>1, <2>2 DEF TypeOK, Clients, ClientOK
  <2>4. Returning(m) /\ ~Returning(m)' /\ m \in Created BY <1>1, <2>1, <2>3 DEF Returning, Created
  <2>5. ASSUME NEW u \in Task, u # m PROVE Returning(u)' <=> Returning(u)
    BY <1>1, <2>1, <2>3, <2>5 DEF Returning
  <2>6. \A u \in Task : /\ Alive(u)' <=> Alive(u)
                        /\ u \in Created' <=> u \in Created
                        /\ Held(handle', u) = Held(handle, u) /\ Held(handle, u) \in Nat
    BY <2>2, OwnersAre DEF Alive, Created
  <2>7. \A u \in Task : OwnerCount(u)' = OwnerCount(u) - (IF u = m THEN 1 ELSE 0)
    BY <2>4, <2>5, <2>6 DEF OwnerCount
  <2> QED BY <2>2, <2>4, <2>6, <2>7, OwnersDrop
<1>8. ASSUME NEW c \in Client, NEW h \in Handle, ReturnTo(c, h) PROVE Owners'
  <2>1. PICK m \in Task : m = made[c] BY <1>8, Refers DEF ReturnTo
  <2>2. /\ handle' = [handle EXCEPT ![h] = m] /\ Drop(handle[h])
        /\ made' = [made EXCEPT ![c] = NoTask] /\ UNCHANGED <<astate, node>>
    BY <1>8, <2>1 DEF ReturnTo, workerVars
  <2>3. made'[c] = NoTask /\ \A d \in Client : d # c => made'[d] = made[d] /\ made[d] # m
    BY <1>1, <2>1, <2>2 DEF TypeOK, Clients, ClientOK
  <2>4. Returning(m) /\ ~Returning(m)' BY <1>1, <2>1, <2>3 DEF Returning
  <2>5. ASSUME NEW u \in Task, u # m PROVE Returning(u)' <=> Returning(u)
    BY <1>1, <2>1, <2>3, <2>5 DEF Returning
  <2>6. /\ \A u \in Task : Held(handle', u) = Held(handle, u) + (IF u = m THEN 1 ELSE 0)
                                              - (IF u = handle[h] THEN 1 ELSE 0)
        /\ \A u \in Task : Held(handle, u) \in Nat BY <1>1, <2>2, HandleStep, HeldNat
  <2>7. \A u \in Task : /\ Alive(u)' <=> Alive(u)
                        /\ u \in Created' <=> u \in Created BY <2>2 DEF Alive, Created
  <2>8. \A u \in Task : OwnerCount(u)' = OwnerCount(u) - (IF u = handle[h] THEN 1 ELSE 0)
    BY <2>4, <2>5, <2>6, <2>7 DEF OwnerCount
  <2> QED BY <1>2, <2>2, <2>7, <2>8, OwnersDrop
<1>9. ASSUME NEW w \in Worker, Release(w) PROVE Owners'
  <2>1. PICK t \in Task : /\ t = node[w] /\ t \in Created
                          /\ node' = [node EXCEPT ![w] = cache[w]]
                          /\ Drop(t) /\ UNCHANGED <<handle, astate, made>> /\ wpc[w] = "release"
    BY <1>9, Refers DEF Release, clientVars, Created
  <2>2. node'[w] = cache[w] /\ \A v \in Worker : v # w => node'[v] = node[v]
    BY <1>1, <2>1 DEF TypeOK
  <2>3. Alive(t) BY <2>1 DEF Alive
  <2>4. ~Alive(t)'
    <3>1. OneHolder(t) BY DEF IInv, Nodes, NodeOK
    <3>2. cache[w] # t /\ \A v \in Worker : v # w => node[v] # t BY <2>1, <3>1 DEF OneHolder
    <3>3. astate[t] = "finished" BY <1>1, <2>1 DEF Workers, WorkerOK, Dead
    <3> QED BY <2>1, <2>2, <3>2, <3>3 DEF Alive
  <2>5. ASSUME NEW u \in Task, u # t PROVE Alive(u)' <=> Alive(u)
    <3>1. CASE cache[w] = u
      <4>1. u \in Created /\ u \notin ran
        <5>1. u \in ran => cache[w] # u BY DEF IInv, Nodes, NodeOK
        <5> QED BY <1>1, <3>1, <5>1 DEF Workers, WorkerOK
      <4>2. astate[u] # "finished" BY <4>1 DEF IInv, Nodes, NodeOK
      <4>3. astate[u] \in {"unfinished", "locked"} BY <1>1, <4>1, <4>2 DEF Created, TypeOK
      <4> QED BY <2>1, <4>3 DEF Alive
    <3>2. CASE cache[w] # u BY <2>1, <2>2, <2>5, <3>2 DEF Alive
    <3> QED BY <3>1, <3>2
  <2>6. \A u \in Task : /\ Returning(u)' <=> Returning(u)
                        /\ u \in Created' <=> u \in Created
                        /\ Held(handle', u) = Held(handle, u) /\ Held(handle, u) \in Nat
    BY <2>1, OwnersAre DEF Returning, Created
  <2>7. \A u \in Task : OwnerCount(u)' = OwnerCount(u) - (IF u = t THEN 1 ELSE 0)
    BY <2>3, <2>4, <2>5, <2>6 DEF OwnerCount
  <2> QED BY <2>1, <2>3, <2>6, <2>7, OwnersDrop
<1>10. ASSUME NEW w \in Worker, NEW t \in Task, Pick(w, t) PROVE Owners'
  <2>1. /\ node' = [node EXCEPT ![w] = t] /\ scheduled[t] > 0 /\ wpc[w] = "idle"
        /\ UNCHANGED <<handle, made, uses, recycled, astate>> BY <1>10 DEF Pick, clientVars
  <2>2. node'[w] = t /\ node[w] = NoTask /\ \A v \in Worker : v # w => node'[v] = node[v]
    BY <1>1, <2>1 DEF TypeOK, Workers, WorkerOK
  <2>3. astate[t] \in {"unfinished", "locked"}
    <3>1. scheduled[t] # 0 BY <1>1, <2>1 DEF TypeOK
    <3>2. astate[t] # "none" /\ astate[t] # "finished" BY <3>1 DEF IInv, Nodes, NodeOK, Nowhere
    <3> QED BY <1>1, <3>2 DEF TypeOK
  <2>4. \A u \in Task : Alive(u)' <=> Alive(u) BY <1>1, <2>1, <2>2, <2>3 DEF Alive
  <2>5. \A u \in Task : u \in Created' <=> u \in Created BY <2>1 DEF Created
  <2> QED BY <2>1, <2>4, <2>5, OwnersKept
<1>11. ASSUME NEW w \in Worker, Finish(w) PROVE Owners'
  <2>1. PICK t \in Task : /\ t = node[w] /\ astate' = [astate EXCEPT ![t] = "finished"]
                          /\ astate[t] # "none" /\ UNCHANGED <<handle, made, uses, recycled, node>>
    BY <1>11, Refers DEF Finish, clientVars
  <2>2. astate'[t] = "finished" /\ \A u \in Task : u # t => astate'[u] = astate[u]
    BY <1>1, <2>1 DEF TypeOK
  <2>3. \A u \in Task : /\ Alive(u)' <=> Alive(u)
                        /\ u \in Created' <=> u \in Created BY <2>1, <2>2 DEF Alive, Created
  <2> QED BY <2>1, <2>3, OwnersKept
<1>12. ASSUME NEW c \in Client, Link(c) \/ \E h \in Handle : Lock(c, h) PROVE Owners'
  <2>1. PICK p \in Task, a \in {"unfinished", "locked"} :
           astate[p] \in {"unfinished", "locked"} /\ astate' = [astate EXCEPT ![p] = a]
    BY <1>1, <1>12 DEF Link, Lock, Clients, ClientOK, TypeOK
  <2>2. UNCHANGED <<handle, made, uses, recycled, node>> BY <1>12 DEF Link, Lock, workerVars
  <2>3. astate'[p] = a /\ \A u \in Task : u # p => astate'[u] = astate[u] BY <1>1, <2>1 DEF TypeOK
  <2>4. \A u \in Task : /\ Alive(u)' <=> Alive(u)
                        /\ u \in Created' <=> u \in Created BY <2>1, <2>2, <2>3 DEF Alive, Created
  <2> QED BY <2>2, <2>4, OwnersKept
<1>13. ASSUME UNCHANGED <<handle, made, uses, recycled, astate, node>> PROVE Owners'
  <2>1. \A u \in Task : /\ Alive(u)' <=> Alive(u)
                        /\ u \in Created' <=> u \in Created BY <1>13 DEF Alive, Created
  <2> QED BY <1>13, <2>1, OwnersKept
<1>14. ASSUME NEW c \in Client, ScheduleIfReady(c) \/ \E h \in Handle : CountOff(c, h) PROVE Owners'
  BY <1>13, <1>14 DEF ScheduleIfReady, CountOff, workerVars
<1>15. ASSUME NEW w \in Worker, Work(w) \/ Walk(w) \/ EndWalk(w) \/ DecrementTopology(w)
       PROVE  Owners' BY <1>13, <1>15 DEF Work, Walk, EndWalk, DecrementTopology, clientVars
<1> QED BY <1>3, <1>4, <1>5, <1>6, <1>7, <1>8, <1>9, <1>10, <1>11, <1>12, <1>14, <1>15
     DEF Next, ClientStep, WorkerStep, UseHandles

----------------------------------------------------------------------------
(* _num_topologies *)

\* A step that opens and closes no task.
LEMMA CountsKept ==
    ASSUME IInv, topologies' = topologies, \A t \in Task : Open(t)' <=> Open(t)
    PROVE  Counts'
<1>1. {t \in Task : Open(t)}' = {t \in Task : Open(t)} OBVIOUS
<1> QED BY <1>1 DEF IInv, Counts

\* A step keeps _num_topologies exact: it is counted up with the creation of a task
\* and down in the tear-down, after the state of the node became finished.
LEMMA CountsNext == ASSUME IInv, Next PROVE Counts'
<1>1. TypeOK /\ Clients /\ Workers /\ NoTask \notin Task BY Sets DEF IInv
<1>2. ASSUME UNCHANGED <<topologies, astate, node, wpc>> PROVE Counts'
  <2>1. \A t \in Task : Open(t)' <=> Open(t) BY <1>2 DEF Open
  <2> QED BY <1>2, <2>1, CountsKept
<1>3. IsFiniteSet({t \in Task : Open(t)}) /\ topologies = Cardinality({t \in Task : Open(t)})
  BY Sets DEF IInv, Counts
<1>4. ASSUME NEW c \in Client, Create(c) PROVE Counts'
  <2>1. PICK t \in Task : astate[t] = "none" /\ astate' = [astate EXCEPT ![t] = "unfinished"]
    BY <1>4 DEF Create, Fresh, Created
  <2>2. topologies' = topologies + 1 /\ UNCHANGED <<node, wpc>> BY <1>4 DEF Create, workerVars
  <2>3. astate'[t] = "unfinished" /\ \A u \in Task : u # t => astate'[u] = astate[u]
    BY <1>1, <2>1 DEF TypeOK
  <2>4. ~Open(t) BY <1>1, <2>1 DEF Open, Workers, WorkerOK, Created
  <2>5. Open(t)' /\ \A u \in Task : u # t => (Open(u)' <=> Open(u)) BY <2>2, <2>3 DEF Open
  <2>6. {u \in Task : Open(u)}' = {u \in Task : Open(u)} \cup {t} BY <2>5
  <2>7. Cardinality({u \in Task : Open(u)} \cup {t}) = Cardinality({u \in Task : Open(u)}) + 1
    BY <1>3, <2>4, OneMore
  <2> QED BY <1>3, <2>2, <2>6, <2>7 DEF Counts
<1>5. ASSUME NEW w \in Worker, DecrementTopology(w) PROVE Counts'
  <2>1. PICK t \in Task : t = node[w] /\ wpc[w] = "count" BY <1>5, Refers DEF DecrementTopology
  <2>2. /\ topologies' = topologies - 1 /\ wpc' = [wpc EXCEPT ![w] = "release"]
        /\ UNCHANGED <<node, astate>> BY <1>5 DEF DecrementTopology, Goto
  <2>3. wpc'[w] = "release" /\ \A v \in Worker : v # w => wpc'[v] = wpc[v] /\ node[v] # t
    <3>1. OneHolder(t) BY DEF IInv, Nodes, NodeOK
    <3> QED BY <1>1, <2>1, <2>2, <3>1 DEF TypeOK, OneHolder
  <2>4. Open(t) /\ ~Open(t)'
    <3>1. astate[t] = "finished" BY <1>1, <2>1 DEF Workers, WorkerOK, Dead
    <3> QED BY <2>1, <2>2, <2>3, <3>1 DEF Open
  <2>5. ASSUME NEW u \in Task, u # t PROVE Open(u)' <=> Open(u) BY <2>1, <2>2, <2>3, <2>5 DEF Open
  <2>6. {u \in Task : Open(u)}' = {u \in Task : Open(u)} \ {t} BY <2>4, <2>5
  <2>7. t \in {u \in Task : Open(u)} BY <2>4
  <2>8. Cardinality({u \in Task : Open(u)} \ {t}) = Cardinality({u \in Task : Open(u)}) - 1
    BY <1>3, <2>7, OneLess
  <2> QED BY <1>3, <2>2, <2>6, <2>8 DEF Counts
<1>6. ASSUME NEW c \in Client, Link(c) \/ \E h \in Handle : Lock(c, h) PROVE Counts'
  <2>1. PICK p \in Task, a \in {"unfinished", "locked"} :
           astate[p] \in {"unfinished", "locked"} /\ astate' = [astate EXCEPT ![p] = a]
    BY <1>1, <1>6 DEF Link, Lock, Clients, ClientOK, TypeOK
  <2>2. UNCHANGED <<topologies, node, wpc>> BY <1>6 DEF Link, Lock, workerVars
  <2>3. astate'[p] = a /\ \A u \in Task : u # p => astate'[u] = astate[u] BY <1>1, <2>1 DEF TypeOK
  <2>4. \A u \in Task : Open(u)' <=> Open(u) BY <2>1, <2>2, <2>3 DEF Open
  <2> QED BY <2>2, <2>4, CountsKept
<1>7. ASSUME NEW w \in Worker, NEW t \in Task, Pick(w, t) PROVE Counts'
  <2>1. /\ wpc[w] = "idle" /\ wpc' = [wpc EXCEPT ![w] = "work"] /\ node' = [node EXCEPT ![w] = t]
        /\ UNCHANGED <<topologies, astate>> BY <1>7 DEF Pick, Goto
  <2>2. /\ wpc'[w] = "work"
        /\ \A v \in Worker : v # w => wpc'[v] = wpc[v] /\ node'[v] = node[v]
    BY <1>1, <2>1 DEF TypeOK
  <2>3. \A u \in Task : Open(u)' <=> Open(u) BY <2>1, <2>2 DEF Open
  <2> QED BY <2>1, <2>3, CountsKept
<1>8. ASSUME NEW w \in Worker, Work(w) PROVE Counts'
  <2>1. /\ wpc[w] = "work" /\ wpc' = [wpc EXCEPT ![w] = "finish"]
        /\ UNCHANGED <<topologies, astate, node>> BY <1>8 DEF Work, Goto
  <2>2. wpc'[w] = "finish" /\ \A v \in Worker : v # w => wpc'[v] = wpc[v] BY <1>1, <2>1 DEF TypeOK
  <2>3. \A u \in Task : Open(u)' <=> Open(u) BY <2>1, <2>2 DEF Open
  <2> QED BY <2>1, <2>3, CountsKept
<1>9. ASSUME NEW w \in Worker, Finish(w) PROVE Counts'
  <2>1. PICK t \in Task : /\ t = node[w] /\ astate[t] = "unfinished"
                          /\ astate' = [astate EXCEPT ![t] = "finished"] BY <1>9, Refers DEF Finish
  <2>2. wpc' = [wpc EXCEPT ![w] = "walk"] /\ wpc[w] = "finish" /\ UNCHANGED <<topologies, node>>
    BY <1>9 DEF Finish, Goto
  <2>3. /\ wpc'[w] = "walk" /\ \A v \in Worker : v # w => wpc'[v] = wpc[v]
        /\ astate'[t] = "finished" /\ \A u \in Task : u # t => astate'[u] = astate[u]
    BY <1>1, <2>1, <2>2 DEF TypeOK
  <2>4. ASSUME NEW u \in Task PROVE Open(u)' <=> Open(u)
    <3>1. CASE u = t BY <2>1, <2>2, <2>3, <3>1 DEF Open
    <3>2. CASE u # t BY <2>1, <2>2, <2>3, <3>2 DEF Open
    <3> QED BY <3>1, <3>2
  <2> QED BY <2>2, <2>4, CountsKept
<1>10. ASSUME NEW w \in Worker, EndWalk(w) PROVE Counts'
  <2>1. /\ wpc[w] = "walk" /\ wpc' = [wpc EXCEPT ![w] = "count"]
        /\ UNCHANGED <<topologies, astate, node>> BY <1>10 DEF EndWalk, Goto
  <2>2. wpc'[w] = "count" /\ \A v \in Worker : v # w => wpc'[v] = wpc[v] BY <1>1, <2>1 DEF TypeOK
  <2>3. \A u \in Task : Open(u)' <=> Open(u) BY <2>1, <2>2 DEF Open
  <2> QED BY <2>1, <2>3, CountsKept
<1>11. ASSUME NEW w \in Worker, Release(w) PROVE Counts'
  <2>1. PICK l \in {"idle", "work"} :
           /\ wpc[w] = "release" /\ wpc' = [wpc EXCEPT ![w] = l]
           /\ node' = [node EXCEPT ![w] = cache[w]] /\ UNCHANGED <<topologies, astate>>
    BY <1>11 DEF Release, Goto
  <2>2. /\ wpc'[w] = l
        /\ \A v \in Worker : v # w => wpc'[v] = wpc[v] /\ node'[v] = node[v]
    BY <1>1, <2>1 DEF TypeOK
  <2>3. \A u \in Task : Open(u)' <=> Open(u) BY <2>1, <2>2 DEF Open
  <2> QED BY <2>1, <2>3, CountsKept
<1>12. ASSUME UseHandles PROVE Counts'
  BY <1>2, <1>12 DEF UseHandles, ResetHandle, CopyHandle, MoveHandle, workerVars
<1>13. ASSUME NEW c \in Client,
              \/ \E h \in Handle : CountOff(c, h) \/ ReturnTo(c, h)
              \/ ScheduleIfReady(c) \/ Discard(c)
       PROVE  Counts' BY <1>2, <1>13 DEF CountOff, ReturnTo, ScheduleIfReady, Discard, workerVars
<1>14. ASSUME NEW w \in Worker, Walk(w) PROVE Counts' BY <1>2, <1>14 DEF Walk
<1> QED BY <1>4, <1>5, <1>6, <1>7, <1>8, <1>9, <1>10, <1>11, <1>12, <1>13, <1>14
     DEF Next, ClientStep, WorkerStep

----------------------------------------------------------------------------
(* The theorems *)

\* The inductive invariant holds at first.
LEMMA InitInv == ASSUME AsyncAssumption, Init PROVE IInv
<1>1. TypeOK BY TypeInit
<1>2. Clients BY Sets DEF Init, Clients, ClientOK
<1>3. Workers BY Sets DEF Init, Workers, WorkerOK, Dead
<1>4. Nodes
  <2>1. ASSUME NEW t \in Task PROVE NodeOK(t)
    <3>1. Nowhere(t) BY Sets DEF Init, Nowhere
    <3>2. OneHolder(t) /\ \A w \in Worker : node[w] # t /\ cache[w] # t BY Sets DEF Init, OneHolder
    <3>3. astate[t] = "none" /\ walked[t] = 0 /\ Len(edges[t]) = 0 BY DEF Init
    <3> QED BY <3>1, <3>2, <3>3 DEF NodeOK, Nowhere
  <2> QED BY <2>1 DEF Nodes
<1>5. \A t \in Task : Unprocessed(t) = {} /\ Pending(t) = {}
  <2>1. ASSUME NEW t \in Task, NEW e PROVE e \notin Pending(t)
    <3>1. \A p \in Task : walked[p] + 1 .. Len(edges[p]) = {} BY DEF Init
    <3> QED BY <3>1, PendingIs
  <2>2. \A t \in Task : Unprocessed(t) = {} BY DEF Init, Unprocessed
  <2> QED BY <2>1, <2>2
<1>6. Joins
  <2>1. IsFiniteSet({}) /\ Cardinality({}) = 0 BY FS_EmptySet
  <2>2. ASSUME NEW t \in Task
        PROVE  IsFiniteSet(Pending(t)) /\ join[t] = Cardinality(Unprocessed(t)) + Cardinality(Pending(t))
    <3>1. join[t] = 0 /\ Unprocessed(t) = {} /\ Pending(t) = {} BY <1>5 DEF Init
    <3> QED BY <2>1, <3>1
  <2> QED BY <2>2 DEF Joins
<1>7. Ready BY Sets DEF Init, Ready, ReadyOK, TakenUp, Claimed
<1>8. Preds BY DEF Init, Preds
<1>9. Owners
  <2>1. ASSUME NEW t \in Task PROVE OwnersOK(t)
    <3>1. Holding(t) = {} /\ ~Returning(t) /\ ~Alive(t) BY Sets DEF Init, Holding, Returning, Alive
    <3>2. uses[t] = 0 /\ t \notin recycled /\ t \notin Created BY DEF Init, Created
    <3>3. Cardinality(Holding(t)) = 0 /\ Owning(Returning(t)) = 0 /\ Owning(Alive(t)) = 0
      BY <3>1, FS_EmptySet DEF Owning
    <3> QED BY <3>2, <3>3 DEF OwnersOK
  <2> QED BY <2>1 DEF Owners
<1>10. Counts
  <2>1. {t \in Task : Open(t)} = {} BY Sets DEF Init, Open
  <2> QED BY <2>1, FS_EmptySet DEF Init, Counts
<1> QED BY <1>1, <1>2, <1>3, <1>4, <1>6, <1>7, <1>8, <1>9, <1>10 DEF IInv

\* A step keeps the inductive invariant.
LEMMA NextInv == ASSUME IInv, [Next]_vars PROVE IInv'
<1>1. CASE Next
  <2>1. AsyncAssumption' BY DEF IInv, AsyncAssumption
  <2> QED BY <1>1, <2>1, TypeNext, ClientsNext, WorkersNext, NodesNext, JoinsNext, ReadyNext,
       PredsNext, OwnersNext, CountsNext DEF IInv
<1>2. CASE UNCHANGED vars
  <2> USE <1>2 DEF vars, clientVars, workerVars
  <2>1. (AsyncAssumption /\ TypeOK)' BY DEF IInv, AsyncAssumption, TypeOK
  <2>2. Clients' /\ Workers' BY DEF IInv, Clients, ClientOK, Workers, WorkerOK, Dead, Created
  <2>3. Nodes' BY DEF IInv, Nodes, NodeOK, Nowhere, OneHolder
  <2>4. \A t \in Task : Unprocessed(t)' = Unprocessed(t) /\ Pending(t)' = Pending(t)
    BY DEF Unprocessed, Pending
  <2>5. Joins' BY <2>4, JoinsKept
  <2>6. Ready'
    <3>1. \A t \in Task : (TakenUp(t)' <=> TakenUp(t)) /\ (Claimed(t)' <=> Claimed(t))
      BY DEF TakenUp, Claimed
    <3> QED BY <3>1, ReadyKept DEF IInv, Ready
  <2>7. Preds'
    <3>1. \A t, p \in Task : Settled(t, p)' <=> Settled(t, p) BY <2>4 DEF Settled
    <3> QED BY <3>1 DEF IInv, Preds, Created
  <2>8. Owners'
    <3>1. \A t \in Task : Alive(t)' <=> Alive(t) BY DEF Alive
    <3> QED BY <3>1, OwnersKept DEF Created
  <2>9. Counts'
    <3>1. \A t \in Task : Open(t)' <=> Open(t) BY DEF Open
    <3> QED BY <3>1, CountsKept
  <2> QED BY <2>1, <2>2, <2>3, <2>5, <2>6, <2>7, <2>8, <2>9 DEF IInv
<1> QED BY <1>1, <1>2

\* The invariant IInv above holds in all states of dependent_async, the tear-downs and
\* the handles.
THEOREM AsyncInvariant == AsyncAssumption => (Spec => []IInv)
<1>1. AsyncAssumption /\ Init => IInv BY InitInv
<1>2. IInv /\ [Next]_vars => IInv' BY NextInv
<1> QED BY <1>1, <1>2, PTL DEF Spec

\* No task is in the hands of two workers.
LEMMA OneAtMost ==
    ASSUME IInv, NEW t \in Task
    PROVE  scheduled[t] + Cardinality(Holders(t)) <= 1
<1>1. NodeOK(t) BY DEF IInv, Nodes
<1>2. Holders(t) = {} \/ \E w : Holders(t) = {w} BY <1>1 DEF NodeOK, OneHolder, Holders
<1>3. Cardinality(Holders(t)) \in {0, 1} /\ (Holders(t) = {} => Cardinality(Holders(t)) = 0)
  BY <1>2, FS_EmptySet, FS_Singleton
<1>4. scheduled[t] = 0 \/ (scheduled[t] = 1 /\ Holders(t) = {}) BY <1>1 DEF NodeOK, Holders
<1> QED BY <1>3, <1>4

\* In every state of the invariant the counters and the tasks agree.
LEMMA CountersExact == ASSUME IInv PROVE Consistent
<1>1. TypeOK /\ Clients /\ Nodes BY DEF IInv
<1>2. JoinCounterExact BY DEF IInv, Joins, JoinCounterExact
<1>3. ScheduledOnce
  <2>1. \A t \in Task : t \in ran => scheduled[t] = 0 /\ \A w \in Worker : cache[w] # t
    BY <1>1 DEF Nodes, NodeOK
  <2> QED BY <2>1, OneAtMost DEF ScheduledOnce
<1>4. \A t \in Task : astate[t] = "finished" => t \in ran BY <1>1 DEF Nodes, NodeOK
<1>5. ASSUME topologies = 0, NEW t \in Created PROVE t \in ran
  <2>1. IsFiniteSet({u \in Task : Open(u)}) /\ Cardinality({u \in Task : Open(u)}) = 0
    BY <1>5, Sets DEF IInv, Counts
  <2>2. t \in Task /\ ~Open(t) BY <2>1, NotNone DEF Created
  <2>3. astate[t] = "finished" BY <1>1, <2>2 DEF Open, Created, TypeOK
  <2> QED BY <1>4, <2>2, <2>3
<1> QED BY <1>1, <1>2, <1>3, <1>4, <1>5 DEF Consistent, DoneMeansRan

\* Join counters are exact, a task is scheduled once, and done means that it has run,
\* whatever the order in which the creator of a task and its predecessors' workers
\* come by (dependent_async, _process_dependent_async, _tear_down_dependent_async).
THEOREM AsyncConsistent == AsyncAssumption => (Spec => []Consistent)
<1>1. IInv => Consistent BY CountersExact
<1> QED BY <1>1, AsyncInvariant, PTL

\* In every state of the invariant the predecessors of a task that is taken up are finished.
LEMMA RunsAfter == ASSUME IInv PROVE RunsAfterPredecessors
<1>1. ASSUME NEW t \in Task, TakenUp(t), NEW p \in pred[t]
      PROVE  p \in ran /\ astate[p] = "finished"
  <2>1. join[t] = 0 BY <1>1 DEF IInv, Ready, ReadyOK
  <2>2. Unprocessed(t) = {} /\ Pending(t) = {} BY <2>1, NothingLeft
  <2>3. p \in Task /\ Settled(t, p) BY DEF IInv, Preds, Created
  <2>4. astate[p] = "finished" BY <2>2, <2>3 DEF Settled
  <2> QED BY <2>3, <2>4 DEF IInv, Nodes, NodeOK
<1> QED BY <1>1 DEF RunsAfterPredecessors

\* A task is taken up only when all tasks it was created to depend on have finished,
\* although they finish while it is linked to them (_process_dependent_async).
THEOREM AsyncRunsAfterPredecessors == AsyncAssumption => (Spec => []RunsAfterPredecessors)
<1>1. IInv => RunsAfterPredecessors BY RunsAfter
<1> QED BY <1>1, AsyncInvariant, PTL

\* In every state of the invariant recycled nodes are those without an owner.
LEMMA OwnersExact == ASSUME IInv PROVE Ownership
<1>1. ASSUME NEW t \in recycled
      PROVE  /\ \A h \in Handle : handle[h] # t
             /\ \A c \in Client : made[c] # t
             /\ scheduled[t] = 0 /\ Holders(t) = {} /\ Pending(t) = {}
  <2>1. t \in Task /\ t \in Created /\ uses[t] = 0 BY DEF IInv, TypeOK, Owners, OwnersOK
  <2>2. /\ \A h \in Handle : handle[h] # t
        /\ ~Returning(t) /\ ~Alive(t) BY <2>1, Owned
  <2>3. astate[t] = "finished" /\ t \in ran
    BY <2>1, <2>2 DEF IInv, Nodes, NodeOK, Alive, Created, TypeOK
  <2>4. TakenUp(t) BY <2>3 DEF TakenUp
  <2>5. Pending(t) = {} BY <2>1, <2>4, NothingLeft DEF IInv, Ready, ReadyOK
  <2>6. scheduled[t] = 0 /\ \A w \in Worker : cache[w] # t BY <2>1, <2>3 DEF IInv, Nodes, NodeOK
  <2>7. \A w \in Worker : node[w] # t BY <2>2 DEF Alive
  <2> QED BY <2>2, <2>5, <2>6, <2>7 DEF Holders, Returning
<1>2. NoUseAfterRecycle BY <1>1 DEF NoUseAfterRecycle
<1>3. NoLeak BY DEF IInv, Owners, OwnersOK, NoLeak, Created
<1> QED BY <1>2, <1>3 DEF Ownership

\* Nobody reaches a recycled node, and no node without an owner is kept: the use_count
\* counts handles, the handle to be returned and the executor (AsyncTask, _decref).
THEOREM AsyncOwnership == AsyncAssumption => (Spec => []Ownership)
<1>1. IInv => Ownership BY OwnersExact
<1> QED BY <1>1, AsyncInvariant, PTL

-----------------------------------------------------------------------------
(* Runtime tasks: where they are *)

\* The places of invocations: a worker, and how deep below its own the frame is.
Slots == UNION {{<<w, d>> : d \in 1 .. Len(stack[w])} : w \in Worker}
TopSlot(w) == <<w, Len(stack[w])>>
At(s) == stack[s[1]][Len(stack[s[1]]) + 1 - s[2]]

Live == Run!Created \ recycled
Kids(t) == {c \in Live : parent[c] = t}

Inside == {"work", "corun", "raise", "store", "leave"}
Ending == {"finish", "count"}

\* A node that has not been created, or has been given back, is nowhere.
Gone(t) ==
    /\ scheduled[t] = 0 /\ join[t] = 0 /\ Kids(t) = {}
    /\ \A s \in Slots : At(s).node # t

Single == \A s, u \in Slots : At(s).node = At(u).node => s = u

\* Below the topmost frame of a worker there are calls of corun.
Below == \A s \in Slots : s # TopSlot(s[1]) => At(s).pc = "corun"

\* A task that waits in a queue has not run.
Waiting(t) == /\ scheduled[t] = 1 /\ ~preempted[t] /\ join[t] = 0 /\ Kids(t) = {}
              /\ \A s \in Slots : At(s).node # t

\* What an invocation says of its task.
Invokes(s) ==
    LET t == At(s).node IN
    /\ t \in Live /\ scheduled[t] = 0
    /\ At(s).pc = "begin" => join[t] = 0 /\ Kids(t) = {}
    /\ At(s).pc \in Inside /\ Run!IsRuntime(t) => preempted[t] /\ join[t] = Cardinality(Kids(t)) + 1
    /\ At(s).pc \in Inside /\ ~Run!IsRuntime(t) => ~preempted[t] /\ join[t] = 0 /\ Kids(t) = {}
    /\ At(s).pc = "corun" => Run!IsRuntime(t)
    /\ At(s).pc \in Ending => ~preempted[t] /\ join[t] = 0 /\ Kids(t) = {}
    /\ At(s).pc = "count" => parent[t] # NoTask /\ At(s).again

\* A runtime task that has been left before its children.
Left(t) == /\ scheduled[t] = 0 /\ preempted[t] /\ join[t] = Cardinality(Kids(t)) /\ Kids(t) # {}

Located ==
    /\ Single /\ Below
    /\ \A s \in Slots : Invokes(s)
    /\ \A t \in Task \ Live : Gone(t)
    /\ \A t \in Live : \/ Waiting(t)
                       \/ \E s \in Slots : At(s).node = t
                       \/ Left(t)

\* Parents, and what the nodes are before they are created.
Family ==
    /\ \A t \in Task \ Run!Created : ~preempted[t] /\ parent[t] = NoTask /\ promise[t] = "pending"
    /\ \A t \in Live : parent[t] # NoTask => parent[t] \in Live /\ Run!IsRuntime(parent[t])
    /\ \A t \in Run!Created : kind[t] = "graph" => parent[t] = NoTask

\* The promises.
Promises ==
    /\ \A t \in Task : promise[t] = "broken" => t \in recycled /\ parent[t] # NoTask
    /\ \A t \in recycled : kind[t] \in {"promised", "graph"} => promise[t] # "pending"
    /\ \A s \in Slots : At(s).pc \in Ending /\ kind[At(s).node] = "promised"
                          /\ parent[At(s).node] = NoTask => promise[At(s).node] # "pending"

RunInv == Run!TypeOK /\ Located /\ Family /\ Promises

-----------------------------------------------------------------------------
(* Stacks of invocations *)

\* The topmost frame.
LEMMA TopFrame ==
    ASSUME Run!TypeOK, NEW w \in Worker, stack[w] # <<>>
    PROVE  /\ TopSlot(w) \in Slots /\ At(TopSlot(w)) = Run!Top(w)
           /\ Run!Top(w) \in Run!Frame /\ Run!Node(w) \in Task
<1>1. stack[w] \in Seq(Run!Frame) BY DEF Run!TypeOK
<1>2. Len(stack[w]) \in Nat /\ Len(stack[w]) >= 1 /\ Head(stack[w]) = stack[w][1] /\ Head(stack[w]) \in Run!Frame
  BY <1>1
<1>3. TopSlot(w) \in Slots BY <1>2 DEF TopSlot, Slots
<1>4. At(TopSlot(w)) = stack[w][1] BY <1>2 DEF At, TopSlot
<1> QED BY <1>2, <1>3, <1>4 DEF Run!Top, Run!Node, Run!Frame

LEMMA SlotFrames ==
    ASSUME Run!TypeOK, NEW s \in Slots
    PROVE  /\ At(s) \in Run!Frame /\ At(s).node \in Task
           /\ s[1] \in Worker /\ s[2] \in Nat /\ 1 <= s[2] /\ s[2] <= Len(stack[s[1]])
           /\ s = <<s[1], s[2]>>
<1>1. PICK w \in Worker : s \in {<<w, d>> : d \in 1 .. Len(stack[w])} BY DEF Slots
<1>2. PICK d \in 1 .. Len(stack[w]) : s = <<w, d>> BY <1>1
<1>3. stack[w] \in Seq(Run!Frame) /\ Len(stack[w]) \in Nat BY DEF Run!TypeOK
<1>4. Len(stack[w]) + 1 - d \in 1 .. Len(stack[w]) BY <1>3
<1>5. At(s) = stack[w][Len(stack[w]) + 1 - d] BY <1>2 DEF At
<1>6. At(s) \in Run!Frame BY <1>3, <1>4, <1>5
<1> QED BY <1>2, <1>3, <1>6 DEF Run!Frame

\* What a change of one stack does to the places.
LEMMA SlotsOf ==
    ASSUME NEW w \in Worker, NEW s
    PROVE  s \in Slots /\ s[1] = w <=> \E d \in 1 .. Len(stack[w]) : s = <<w, d>> BY DEF Slots

\* Pushed: a place is added; changed: one has another frame; popped: one is taken away.
NewSlot(w) == <<w, Len(stack[w]) + 1>>

Pushed(w, f) ==
    /\ NewSlot(w) \notin Slots /\ Slots' = Slots \cup {NewSlot(w)}
    /\ TopSlot(w)' = NewSlot(w) /\ At(TopSlot(w))' = f
    /\ \A u \in Slots : At(u)' = At(u)
    /\ \A v \in Worker \ {w} : TopSlot(v)' = TopSlot(v)

Changed(w, f) ==
    /\ Slots' = Slots /\ At(TopSlot(w))' = f
    /\ \A u \in Slots \ {TopSlot(w)} : At(u)' = At(u)
    /\ \A v \in Worker : TopSlot(v)' = TopSlot(v)

Popped(w) ==
    /\ Slots' = Slots \ {TopSlot(w)}
    /\ \A u \in Slots' : At(u)' = At(u)
    /\ \A v \in Worker \ {w} : TopSlot(v)' = TopSlot(v)
    /\ TopSlot(w)' = <<w, Len(stack[w]) - 1>>

LEMMA PushSlots ==
    ASSUME Run!TypeOK, NEW w \in Worker, NEW f \in Run!Frame, Run!Push(w, f)
    PROVE  Pushed(w, f) /\ stack' \in [Worker -> Seq(Run!Frame)]
<1> DEFINE n == Len(stack[w])
<1>1. stack \in [Worker -> Seq(Run!Frame)] BY DEF Run!TypeOK
<1>2. stack[w] \in Seq(Run!Frame) /\ n \in Nat BY <1>1
<1>3. stack' = [stack EXCEPT ![w] = <<f>> \o stack[w]] BY <1>1 DEF Run!Push
<1>4. <<f>> \o stack[w] \in Seq(Run!Frame) /\ Len(<<f>> \o stack[w]) = n + 1
      /\ (<<f>> \o stack[w])[1] = f /\ \A i \in 1 .. n : (<<f>> \o stack[w])[i + 1] = stack[w][i]
  BY <1>2
<1>5. stack'[w] = <<f>> \o stack[w] /\ \A v \in Worker \ {w} : stack'[v] = stack[v] BY <1>1, <1>3
<1>6. stack' \in [Worker -> Seq(Run!Frame)] BY <1>1, <1>3, <1>4
<1>7. <<w, n + 1>> \notin Slots BY <1>2, SlotsOf
<1>8. ASSUME NEW u \in Slots PROVE u \in Slots' /\ At(u)' = At(u)
  <2>0. PICK v \in Worker : \E d \in 1 .. Len(stack[v]) : u = <<v, d>> BY DEF Slots
  <2>1. PICK d \in 1 .. Len(stack[v]) : u = <<v, d>> BY <2>0
  <2>2. CASE v = w
    <3>1. d \in 1 .. n + 1 /\ n + 1 - d \in 1 .. n /\ n + 1 + 1 - d = (n + 1 - d) + 1 BY <1>2, <2>1, <2>2
    <3>2. Len(stack'[w]) = n + 1 BY <1>4, <1>5
    <3>3. At(u)' = stack'[w][n + 1 + 1 - d] BY <2>1, <2>2, <3>2 DEF At
    <3>4. At(u) = stack[w][n + 1 - d] BY <2>1, <2>2 DEF At
    <3>5. u \in Slots' BY <2>1, <2>2, <3>1, <3>2 DEF Slots
    <3> QED BY <1>4, <1>5, <3>1, <3>3, <3>4, <3>5
  <2>3. CASE v # w BY <1>5, <2>1, <2>3 DEF At, Slots
  <2> QED BY <2>2, <2>3
<1>9. <<w, n + 1>> \in Slots'
  <2>1. Len(stack'[w]) = n + 1 BY <1>4, <1>5
  <2>2. n + 1 \in 1 .. n + 1 BY <1>2
  <2> QED BY <1>4, <1>5, <2>1, <2>2 DEF Slots
<1>10. ASSUME NEW u \in Slots' PROVE u \in Slots \cup {<<w, n + 1>>}
  <2>0. PICK v \in Worker : \E d \in 1 .. Len(stack'[v]) : u = <<v, d>> BY DEF Slots
  <2>1. PICK d \in 1 .. Len(stack'[v]) : u = <<v, d>> BY <2>0
  <2>2. CASE v = w
    <3>1. d \in 1 .. n \/ d = n + 1 BY <1>2, <1>4, <1>5, <2>1, <2>2
    <3> QED BY <2>1, <2>2, <3>1 DEF Slots
  <2>3. CASE v # w BY <1>5, <2>1, <2>3 DEF Slots
  <2> QED BY <2>2, <2>3
<1>11. TopSlot(w)' = <<w, n + 1>> /\ \A v \in Worker \ {w} : TopSlot(v)' = TopSlot(v)
  BY <1>4, <1>5 DEF TopSlot
<1>12. At(TopSlot(w))' = f
  <2>1. Len(stack'[w]) = n + 1 /\ stack'[w][1] = f BY <1>4, <1>5
  <2>2. n + 1 + 1 - (n + 1) = 1 BY <1>2
  <2>3. At(TopSlot(w))' = stack'[w][n + 1 + 1 - (n + 1)] BY <1>11, <2>1 DEF At
  <2> QED BY <2>1, <2>2, <2>3
<1> QED BY <1>6, <1>7, <1>8, <1>9, <1>10, <1>11, <1>12 DEF Pushed, NewSlot

LEMMA BecomeSlots ==
    ASSUME Run!TypeOK, NEW w \in Worker, stack[w] # <<>>, NEW f \in Run!Frame, Run!Become(w, f)
    PROVE  Changed(w, f) /\ stack' \in [Worker -> Seq(Run!Frame)]
<1> DEFINE n == Len(stack[w])
<1>1. stack \in [Worker -> Seq(Run!Frame)] BY DEF Run!TypeOK
<1>2. stack[w] \in Seq(Run!Frame) /\ n \in Nat /\ n >= 1 BY <1>1
<1>3. stack' = [stack EXCEPT ![w] = <<f>> \o Tail(stack[w])] BY <1>1 DEF Run!Become
<1>4. <<f>> \o Tail(stack[w]) \in Seq(Run!Frame) /\ Len(<<f>> \o Tail(stack[w])) = n
      /\ (<<f>> \o Tail(stack[w]))[1] = f /\ \A i \in 2 .. n : (<<f>> \o Tail(stack[w]))[i] = stack[w][i]
  BY <1>2
<1>5. stack'[w] = <<f>> \o Tail(stack[w]) /\ \A v \in Worker \ {w} : stack'[v] = stack[v] BY <1>1, <1>3
<1>6. stack' \in [Worker -> Seq(Run!Frame)] BY <1>1, <1>3, <1>4
<1>7. \A v \in Worker : Len(stack'[v]) = Len(stack[v]) BY <1>4, <1>5
<1>8. Slots' = Slots BY <1>7 DEF Slots
<1>9. ASSUME NEW u \in Slots, u # TopSlot(w) PROVE At(u)' = At(u)
  <2>0. PICK v \in Worker : \E d \in 1 .. Len(stack[v]) : u = <<v, d>> BY DEF Slots
  <2>1. PICK d \in 1 .. Len(stack[v]) : u = <<v, d>> BY <2>0
  <2>2. CASE v = w
    <3>1. d # n BY <1>9, <2>1, <2>2 DEF TopSlot
    <3>2. n + 1 - d \in 2 .. n BY <1>2, <2>1, <2>2, <3>1
    <3>3. At(u)' = stack'[w][n + 1 - d] BY <1>7, <2>1, <2>2 DEF At
    <3>4. At(u) = stack[w][n + 1 - d] BY <2>1, <2>2 DEF At
    <3> QED BY <1>4, <1>5, <3>2, <3>3, <3>4
  <2>3. CASE v # w BY <1>5, <2>1, <2>3 DEF At
  <2> QED BY <2>2, <2>3
<1>10. At(TopSlot(w))' = f
  <2>1. n + 1 - n = 1 BY <1>2
  <2>2. TopSlot(w)' = <<w, n>> BY <1>7 DEF TopSlot
  <2>3. At(TopSlot(w))' = stack'[w][n + 1 - n] BY <1>7, <2>2 DEF At
  <2> QED BY <1>4, <1>5, <2>1, <2>3
<1>11. \A v \in Worker : TopSlot(v)' = TopSlot(v) BY <1>7 DEF TopSlot
<1> QED BY <1>6, <1>8, <1>9, <1>10, <1>11 DEF Changed

LEMMA PopSlots ==
    ASSUME Run!TypeOK, NEW w \in Worker, stack[w] # <<>>, Run!Pop(w)
    PROVE  Popped(w) /\ stack' \in [Worker -> Seq(Run!Frame)]
<1> DEFINE n == Len(stack[w])
<1>1. stack \in [Worker -> Seq(Run!Frame)] BY DEF Run!TypeOK
<1>2. stack[w] \in Seq(Run!Frame) /\ n \in Nat /\ n >= 1 BY <1>1
<1>3. stack' = [stack EXCEPT ![w] = Tail(stack[w])] BY <1>1 DEF Run!Pop
<1>4. Tail(stack[w]) \in Seq(Run!Frame) /\ Len(Tail(stack[w])) = n - 1
      /\ \A i \in 1 .. n - 1 : Tail(stack[w])[i] = stack[w][i + 1] BY <1>2
<1>5. stack'[w] = Tail(stack[w]) /\ \A v \in Worker \ {w} : stack'[v] = stack[v] BY <1>1, <1>3
<1>6. stack' \in [Worker -> Seq(Run!Frame)] BY <1>1, <1>3, <1>4
<1>7. ASSUME NEW u \in Slots' PROVE u \in Slots \ {TopSlot(w)} /\ At(u)' = At(u)
  <2>0. PICK v \in Worker : \E d \in 1 .. Len(stack'[v]) : u = <<v, d>> BY <1>7 DEF Slots
  <2>1. PICK d \in 1 .. Len(stack'[v]) : u = <<v, d>> BY <2>0
  <2>2. CASE v = w
    <3>0. Len(stack'[v]) = n - 1 BY <1>4, <1>5, <2>2
    <3>1. d \in 1 .. n - 1 /\ d \in 1 .. n /\ d # n BY <1>2, <2>1, <3>0
    <3>2. n - 1 + 1 - d \in 1 .. n - 1 /\ (n - 1 + 1 - d) + 1 = n + 1 - d BY <1>2, <3>1
    <3>3. At(u)' = stack'[w][n - 1 + 1 - d] BY <1>4, <1>5, <2>1, <2>2 DEF At
    <3>4. At(u) = stack[w][n + 1 - d] BY <2>1, <2>2 DEF At
    <3>5. u \in Slots /\ u # TopSlot(w) BY <2>1, <2>2, <3>1 DEF Slots, TopSlot
    <3> QED BY <1>4, <1>5, <3>2, <3>3, <3>4, <3>5
  <2>3. CASE v # w BY <1>5, <2>1, <2>3 DEF At, Slots, TopSlot
  <2> QED BY <2>2, <2>3
<1>8. ASSUME NEW u \in Slots \ {TopSlot(w)} PROVE u \in Slots'
  <2>0. PICK v \in Worker : \E d \in 1 .. Len(stack[v]) : u = <<v, d>> BY DEF Slots
  <2>1. PICK d \in 1 .. Len(stack[v]) : u = <<v, d>> BY <2>0
  <2>2. CASE v = w
    <3>1. d # n BY <2>1, <2>2 DEF TopSlot
    <3>2. d \in 1 .. n - 1 /\ Len(stack'[w]) = n - 1 BY <1>2, <1>4, <1>5, <2>1, <2>2, <3>1
    <3> QED BY <2>1, <2>2, <3>2 DEF Slots
  <2>3. CASE v # w BY <1>5, <2>1, <2>3 DEF Slots
  <2> QED BY <2>2, <2>3
<1>9. TopSlot(w)' = <<w, n - 1>> /\ \A v \in Worker \ {w} : TopSlot(v)' = TopSlot(v)
  BY <1>4, <1>5 DEF TopSlot
<1> QED BY <1>6, <1>7, <1>8, <1>9 DEF Popped


-----------------------------------------------------------------------------
(* Places of tasks *)

LEMMA KidsFacts ==
    /\ \A t \in Task : IsFiniteSet(Kids(t)) /\ Cardinality(Kids(t)) \in Nat
    /\ \A t \in Task : Cardinality(Kids(t)) = 0 <=> Kids(t) = {}
<1> SUFFICES ASSUME NEW t \in Task
             PROVE  /\ IsFiniteSet(Kids(t)) /\ Cardinality(Kids(t)) \in Nat
                    /\ Cardinality(Kids(t)) = 0 <=> Kids(t) = {} OBVIOUS
<1>1. IsFiniteSet(Task) BY MCAssumption DEF Run!RuntimeAssumption, Run!IsFiniteSet, IsFiniteSet
<1>2. Kids(t) \subseteq Task BY DEF Kids, Live, Run!Created
<1>3. IsFiniteSet(Kids(t)) BY <1>1, <1>2, FS_Subset
<1> QED BY <1>3, FS_CardinalityType, FS_EmptySet

\* What the topmost invocation of a worker says.
LEMMA TopSays ==
    ASSUME Run!TypeOK, Located, NEW w \in Worker, stack[w] # <<>>
    PROVE  /\ TopSlot(w) \in Slots /\ At(TopSlot(w)) = Run!Top(w) /\ Invokes(TopSlot(w))
           /\ Run!Top(w) \in Run!Frame /\ Run!Node(w) \in Task /\ Run!Top(w).node = Run!Node(w)
           /\ Run!Node(w) \in Live /\ scheduled[Run!Node(w)] = 0
           /\ \A u \in Slots : u # TopSlot(w) => At(u).node # Run!Node(w)
<1>1. TopSlot(w) \in Slots /\ At(TopSlot(w)) = Run!Top(w) BY TopFrame
<1>2. Invokes(TopSlot(w)) BY <1>1 DEF Located
<1>3. Run!Top(w).node = Run!Node(w) BY DEF Run!Node
<1>4. Run!Top(w) \in Run!Frame /\ Run!Node(w) \in Task BY TopFrame
<1>5. Run!Node(w) \in Live /\ scheduled[Run!Node(w)] = 0 BY <1>1, <1>2, <1>3 DEF Invokes
<1>6. \A u \in Slots : u # TopSlot(w) => At(u).node # Run!Node(w) BY <1>1, <1>3 DEF Located, Single
<1> QED BY <1>1, <1>2, <1>3, <1>4, <1>5, <1>6

\* A step of the topmost invocation on its own task.
LEMMA MoveLocated ==
    ASSUME Run!TypeOK, Located, NEW w \in Worker, stack[w] # <<>>, NEW f \in Run!Frame,
           f.node = Run!Node(w), Run!Become(w, f), UNCHANGED <<kind, parent, scheduled, recycled>>,
           \A u \in Task \ {Run!Node(w)} : preempted'[u] = preempted[u] /\ join'[u] = join[u],
           Invokes(TopSlot(w))'
    PROVE  Located'
<1> DEFINE t == Run!Node(w)
<1>1. /\ TopSlot(w) \in Slots /\ At(TopSlot(w)).node = t /\ t \in Live /\ t \in Task
      /\ \A u \in Slots : u # TopSlot(w) => At(u).node # t BY TopSays
<1>2. Changed(w, f) BY BecomeSlots
<1>3. Live' = Live /\ \A u \in Task : Kids(u)' = Kids(u) BY DEF Live, Kids, Run!Created
<1>4. \A u \in Slots : At(u)'.node = At(u).node BY <1>1, <1>2 DEF Changed
<1>5. \A u \in Slots : At(u).node \in Task /\ u[1] \in Worker BY SlotFrames
<1>6. Single' BY <1>2, <1>4 DEF Changed, Located, Single
<1>7. Below'
  <2> SUFFICES ASSUME NEW u \in Slots, u # TopSlot(u[1]) PROVE At(u)'.pc = "corun"
    BY <1>2, <1>5 DEF Below, Changed
  <2>1. u # TopSlot(w) BY DEF TopSlot
  <2> QED BY <1>2, <2>1 DEF Changed, Located, Below
<1>8. ASSUME NEW u \in Slots' PROVE Invokes(u)'
  <2>1. CASE u = TopSlot(w)
    <3>1. TopSlot(w)' = TopSlot(w) BY <1>2 DEF Changed
    <3> QED BY <2>1, <3>1
  <2>2. CASE u # TopSlot(w)
    <3>1. At(u)' = At(u) /\ u \in Slots BY <1>2, <1>8, <2>2 DEF Changed
    <3>2. At(u).node # t /\ At(u).node \in Task BY <1>1, <1>5, <2>2, <3>1
    <3>3. Invokes(u) BY <3>1 DEF Located
    <3> QED BY <1>3, <3>1, <3>2, <3>3 DEF Invokes, Run!IsRuntime
  <2> QED BY <2>1, <2>2
<1>9. ASSUME NEW u \in Task \ Live' PROVE Gone(u)'
  <2>1. Gone(u) /\ u # t BY <1>1, <1>3 DEF Located
  <2> QED BY <1>2, <1>3, <1>4, <2>1 DEF Gone, Changed
<1>10. ASSUME NEW u \in Live'
       PROVE  Waiting(u)' \/ (\E s \in Slots' : At(s)'.node = u) \/ Left(u)'
  <2>0. u \in Live /\ u \in Task BY <1>3, <1>10 DEF Live, Run!Created
  <2>1. CASE u = t BY <1>1, <1>2, <1>4, <2>1 DEF Changed
  <2>2. CASE u # t
    <3>1. preempted'[u] = preempted[u] /\ join'[u] = join[u] /\ Kids(u)' = Kids(u) BY <1>3, <2>0, <2>2
    <3>2. CASE Waiting(u) BY <1>2, <1>4, <3>1, <3>2 DEF Waiting, Changed
    <3>3. CASE \E s \in Slots : At(s).node = u BY <1>2, <1>4, <3>3 DEF Changed
    <3>4. CASE Left(u) BY <3>1, <3>4 DEF Left
    <3> QED BY <2>0, <3>2, <3>3, <3>4 DEF Located
  <2> QED BY <2>1, <2>2
<1> QED BY <1>6, <1>7, <1>8, <1>9, <1>10 DEF Located

\* A step that changes the frame alone.
LEMMA FrameLocated ==
    ASSUME Run!TypeOK, Located, NEW w \in Worker, stack[w] # <<>>, NEW f \in Run!Frame,
           f.node = Run!Node(w), Run!Become(w, f),
           UNCHANGED <<kind, parent, scheduled, recycled, preempted, join>>,
           \/ Run!Top(w).pc \in Inside /\ f.pc \in Inside /\ (f.pc = "corun" => Run!IsRuntime(Run!Node(w)))
           \/ Run!Top(w).pc \in Ending /\ f.pc = "finish"
           \/ f.pc = "finish" /\ ~preempted[Run!Node(w)] /\ join[Run!Node(w)] = 0 /\ Kids(Run!Node(w)) = {}
    PROVE  Located'
<1>0. PICK t \in Task : t = Run!Node(w) BY TopSays
<1>1. /\ Invokes(TopSlot(w)) /\ At(TopSlot(w)) = Run!Top(w) /\ Run!Top(w).node = t /\ f.node = t
  BY <1>0, TopSays
<1>2. At(TopSlot(w))' = f BY BecomeSlots DEF Changed
<1>3. Live' = Live /\ Kids(t)' = Kids(t) BY DEF Live, Kids, Run!Created
<1>4. Invokes(TopSlot(w))' BY <1>0, <1>1, <1>2, <1>3 DEF Invokes, Inside, Ending, Run!IsRuntime
<1> QED BY <1>4, MoveLocated


\* A task that is taken from a queue.
LEMMA TakeLocated ==
    ASSUME Run!TypeOK, Located, NEW w \in Worker, NEW t \in Task, Run!Take(w, t)
    PROVE  Located' /\ stack' \in [Worker -> Seq(Run!Frame)]
<1>0. /\ scheduled[t] > 0 /\ scheduled \in [Task -> Nat] /\ (stack[w] = <<>> \/ Run!Running(w, "corun"))
      /\ scheduled' = [scheduled EXCEPT ![t] = @ - 1] /\ Run!Push(w, Run!Enter(t))
      /\ UNCHANGED <<kind, parent, recycled, preempted, join>>
  BY DEF Run!Take, Run!TypeOK, Run!nodeVars
<1>1. Waiting(t) /\ t \in Live
  <2>1. t \in Live BY <1>0 DEF Located, Gone
  <2>2. ~Left(t) BY <1>0 DEF Left
  <2>3. ~\E s \in Slots : At(s).node = t BY <1>0 DEF Located, Invokes
  <2> QED BY <2>1, <2>2, <2>3 DEF Located
<1>2. Run!Enter(t) \in Run!Frame /\ Run!Enter(t).node = t /\ Run!Enter(t).pc = "begin"
  BY DEF Run!Enter, Run!Frame, Run!Nodes
<1>3. Pushed(w, Run!Enter(t)) /\ stack' \in [Worker -> Seq(Run!Frame)] BY <1>0, <1>2, PushSlots
<1>4. Live' = Live /\ \A u \in Task : Kids(u)' = Kids(u) BY <1>0 DEF Live, Kids, Run!Created
<1>5. scheduled'[t] = 0 /\ \A u \in Task \ {t} : scheduled'[u] = scheduled[u] BY <1>0, <1>1 DEF Waiting
<1>6. \A u \in Slots : At(u).node \in Task /\ u[1] \in Worker /\ At(u).node # t /\ At(u)' = At(u)
  BY <1>1, <1>3, SlotFrames DEF Waiting, Pushed
<1>8. PICK z \in Slots' : z = TopSlot(w)' /\ z \notin Slots /\ Slots' = Slots \cup {z} BY <1>3 DEF Pushed
<1>9. At(z)' = Run!Enter(t) BY <1>3, <1>8 DEF Pushed
<1>10. Single' BY <1>2, <1>6, <1>8, <1>9 DEF Located, Single
<1>11. Below'
  <2> SUFFICES ASSUME NEW u \in Slots, u # TopSlot(u[1])' PROVE At(u).pc = "corun"
    BY <1>3, <1>6, <1>8 DEF Below, Pushed, TopSlot, NewSlot
  <2>1. CASE u = TopSlot(w)
    <3>1. stack[w] # <<>>
      <4>1. u[2] >= 1 /\ u[2] = Len(stack[w]) BY <2>1, SlotFrames DEF TopSlot
      <4> QED BY <4>1
    <3>2. At(u) = Run!Top(w) BY <2>1, <3>1, TopFrame
    <3> QED BY <1>0, <3>1, <3>2 DEF Run!Running, Run!Top
  <2>2. CASE u # TopSlot(w) /\ u[1] = w BY <2>2 DEF Located, Below
  <2>3. CASE u[1] # w
    <3>1. TopSlot(u[1])' = TopSlot(u[1]) BY <1>3, <1>6, <2>3 DEF Pushed
    <3> QED BY <3>1 DEF Located, Below
  <2> QED BY <2>1, <2>2, <2>3
<1>12. ASSUME NEW u \in Slots' PROVE Invokes(u)'
  <2>1. CASE u = z BY <1>0, <1>1, <1>2, <1>4, <1>5, <1>9, <2>1 DEF Invokes, Waiting, Inside, Ending
  <2>2. CASE u # z
    <3>1. At(u)' = At(u) /\ u \in Slots BY <1>6, <1>8, <2>2
    <3>2. At(u).node # t /\ At(u).node \in Task BY <1>6, <3>1
    <3>3. Invokes(u) BY <3>1 DEF Located
    <3> QED BY <1>0, <1>4, <1>5, <3>1, <3>2, <3>3 DEF Invokes, Run!IsRuntime
  <2> QED BY <2>1, <2>2
<1>13. ASSUME NEW u \in Task \ Live' PROVE Gone(u)'
  <2>1. Gone(u) /\ u # t BY <1>1, <1>4 DEF Located
  <2> QED BY <1>0, <1>2, <1>4, <1>5, <1>6, <1>8, <1>9, <2>1 DEF Gone
<1>14. ASSUME NEW u \in Live'
       PROVE  Waiting(u)' \/ (\E s \in Slots' : At(s)'.node = u) \/ Left(u)'
  <2>0. u \in Live /\ u \in Task BY <1>4, <1>14 DEF Live, Run!Created
  <2>1. CASE u = t BY <1>2, <1>8, <1>9, <2>1
  <2>2. CASE u # t
    <3>1. scheduled'[u] = scheduled[u] /\ Kids(u)' = Kids(u) BY <1>4, <1>5, <2>0, <2>2
    <3>2. CASE Waiting(u) BY <1>0, <1>2, <1>6, <1>8, <1>9, <2>2, <3>1, <3>2 DEF Waiting
    <3>3. CASE \E s \in Slots : At(s).node = u BY <1>6, <1>8, <3>3
    <3>4. CASE Left(u) BY <1>0, <3>1, <3>4 DEF Left
    <3> QED BY <2>0, <3>2, <3>3, <3>4 DEF Located
  <2> QED BY <2>1, <2>2
<1> QED BY <1>3, <1>10, <1>11, <1>12, <1>13, <1>14 DEF Located

\* When a frame is taken away, those that stay are as they were.
LEMMA PopPlaces ==
    ASSUME Run!TypeOK, Located, NEW w \in Worker, stack[w] # <<>>, Popped(w)
    PROVE  /\ Single' /\ Below'
           /\ \A u \in Slots' : /\ u \in Slots /\ At(u)' = At(u) /\ At(u).node # Run!Node(w)
                                /\ At(u).node \in Task /\ Invokes(u)
           /\ \A u \in Slots : At(u).node # Run!Node(w) => u \in Slots'
<1>1. \A u \in Slots' : u \in Slots /\ At(u)' = At(u) /\ u # TopSlot(w) BY DEF Popped
<1>2. \A u \in Slots' : At(u).node # Run!Node(w) /\ At(u).node \in Task /\ Invokes(u) /\ u[1] \in Worker
  BY <1>1, TopSays, SlotFrames DEF Located
<1>3. \A u \in Slots : At(u).node # Run!Node(w) => u \in Slots' BY TopSays DEF Popped
<1>4. Single' BY <1>1 DEF Located, Single
<1>5. Below'
  <2> SUFFICES ASSUME NEW u \in Slots', u # TopSlot(u[1])' PROVE At(u).pc = "corun"
    BY <1>1 DEF Below
  <2>1. u # TopSlot(u[1]) BY <1>1, <1>2 DEF Popped
  <2> QED BY <1>1, <2>1 DEF Located, Below
<1> QED BY <1>1, <1>2, <1>3, <1>4, <1>5

\* A runtime task that is left before its children.
LEMMA LeaveLocated ==
    ASSUME Run!TypeOK, Located, NEW w \in Worker, Run!Leave(w), join[Run!Node(w)] # 1
    PROVE  Located' /\ stack' \in [Worker -> Seq(Run!Frame)]
<1>0. PICK t \in Task : t = Run!Node(w) BY TopFrame DEF Run!Leave, Run!Running
<1>1. /\ stack[w] # <<>> /\ Run!Top(w).pc = "leave" /\ Run!IsRuntime(t) /\ join[t] # 1
      /\ Run!Pop(w) /\ join' = [join EXCEPT ![t] = @ - 1] /\ join \in [Task -> Nat]
      /\ UNCHANGED <<kind, parent, recycled, preempted, scheduled>>
  BY <1>0 DEF Run!Leave, Run!Running, Run!Top, Run!TypeOK
<1>2. Popped(w) /\ stack' \in [Worker -> Seq(Run!Frame)] BY <1>1, PopSlots
<1>3. /\ Invokes(TopSlot(w)) /\ At(TopSlot(w)) = Run!Top(w) /\ Run!Top(w).node = t /\ t \in Live
  BY <1>0, <1>1, TopSays
<1>4. preempted[t] /\ join[t] = Cardinality(Kids(t)) + 1 /\ scheduled[t] = 0 BY <1>1, <1>3 DEF Invokes, Inside
<1>5. Live' = Live /\ \A u \in Task : Kids(u)' = Kids(u) BY <1>1 DEF Live, Kids, Run!Created
<1>6. join'[t] = Cardinality(Kids(t)) /\ Kids(t) # {} /\ \A u \in Task \ {t} : join'[u] = join[u]
  <2>1. Cardinality(Kids(t)) \in Nat /\ (Kids(t) = {} => Cardinality(Kids(t)) = 0) BY KidsFacts
  <2> QED BY <1>1, <1>4, <2>1
<1>7. Left(t)' BY <1>1, <1>4, <1>5, <1>6 DEF Left
<1>8. /\ Single' /\ Below'
      /\ \A u \in Slots' : /\ u \in Slots /\ At(u)' = At(u) /\ At(u).node # t
                           /\ At(u).node \in Task /\ Invokes(u)
      /\ \A u \in Slots : At(u).node # t => u \in Slots' BY <1>0, <1>1, <1>2, PopPlaces
<1>9. ASSUME NEW u \in Slots' PROVE Invokes(u)'
  <2>1. At(u)' = At(u) /\ At(u).node # t /\ At(u).node \in Task /\ Invokes(u) BY <1>8, <1>9
  <2> QED BY <1>1, <1>5, <1>6, <2>1 DEF Invokes, Run!IsRuntime
<1>10. ASSUME NEW u \in Task \ Live' PROVE Gone(u)'
  <2>1. Gone(u) /\ u # t BY <1>3, <1>5 DEF Located
  <2> QED BY <1>1, <1>5, <1>6, <1>8, <2>1 DEF Gone
<1>11. ASSUME NEW u \in Live'
       PROVE  Waiting(u)' \/ (\E s \in Slots' : At(s)'.node = u) \/ Left(u)'
  <2>0. u \in Live /\ u \in Task BY <1>5, <1>11 DEF Live, Run!Created
  <2>1. CASE u = t BY <1>7, <2>1
  <2>2. CASE u # t
    <3>1. join'[u] = join[u] /\ Kids(u)' = Kids(u) BY <1>5, <1>6, <2>0, <2>2
    <3>2. CASE Waiting(u) BY <1>1, <1>8, <3>1, <3>2 DEF Waiting
    <3>3. CASE \E s \in Slots : At(s).node = u BY <1>8, <2>2, <3>3
    <3>4. CASE Left(u) BY <1>1, <3>1, <3>4 DEF Left
    <3> QED BY <2>0, <3>2, <3>3, <3>4 DEF Located
  <2> QED BY <2>1, <2>2
<1> QED BY <1>2, <1>8, <1>9, <1>10, <1>11 DEF Located

\* The end of a task without a parent.
LEMMA RootLocated ==
    ASSUME Run!TypeOK, Located, Family, NEW w \in Worker, Run!FinishRoot(w)
    PROVE  Located' /\ stack' \in [Worker -> Seq(Run!Frame)]
<1>0. PICK t \in Task : t = Run!Node(w) BY TopFrame DEF Run!FinishRoot, Run!Running
<1>1. /\ stack[w] # <<>> /\ Run!Top(w).pc = "finish" /\ parent[t] = NoTask
      /\ Run!Pop(w) /\ recycled' = recycled \cup {t}
      /\ UNCHANGED <<kind, parent, join, preempted, scheduled>>
  BY <1>0 DEF Run!FinishRoot, Run!Running, Run!Top
<1>2. Popped(w) /\ stack' \in [Worker -> Seq(Run!Frame)] BY <1>1, PopSlots
<1>3. /\ Invokes(TopSlot(w)) /\ At(TopSlot(w)) = Run!Top(w) /\ Run!Top(w).node = t /\ t \in Live
  BY <1>0, <1>1, TopSays
<1>4. join[t] = 0 /\ Kids(t) = {} /\ scheduled[t] = 0 BY <1>1, <1>3 DEF Invokes, Ending
<1>5. Live' = Live \ {t} /\ \A u \in Task : Kids(u)' = Kids(u)
  <2>1. NoTask \notin Task BY MCAssumption DEF Run!RuntimeAssumption
  <2> QED BY <1>1, <2>1 DEF Live, Kids, Run!Created
<1>8. /\ Single' /\ Below'
      /\ \A u \in Slots' : /\ u \in Slots /\ At(u)' = At(u) /\ At(u).node # t
                           /\ At(u).node \in Task /\ Invokes(u)
      /\ \A u \in Slots : At(u).node # t => u \in Slots' BY <1>0, <1>1, <1>2, PopPlaces
<1>9. ASSUME NEW u \in Slots' PROVE Invokes(u)'
  <2>1. At(u)' = At(u) /\ At(u).node # t /\ At(u).node \in Task /\ Invokes(u) BY <1>8, <1>9
  <2> QED BY <1>1, <1>5, <2>1 DEF Invokes, Run!IsRuntime
<1>10. ASSUME NEW u \in Task \ Live' PROVE Gone(u)'
  <2>1. CASE u = t BY <1>1, <1>4, <1>5, <1>8, <2>1 DEF Gone
  <2>2. CASE u # t
    <3>1. Gone(u) BY <1>5, <2>2 DEF Located
    <3> QED BY <1>1, <1>5, <1>8, <3>1 DEF Gone
  <2> QED BY <2>1, <2>2
<1>11. ASSUME NEW u \in Live'
       PROVE  Waiting(u)' \/ (\E s \in Slots' : At(s)'.node = u) \/ Left(u)'
  <2>0. u \in Live /\ u \in Task /\ u # t BY <1>5, <1>11 DEF Live, Run!Created
  <2>2. CASE Waiting(u) BY <1>1, <1>5, <1>8, <2>0, <2>2 DEF Waiting
  <2>3. CASE \E s \in Slots : At(s).node = u BY <1>8, <2>0, <2>3
  <2>4. CASE Left(u) BY <1>1, <1>5, <2>0, <2>4 DEF Left
  <2> QED BY <2>0, <2>2, <2>3, <2>4 DEF Located
<1> QED BY <1>2, <1>8, <1>9, <1>10, <1>11 DEF Located


\* A child that counts its parent down has a parent that was entered and not torn down.
LEMMA ParentWaits ==
    ASSUME Run!TypeOK, Located, Family, NEW t \in Live, NEW p \in Task, parent[t] = p
    PROVE  /\ p \in Live /\ Run!IsRuntime(p) /\ preempted[p] /\ scheduled[p] = 0
           /\ IsFiniteSet(Kids(p)) /\ t \in Kids(p)
           /\ \A s \in Slots : At(s).node = p => At(s).pc \in Inside /\ join[p] = Cardinality(Kids(p)) + 1
           /\ (\A s \in Slots : At(s).node # p) => join[p] = Cardinality(Kids(p))
<1>1. p \in Live /\ Run!IsRuntime(p) /\ t \in Kids(p)
  <2>1. p # NoTask BY MCAssumption DEF Run!RuntimeAssumption
  <2> QED BY <2>1 DEF Family, Kids
<1>2. ~Waiting(p) BY <1>1 DEF Waiting
<1>3. ASSUME NEW s \in Slots, At(s).node = p
      PROVE  At(s).pc \in Inside /\ join[p] = Cardinality(Kids(p)) + 1 /\ preempted[p] /\ scheduled[p] = 0
  <2>1. Invokes(s) BY DEF Located
  <2>2. At(s).pc \in {"begin", "work", "corun", "raise", "store", "leave", "finish", "count"}
    BY SlotFrames DEF Run!Frame
  <2>3. At(s).pc \in Inside BY <1>1, <1>3, <2>1, <2>2 DEF Invokes, Inside, Ending
  <2> QED BY <1>1, <1>3, <2>1, <2>3 DEF Invokes
<1>4. (\A s \in Slots : At(s).node # p) => Left(p) BY <1>1, <1>2 DEF Located
<1> QED BY <1>1, <1>3, <1>4, KidsFacts DEF Left

\* The end of a child, which may go on with its parent.
LEMMA CountLocated ==
    ASSUME Run!TypeOK, Located, Family, NEW w \in Worker, Run!CountParent(w)
    PROVE  Located' /\ stack' \in [Worker -> Seq(Run!Frame)] /\ join' \in [Task -> Nat]
<1>0. PICK t \in Task : t = Run!Node(w) BY TopFrame DEF Run!CountParent, Run!Running
<1>1. /\ stack[w] # <<>> /\ Run!Top(w).pc = "count" BY DEF Run!CountParent, Run!Running, Run!Top
<1>3. /\ Invokes(TopSlot(w)) /\ At(TopSlot(w)) = Run!Top(w) /\ Run!Top(w).node = t /\ t \in Live
      /\ TopSlot(w) \in Slots /\ \A u \in Slots : u # TopSlot(w) => At(u).node # t
  BY <1>0, <1>1, TopSays
<1>4. /\ join[t] = 0 /\ Kids(t) = {} /\ scheduled[t] = 0 /\ parent[t] # NoTask /\ Run!Top(w).again
  BY <1>1, <1>3 DEF Invokes, Ending
<1>5. PICK p \in Task : p = parent[t] BY <1>4 DEF Run!TypeOK, Run!Nodes
<1>2. /\ join' = [join EXCEPT ![p] = @ - 1] /\ recycled' = recycled \cup {t}
      /\ join[p] = 1 => Run!Become(w, Run!Enter(p))
      /\ join[p] # 1 => Run!Pop(w)
      /\ UNCHANGED <<kind, parent, preempted, scheduled>> /\ join \in [Task -> Nat]
  BY <1>0, <1>4, <1>5 DEF Run!CountParent, Run!TypeOK
<1>6. /\ p \in Live /\ Run!IsRuntime(p) /\ preempted[p] /\ scheduled[p] = 0 /\ t \in Kids(p)
      /\ \A s \in Slots : At(s).node = p => At(s).pc \in Inside /\ join[p] = Cardinality(Kids(p)) + 1
      /\ (\A s \in Slots : At(s).node # p) => join[p] = Cardinality(Kids(p))
  BY <1>3, <1>5, ParentWaits
<1>7. p # t BY <1>4, <1>6
<1>8. Cardinality(Kids(p)) \in Nat \ {0} /\ Cardinality(Kids(p) \ {t}) = Cardinality(Kids(p)) - 1
  BY <1>6, KidsFacts, FS_RemoveElement
<1>9. /\ Live' = Live \ {t} /\ Kids(p)' = Kids(p) \ {t} /\ \A u \in Task \ {p} : Kids(u)' = Kids(u)
  BY <1>2, <1>5 DEF Live, Kids, Run!Created
<1>10. /\ join[p] > 0 /\ join'[p] = join[p] - 1 /\ \A u \in Task \ {p} : join'[u] = join[u]
  BY <1>2, <1>6, <1>8
<1>11. join' \in [Task -> Nat] BY <1>2, <1>10
<1>12. Cardinality(Kids(p))' = Cardinality(Kids(p)) - 1 BY <1>8, <1>9
<1>t. Gone(t)' <=> \A s \in Slots' : At(s)'.node # t BY <1>2, <1>4, <1>7, <1>9, <1>10 DEF Gone
<1>g. ASSUME NEW u \in Task \ Live', u # t, \A s \in Slots' : At(s)'.node \in Live PROVE Gone(u)'
  <2>1. Gone(u) /\ u \notin Live /\ u # p BY <1>6, <1>9, <1>g DEF Located
  <2> QED BY <1>2, <1>9, <1>10, <1>g, <2>1 DEF Gone
<1>a. CASE join[p] = 1
  <2>1. Run!Enter(p) \in Run!Frame /\ Run!Enter(p).node = p /\ Run!Enter(p).pc = "begin"
    BY DEF Run!Enter, Run!Frame, Run!Nodes
  <2>2. Changed(w, Run!Enter(p)) /\ stack' \in [Worker -> Seq(Run!Frame)] BY <1>1, <1>2, <1>a, <2>1, BecomeSlots
  <2>3. \A s \in Slots : At(s).node # p BY <1>6, <1>8, <1>a
  <2>4. Kids(p)' = {} /\ join'[p] = 0
    <3>1. Cardinality(Kids(p)) = 1 BY <1>6, <1>a, <2>3
    <3>2. Cardinality(Kids(p))' = 0 BY <1>12, <3>1
    <3>3. Cardinality(Kids(p) \ {t}) = 0 /\ IsFiniteSet(Kids(p) \ {t}) BY <1>8, <3>1, KidsFacts, FS_Subset
    <3> QED BY <1>9, <1>10, <1>a, <3>3, FS_EmptySet
  <2>5. /\ Slots' = Slots /\ At(TopSlot(w))' = Run!Enter(p)
        /\ \A u \in Slots : u # TopSlot(w) => At(u)' = At(u)
        /\ \A v \in Worker : TopSlot(v)' = TopSlot(v) BY <2>2 DEF Changed
  <2>6. PICK z \in Slots : z = TopSlot(w) BY <1>3
  <2>7. At(z)' = Run!Enter(p) BY <2>5, <2>6
  <2>8. \A u \in Slots : u # z => At(u)' = At(u) /\ At(u).node # p /\ At(u).node # t /\ At(u).node \in Task
    BY <1>3, <2>3, <2>5, <2>6, SlotFrames
  <2>9. Single' BY <2>1, <2>5, <2>7, <2>8 DEF Located, Single
  <2>10. Below'
    <3> SUFFICES ASSUME NEW u \in Slots, u # TopSlot(u[1])' PROVE At(u)'.pc = "corun" BY <2>5 DEF Below
    <3>1. u # z /\ u # TopSlot(u[1]) BY <2>5, <2>6, SlotFrames DEF TopSlot
    <3> QED BY <2>8, <3>1 DEF Located, Below
  <2>11. ASSUME NEW u \in Slots' PROVE Invokes(u)'
    <3>1. CASE u = z
      <4>1. p \in Live' /\ scheduled'[p] = 0 BY <1>2, <1>6, <1>7, <1>9
      <4> QED BY <2>1, <2>4, <2>7, <3>1, <4>1 DEF Invokes, Inside, Ending
    <3>2. CASE u # z
      <4>1. At(u)' = At(u) /\ At(u).node # p /\ At(u).node # t /\ At(u).node \in Task /\ Invokes(u)
        BY <2>5, <2>8, <2>11, <3>2 DEF Located
      <4> QED BY <1>2, <1>9, <1>10, <4>1 DEF Invokes, Run!IsRuntime
    <3> QED BY <3>1, <3>2
  <2>12. \A s \in Slots' : At(s)'.node \in Live /\ At(s)'.node # t
    <3>1. \A s \in Slots : At(s).node \in Live BY DEF Located, Invokes
    <3> QED BY <1>6, <1>7, <2>1, <2>5, <2>7, <2>8, <3>1
  <2>13. \A u \in Task \ Live' : Gone(u)' BY <1>t, <1>g, <2>12
  <2>14. ASSUME NEW u \in Live'
         PROVE  Waiting(u)' \/ (\E s \in Slots' : At(s)'.node = u) \/ Left(u)'
    <3>0. u \in Live /\ u \in Task /\ u # t BY <1>9, <2>14 DEF Live, Run!Created
    <3>1. CASE u = p BY <2>1, <2>5, <2>7, <3>1
    <3>2. CASE u # p
      <4>1. join'[u] = join[u] /\ Kids(u)' = Kids(u) BY <1>9, <1>10, <3>0, <3>2
      <4>2. CASE Waiting(u) BY <1>2, <2>1, <2>5, <2>7, <2>8, <3>2, <4>1, <4>2 DEF Waiting
      <4>3. CASE \E s \in Slots : At(s).node = u BY <1>3, <2>5, <2>6, <2>8, <3>0, <4>3
      <4>4. CASE Left(u) BY <1>2, <4>1, <4>4 DEF Left
      <4> QED BY <3>0, <4>2, <4>3, <4>4 DEF Located
    <3> QED BY <3>1, <3>2
  <2> QED BY <1>11, <2>2, <2>9, <2>10, <2>11, <2>13, <2>14 DEF Located
<1>b. CASE join[p] # 1
  <2>1. Popped(w) /\ stack' \in [Worker -> Seq(Run!Frame)] BY <1>1, <1>2, <1>b, PopSlots
  <2>2. /\ Single' /\ Below'
        /\ \A u \in Slots' : /\ u \in Slots /\ At(u)' = At(u) /\ At(u).node # t
                             /\ At(u).node \in Task /\ Invokes(u)
        /\ \A u \in Slots : At(u).node # t => u \in Slots' BY <1>0, <1>1, <2>1, PopPlaces
  <2>3. ASSUME NEW u \in Slots' PROVE Invokes(u)'
    <3>1. At(u)' = At(u) /\ At(u).node # t /\ At(u).node \in Task /\ Invokes(u) /\ u \in Slots BY <2>2, <2>3
    <3>2. CASE At(u).node = p
      <4>1. At(u).pc \in Inside /\ join[p] = Cardinality(Kids(p)) + 1 BY <1>6, <3>1, <3>2
      <4>2. join'[p] = Cardinality(Kids(p))' + 1 BY <1>8, <1>10, <1>12, <4>1
      <4> QED BY <1>2, <1>6, <1>7, <1>9, <3>1, <3>2, <4>1, <4>2 DEF Invokes, Run!IsRuntime, Inside, Ending
    <3>3. CASE At(u).node # p BY <1>2, <1>9, <1>10, <3>1, <3>3 DEF Invokes, Run!IsRuntime
    <3> QED BY <3>2, <3>3
  <2>4. \A s \in Slots' : At(s)'.node \in Live /\ At(s)'.node # t BY <2>2 DEF Invokes
  <2>5. \A u \in Task \ Live' : Gone(u)' BY <1>t, <1>g, <2>4
  <2>6. ASSUME NEW u \in Live'
         PROVE  Waiting(u)' \/ (\E s \in Slots' : At(s)'.node = u) \/ Left(u)'
    <3>0. u \in Live /\ u \in Task /\ u # t BY <1>9, <2>6 DEF Live, Run!Created
    <3>3. CASE \E s \in Slots : At(s).node = u BY <2>2, <3>0, <3>3
    <3>1. CASE u = p /\ \A s \in Slots : At(s).node # u
      <4>1. join'[p] = Cardinality(Kids(p))' /\ Cardinality(Kids(p))' # 0 BY <1>6, <1>8, <1>10, <1>12, <1>b, <3>1
      <4>2. Kids(p)' # {} BY <4>1, FS_EmptySet
      <4> QED BY <1>2, <1>6, <3>1, <4>1, <4>2 DEF Left
    <3>2. CASE u # p
      <4>1. join'[u] = join[u] /\ Kids(u)' = Kids(u) BY <1>9, <1>10, <3>0, <3>2
      <4>2. CASE Waiting(u) BY <1>2, <2>2, <4>1, <4>2 DEF Waiting
      <4>4. CASE Left(u) BY <1>2, <4>1, <4>4 DEF Left
      <4> QED BY <3>0, <3>3, <4>2, <4>4 DEF Located
    <3> QED BY <3>1, <3>2, <3>3
  <2> QED BY <1>11, <2>1, <2>2, <2>3, <2>5, <2>6 DEF Located
<1> QED BY <1>a, <1>b

\* What creating a task does to the others.
LEMMA AnimateFacts ==
    ASSUME Run!TypeOK, Located, Family, NEW c \in Task, NEW k \in {"plain", "silent", "promised", "graph"},
           NEW p \in Task \cup {NoTask}, Run!Animate(c, k, p), recycled' = recycled, preempted' = preempted
    PROVE  /\ c \notin Run!Created /\ Live' = Live \cup {c} /\ Run!Created' = Run!Created \cup {c}
           /\ \A u \in Task : Kids(u)' = IF u = p THEN Kids(u) \cup {c} ELSE Kids(u)
           /\ scheduled'[c] = 1 /\ \A u \in Task \ {c} : scheduled'[u] = scheduled[u]
           /\ \A u \in Task \ {c} : kind'[u] = kind[u] /\ parent'[u] = parent[u]
           /\ kind'[c] = k /\ parent'[c] = p
           /\ join[c] = 0 /\ Kids(c) = {} /\ ~preempted[c] /\ \A s \in Slots : At(s).node # c
           /\ kind' \in [Task -> Run!Kind \cup {"none"}] /\ parent' \in [Task -> Run!Nodes]
           /\ scheduled' \in [Task -> Nat]
<1>1. c \notin Run!Created /\ c \notin Live BY DEF Run!Animate, Live
<1>2. Gone(c) BY <1>1 DEF Located
<1>3. /\ kind \in [Task -> Run!Kind \cup {"none"}] /\ parent \in [Task -> Run!Nodes] /\ scheduled \in [Task -> Nat]
      /\ recycled \subseteq Run!Created BY DEF Run!TypeOK
<1>4. /\ kind' = [kind EXCEPT ![c] = k] /\ parent' = [parent EXCEPT ![c] = p]
      /\ scheduled' = [scheduled EXCEPT ![c] = @ + 1] BY DEF Run!Animate
<1>5. k # "none" /\ k \in Run!Kind BY DEF Run!Kind
<1>6. scheduled'[c] = 1 BY <1>2, <1>3, <1>4 DEF Gone
<1>7. Run!Created' = Run!Created \cup {c} BY <1>3, <1>4, <1>5 DEF Run!Created
<1>8. Live' = Live \cup {c} BY <1>1, <1>3, <1>7 DEF Live
<1>9. parent[c] = NoTask /\ NoTask \notin Task /\ ~preempted[c]
  BY <1>1, MCAssumption DEF Family, Run!RuntimeAssumption
<1>10. \A u \in Task : Kids(u)' = IF u = p THEN Kids(u) \cup {c} ELSE Kids(u)
  BY <1>1, <1>3, <1>4, <1>8, <1>9 DEF Kids, Live, Run!Created
<1>11. parent' \in [Task -> Run!Nodes] /\ kind' \in [Task -> Run!Kind \cup {"none"}] /\ scheduled' \in [Task -> Nat]
  BY <1>3, <1>4, <1>5 DEF Run!Nodes
<1> QED BY <1>1, <1>2, <1>3, <1>4, <1>6, <1>7, <1>8, <1>9, <1>10, <1>11 DEF Gone

LEMMA SpawnLocated ==
    ASSUME Run!TypeOK, Located, Family, NEW w \in Worker, NEW c \in Task,
           NEW k \in {"plain", "silent", "promised", "graph"}, Run!Spawn(w, c, k)
    PROVE  Located' /\ join' \in [Task -> Nat]
<1>0. PICK t \in Task : t = Run!Node(w) BY TopFrame DEF Run!Spawn, Run!Running
<1>1. /\ stack[w] # <<>> /\ Run!Top(w).pc = "work" /\ Run!IsRuntime(t) /\ Run!Animate(c, k, t)
      /\ join' = [join EXCEPT ![t] = @ + 1] /\ join \in [Task -> Nat]
      /\ recycled' = recycled /\ preempted' = preempted /\ stack' = stack
  BY <1>0 DEF Run!Spawn, Run!Running, Run!Top, Run!TypeOK
<1>2. /\ c \notin Run!Created /\ Live' = Live \cup {c}
      /\ \A u \in Task : Kids(u)' = IF u = t THEN Kids(u) \cup {c} ELSE Kids(u)
      /\ scheduled'[c] = 1 /\ \A u \in Task \ {c} : scheduled'[u] = scheduled[u]
      /\ \A u \in Task \ {c} : kind'[u] = kind[u] /\ parent'[u] = parent[u]
      /\ join[c] = 0 /\ Kids(c) = {} /\ ~preempted[c] /\ \A s \in Slots : At(s).node # c
  BY <1>0, <1>1, AnimateFacts
<1>3. /\ Invokes(TopSlot(w)) /\ At(TopSlot(w)) = Run!Top(w) /\ Run!Top(w).node = t /\ t \in Live
      /\ TopSlot(w) \in Slots /\ \A u \in Slots : u # TopSlot(w) => At(u).node # t
  BY <1>0, <1>1, TopSays
<1>4. join[t] = Cardinality(Kids(t)) + 1 /\ preempted[t] /\ scheduled[t] = 0 BY <1>1, <1>3 DEF Invokes, Inside
<1>5. Kids(t)' = Kids(t) \cup {c} /\ c \notin Kids(t) /\ c # t BY <1>2, <1>3 DEF Kids, Live
<1>6. Cardinality(Kids(t))' = Cardinality(Kids(t)) + 1 /\ Cardinality(Kids(t)) \in Nat
  BY <1>5, KidsFacts, FS_AddElement
<1>7. join'[t] = join[t] + 1 /\ \A u \in Task \ {t} : join'[u] = join[u] BY <1>1
<1>8. join' \in [Task -> Nat] BY <1>1
<1>9. Slots' = Slots /\ (\A s \in Slots : At(s)' = At(s)) /\ \A v \in Worker : TopSlot(v)' = TopSlot(v)
  BY <1>1 DEF Slots, At, TopSlot
<1>10. Single' /\ Below'
  <2>1. \A s \in Slots : s[1] \in Worker BY SlotFrames
  <2> QED BY <1>9, <2>1 DEF Located, Single, Below
<1>11. ASSUME NEW u \in Slots' PROVE Invokes(u)'
  <2>1. At(u)' = At(u) /\ u \in Slots /\ At(u).node \in Task /\ At(u).node # c /\ Invokes(u)
    BY <1>2, <1>9, <1>11, SlotFrames DEF Located
  <2>2. CASE At(u).node = t
    <3>1. u = TopSlot(w) /\ At(u) = Run!Top(w) BY <1>3, <2>1, <2>2
    <3>2. join'[t] = Cardinality(Kids(t))' + 1 BY <1>4, <1>6, <1>7
    <3>3. At(u)'.node = t /\ At(u)'.pc = "work" BY <1>1, <2>1, <2>2, <3>1
    <3>4. t \in Live' /\ kind'[t] = kind[t] /\ scheduled'[t] = 0 /\ preempted'[t]
      BY <1>1, <1>2, <1>3, <1>4, <1>5
    <3> QED BY <1>1, <3>2, <3>3, <3>4 DEF Invokes, Run!IsRuntime, Inside, Ending
  <2>3. CASE At(u).node # t BY <1>1, <1>2, <1>7, <2>1, <2>3 DEF Invokes, Run!IsRuntime
  <2> QED BY <2>2, <2>3
<1>12. ASSUME NEW u \in Task \ Live' PROVE Gone(u)'
  <2>1. Gone(u) /\ u # t /\ u # c BY <1>2, <1>3 DEF Located
  <2> QED BY <1>2, <1>7, <1>9, <2>1 DEF Gone
<1>13. ASSUME NEW u \in Live'
       PROVE  Waiting(u)' \/ (\E s \in Slots' : At(s)'.node = u) \/ Left(u)'
  <2>0. u \in Task BY <1>13 DEF Live, Run!Created
  <2>1. CASE u = c
    <3>1. join'[c] = 0 /\ Kids(c)' = {} BY <1>2, <1>5, <1>7
    <3> QED BY <1>1, <1>2, <1>9, <2>1, <3>1 DEF Waiting
  <2>2. CASE u = t BY <1>3, <1>9, <2>2
  <2>3. CASE u # c /\ u # t
    <3>1. u \in Live /\ join'[u] = join[u] /\ Kids(u)' = Kids(u) /\ scheduled'[u] = scheduled[u]
      BY <1>2, <1>7, <1>13, <2>0, <2>3
    <3>2. CASE Waiting(u) BY <1>1, <1>9, <3>1, <3>2 DEF Waiting
    <3>3. CASE \E s \in Slots : At(s).node = u BY <1>9, <3>3
    <3>4. CASE Left(u) BY <1>1, <3>1, <3>4 DEF Left
    <3> QED BY <3>1, <3>2, <3>3, <3>4 DEF Located
  <2> QED BY <2>1, <2>2, <2>3
<1> QED BY <1>8, <1>10, <1>11, <1>12, <1>13 DEF Located

LEMMA SubmitLocated ==
    ASSUME Run!TypeOK, Located, Family, NEW c \in Task,
           NEW k \in {"plain", "silent", "promised", "graph"}, Run!Submit(c, k)
    PROVE  Located'
<1>1. /\ Run!Animate(c, k, NoTask) /\ recycled' = recycled /\ preempted' = preempted /\ stack' = stack /\ join' = join
  BY DEF Run!Submit
<1>2. /\ c \notin Run!Created /\ Live' = Live \cup {c}
      /\ \A u \in Task : Kids(u)' = Kids(u)
      /\ scheduled'[c] = 1 /\ \A u \in Task \ {c} : scheduled'[u] = scheduled[u]
      /\ \A u \in Task \ {c} : kind'[u] = kind[u] /\ parent'[u] = parent[u]
      /\ join[c] = 0 /\ Kids(c) = {} /\ ~preempted[c] /\ \A s \in Slots : At(s).node # c
  <2>1. NoTask \notin Task BY MCAssumption DEF Run!RuntimeAssumption
  <2>2. PICK p \in Task \cup {NoTask} : p = NoTask OBVIOUS
  <2> QED BY <1>1, <2>1, <2>2, AnimateFacts
<1>9. Slots' = Slots /\ (\A s \in Slots : At(s)' = At(s)) /\ \A v \in Worker : TopSlot(v)' = TopSlot(v)
  BY <1>1 DEF Slots, At, TopSlot
<1>10. Single' /\ Below'
  <2>1. \A s \in Slots : s[1] \in Worker BY SlotFrames
  <2> QED BY <1>9, <2>1 DEF Located, Single, Below
<1>11. ASSUME NEW u \in Slots' PROVE Invokes(u)'
  <2>1. At(u)' = At(u) /\ u \in Slots /\ At(u).node \in Task /\ At(u).node # c /\ Invokes(u)
    BY <1>2, <1>9, <1>11, SlotFrames DEF Located
  <2> QED BY <1>1, <1>2, <2>1 DEF Invokes, Run!IsRuntime
<1>12. ASSUME NEW u \in Task \ Live' PROVE Gone(u)'
  <2>1. Gone(u) /\ u # c BY <1>2 DEF Located
  <2> QED BY <1>1, <1>2, <1>9, <2>1 DEF Gone
<1>13. ASSUME NEW u \in Live'
       PROVE  Waiting(u)' \/ (\E s \in Slots' : At(s)'.node = u) \/ Left(u)'
  <2>0. u \in Task BY <1>13 DEF Live, Run!Created
  <2>1. CASE u = c BY <1>1, <1>2, <1>9, <2>1 DEF Waiting
  <2>3. CASE u # c
    <3>1. u \in Live /\ Kids(u)' = Kids(u) /\ scheduled'[u] = scheduled[u] BY <1>2, <1>13, <2>0, <2>3
    <3>2. CASE Waiting(u) BY <1>1, <1>9, <3>1, <3>2 DEF Waiting
    <3>3. CASE \E s \in Slots : At(s).node = u BY <1>9, <3>3
    <3>4. CASE Left(u) BY <1>1, <3>1, <3>4 DEF Left
    <3> QED BY <3>1, <3>2, <3>3, <3>4 DEF Located
  <2> QED BY <2>1, <2>3
<1> QED BY <1>10, <1>11, <1>12, <1>13 DEF Located

\* The frame that Goto leaves on top.
LEMMA GotoFrame ==
    ASSUME Run!TypeOK, NEW w \in Worker, stack[w] # <<>>,
           NEW pc \in {"begin", "work", "corun", "raise", "store", "leave", "finish", "count"},
           Run!Goto(w, pc)
    PROVE  \E f \in Run!Frame : f.node = Run!Node(w) /\ f.pc = pc /\ Run!Become(w, f)
<1>1. Run!Top(w) \in Run!Frame BY TopFrame
<1>2. PICK f \in Run!Frame : f = [Run!Top(w) EXCEPT !.pc = pc] BY <1>1 DEF Run!Frame
<1>3. f.node = Run!Node(w) /\ f.pc = pc BY <1>1, <1>2 DEF Run!Frame, Run!Node
<1> QED BY <1>2, <1>3 DEF Run!Goto

\* The steps of a callable that change no counter.
Inner(w) ==
    \/ Run!Corun(w) \/ Run!CorunReturns(w) \/ Run!Throw(w) \/ Run!Return(w)
    \/ Run!RaisePass(w) \/ Run!RaiseAnchor(w) \/ Run!RaiseTopology(w) \/ Run!Store(w)

InnerFrame(w, f) ==
    /\ f.node = Run!Node(w) /\ Run!Become(w, f) /\ Run!Top(w).pc \in Inside /\ f.pc \in Inside
    /\ f.pc = "corun" => Run!IsRuntime(Run!Node(w))

LEMMA InnerStep ==
    ASSUME Run!TypeOK, NEW w \in Worker, Inner(w)
    PROVE  /\ \E f \in Run!Frame : InnerFrame(w, f)
           /\ stack[w] # <<>>
           /\ UNCHANGED <<kind, parent, preempted, join, promise, recycled, scheduled>>
           /\ estate' \in [Task -> SUBSET Run!Flags] /\ eptr' \in [Task -> Run!Nodes]
           /\ topology' \in [estate : SUBSET Run!Flags, eptr : Run!Nodes]
           /\ coruns' \in [Task -> 0 .. MaxCoruns] /\ thrown' \in SUBSET Task /\ reported' \in SUBSET Task
<1>1. stack[w] # <<>> BY DEF Inner, Run!Corun, Run!CorunReturns, Run!Throw, Run!Return,
        Run!RaisePass, Run!RaiseAnchor, Run!RaiseTopology, Run!Store, Run!Running
<1>2. PICK t \in Task : t = Run!Node(w) BY <1>1, TopFrame
<1>3. Run!Top(w) \in Run!Frame /\ Run!Top(w).node = t /\ Run!Top(w).at \in Run!Nodes /\ Run!Top(w).exc \in Run!Nodes
  BY <1>1, <1>2, TopFrame DEF Run!Frame, Run!Node
<1>4. /\ estate \in [Task -> SUBSET Run!Flags] /\ eptr \in [Task -> Run!Nodes]
      /\ topology \in [estate : SUBSET Run!Flags, eptr : Run!Nodes]
      /\ coruns \in [Task -> 0 .. MaxCoruns] /\ thrown \in SUBSET Task /\ reported \in SUBSET Task
      /\ parent \in [Task -> Run!Nodes] /\ MaxCoruns \in Nat
  BY MCAssumption DEF Run!TypeOK, Run!RuntimeAssumption
<1>5. t \in Run!Nodes /\ NoTask \in Run!Nodes /\ Run!Failed \subseteq Run!Flags /\ "ANCHORED" \in Run!Flags
  BY DEF Run!Nodes, Run!Failed, Run!Flags
<1>6. ASSUME NEW e \in Run!Nodes, NEW a \in Run!Nodes, NEW pc \in {"raise", "store"},
             Run!Become(w, [Run!Top(w) EXCEPT !.pc = pc, !.at = a, !.exc = e]), Run!Top(w).pc \in Inside
      PROVE  \E f \in Run!Frame : InnerFrame(w, f)
  <2>1. PICK f \in Run!Frame : f = [Run!Top(w) EXCEPT !.pc = pc, !.at = a, !.exc = e]
    BY <1>3, <1>6 DEF Run!Frame
  <2>2. f.node = t /\ f.pc = pc BY <1>3, <2>1 DEF Run!Frame
  <2> QED BY <1>2, <1>6, <2>1, <2>2 DEF InnerFrame, Inside
<1>7. ASSUME NEW a \in Run!Nodes, NEW pc \in {"raise", "store"},
             Run!Become(w, [Run!Top(w) EXCEPT !.pc = pc, !.at = a]), Run!Top(w).pc \in Inside
      PROVE  \E f \in Run!Frame : InnerFrame(w, f)
  <2>1. PICK f \in Run!Frame : f = [Run!Top(w) EXCEPT !.pc = pc, !.at = a] BY <1>3, <1>7 DEF Run!Frame
  <2>2. f.node = t /\ f.pc = pc BY <1>3, <2>1 DEF Run!Frame
  <2> QED BY <1>2, <1>7, <2>1, <2>2 DEF InnerFrame, Inside
<1>8. ASSUME NEW a \in Run!Nodes, Run!Become(w, [Run!Top(w) EXCEPT !.at = a]), Run!Top(w).pc = "raise"
      PROVE  \E f \in Run!Frame : InnerFrame(w, f)
  <2>1. PICK f \in Run!Frame : f = [Run!Top(w) EXCEPT !.at = a] BY <1>3, <1>8 DEF Run!Frame
  <2>2. f.node = t /\ f.pc = "raise" BY <1>3, <1>8, <2>1 DEF Run!Frame
  <2> QED BY <1>2, <1>8, <2>1, <2>2 DEF InnerFrame, Inside
<1>9. ASSUME NEW pc \in {"work", "leave"}, Run!Goto(w, pc), Run!Top(w).pc \in Inside
      PROVE  \E f \in Run!Frame : InnerFrame(w, f)
  <2>1. PICK f \in Run!Frame : f.node = Run!Node(w) /\ f.pc = pc /\ Run!Become(w, f)
    BY <1>1, <1>9, GotoFrame
  <2> QED BY <1>9, <2>1 DEF InnerFrame, Inside
<1>10. CASE Run!Corun(w)
  <2>1. /\ Run!Top(w).pc = "work" /\ Run!IsRuntime(t) /\ Run!Goto(w, "corun") /\ coruns[t] < MaxCoruns
        /\ coruns' = [coruns EXCEPT ![t] = @ + 1] /\ estate' = [estate EXCEPT ![t] = @ \cup {"ANCHORED"}]
    BY <1>2, <1>10 DEF Run!Corun, Run!Running, Run!Top
  <2>2. PICK f \in Run!Frame : f.node = Run!Node(w) /\ f.pc = "corun" /\ Run!Become(w, f)
    BY <1>1, <2>1, GotoFrame
  <2>3. InnerFrame(w, f) BY <1>2, <2>1, <2>2 DEF InnerFrame, Inside
  <2>4. estate' \in [Task -> SUBSET Run!Flags] /\ coruns' \in [Task -> 0 .. MaxCoruns] BY <1>4, <1>5, <2>1
  <2> QED BY <1>1, <1>4, <1>10, <2>3, <2>4 DEF Run!Corun
<1>11. CASE Run!CorunReturns(w)
  <2>1. /\ Run!Top(w).pc = "corun" /\ estate' = [estate EXCEPT ![t] = @ \ {"ANCHORED"}]
        /\ eptr' = [eptr EXCEPT ![t] = NoTask] /\ reported' = reported \cup ({eptr[t]} \ {NoTask})
        /\ Run!Goto(w, "work") \/ Run!Become(w, [Run!Top(w) EXCEPT !.pc = "raise", !.at = t, !.exc = eptr[t]])
    BY <1>2, <1>11 DEF Run!CorunReturns, Run!Running, Run!Top
  <2>2. \E f \in Run!Frame : InnerFrame(w, f)
    <3>1. Run!Top(w).pc \in Inside /\ eptr[t] \in Run!Nodes BY <1>4, <2>1 DEF Inside
    <3>2. CASE Run!Goto(w, "work") BY <1>9, <3>1, <3>2
    <3>3. CASE Run!Become(w, [Run!Top(w) EXCEPT !.pc = "raise", !.at = t, !.exc = eptr[t]])
      BY <1>5, <1>6, <3>1, <3>3
    <3> QED BY <2>1, <3>2, <3>3
  <2>3. estate' \in [Task -> SUBSET Run!Flags] /\ eptr' \in [Task -> Run!Nodes] BY <1>4, <1>5, <2>1
  <2>4. reported' \in SUBSET Task BY <1>4, <2>1 DEF Run!Nodes
  <2> QED BY <1>1, <1>4, <1>11, <2>2, <2>3, <2>4 DEF Run!CorunReturns
<1>12. CASE Run!Throw(w)
  <2>1. /\ Run!Top(w).pc = "work" /\ thrown' = thrown \cup {t}
        /\ Run!Become(w, [Run!Top(w) EXCEPT !.pc = "raise", !.at = t, !.exc = t])
    BY <1>2, <1>12 DEF Run!Throw, Run!Running, Run!Top
  <2>2. \E f \in Run!Frame : InnerFrame(w, f) BY <1>5, <1>6, <2>1 DEF Inside
  <2> QED BY <1>1, <1>4, <1>12, <2>1, <2>2 DEF Run!Throw, Run!nodeVars
<1>13. CASE Run!Return(w)
  <2>1. Run!Top(w).pc = "work" /\ Run!Goto(w, "leave") BY <1>13 DEF Run!Return, Run!Running, Run!Top
  <2>2. \E f \in Run!Frame : InnerFrame(w, f) BY <1>9, <2>1 DEF Inside
  <2> QED BY <1>1, <1>4, <1>13, <2>2 DEF Run!Return, Run!nodeVars, Run!historyVars
<1>14. CASE Run!RaisePass(w)
  <2>1. PICK a \in Task : a = Run!Top(w).at BY <1>3, <1>14 DEF Run!RaisePass, Run!Nodes
  <2>2. /\ Run!Top(w).pc = "raise" /\ estate' = [estate EXCEPT ![a] = @ \cup Run!Failed]
        /\ Run!Become(w, [Run!Top(w) EXCEPT !.at = parent[a]])
    BY <1>14, <2>1 DEF Run!RaisePass, Run!Running, Run!Top
  <2>3. parent[a] \in Run!Nodes BY <1>4
  <2>4. \E f \in Run!Frame : InnerFrame(w, f) BY <1>8, <2>2, <2>3
  <2>5. estate' \in [Task -> SUBSET Run!Flags] BY <1>4, <1>5, <2>2
  <2> QED BY <1>1, <1>4, <1>14, <2>4, <2>5 DEF Run!RaisePass, Run!historyVars
<1>15. CASE Run!RaiseAnchor(w)
  <2>1. PICK a \in Task : a = Run!Top(w).at BY <1>3, <1>15 DEF Run!RaiseAnchor, Run!Nodes
  <2>2. PICK b \in Task : b = IF "EXCEPTION" \in estate[a] THEN t ELSE a OBVIOUS
  <2>3. /\ Run!Top(w).pc = "raise" /\ estate' = [estate EXCEPT ![a] = @ \cup Run!Failed]
        /\ Run!Become(w, [Run!Top(w) EXCEPT !.pc = "store", !.at = b])
    BY <1>2, <1>15, <2>1, <2>2 DEF Run!RaiseAnchor, Run!Running, Run!Top
  <2>4. \E f \in Run!Frame : InnerFrame(w, f) BY <1>7, <2>3 DEF Inside, Run!Nodes
  <2>5. estate' \in [Task -> SUBSET Run!Flags] BY <1>4, <1>5, <2>3
  <2> QED BY <1>1, <1>4, <1>15, <2>4, <2>5 DEF Run!RaiseAnchor, Run!historyVars
<1>16. CASE Run!RaiseTopology(w)
  <2>1. /\ Run!Top(w).pc = "raise"
        /\ \/ topology' = [estate |-> topology.estate \cup Run!Failed,
                           eptr |-> IF "EXCEPTION" \in topology.estate THEN topology.eptr
                                    ELSE Run!Top(w).exc]
           \/ topology' = topology
        /\ Run!Goto(w, "leave") \/ Run!Become(w, [Run!Top(w) EXCEPT !.pc = "store", !.at = t])
    BY <1>2, <1>16 DEF Run!RaiseTopology, Run!Running, Run!Top
  <2>2. \E f \in Run!Frame : InnerFrame(w, f) BY <1>5, <1>7, <1>9, <2>1 DEF Inside
  <2>3. topology' \in [estate : SUBSET Run!Flags, eptr : Run!Nodes]
    <3>1. PICK x \in Run!Nodes : x = IF "EXCEPTION" \in topology.estate THEN topology.eptr ELSE Run!Top(w).exc
      BY <1>3, <1>4
    <3>2. PICK g \in SUBSET Run!Flags : g = topology.estate \cup Run!Failed BY <1>4, <1>5
    <3>3. topology' = [estate |-> g, eptr |-> x] \/ topology' = topology BY <2>1, <3>1, <3>2
    <3> QED BY <1>4, <3>3
  <2> QED BY <1>1, <1>4, <1>16, <2>2, <2>3 DEF Run!RaiseTopology, Run!historyVars
<1>17. CASE Run!Store(w)
  <2>1. /\ Run!Top(w).pc = "store" /\ eptr' = [eptr EXCEPT ![Run!Top(w).at] = Run!Top(w).exc]
        /\ Run!Goto(w, "leave") BY <1>17 DEF Run!Store, Run!Running, Run!Top
  <2>2. \E f \in Run!Frame : InnerFrame(w, f) BY <1>9, <2>1 DEF Inside
  <2>3. eptr' \in [Task -> Run!Nodes] BY <1>3, <1>4, <2>1
  <2> QED BY <1>1, <1>4, <1>17, <2>2, <2>3 DEF Run!Store, Run!historyVars
<1> QED BY <1>10, <1>11, <1>12, <1>13, <1>14, <1>15, <1>16, <1>17 DEF Inner

-----------------------------------------------------------------------------
(* Every step *)

LEMMA FamilyKept ==
    ASSUME Family, UNCHANGED <<kind, parent, recycled>>,
           \A u \in Task \ Run!Created : preempted'[u] = preempted[u] /\ promise'[u] = promise[u]
    PROVE  Family'
<1>1. Live' = Live /\ Run!Created' = Run!Created BY DEF Live, Run!Created
<1> QED BY <1>1 DEF Family, Run!IsRuntime

\* The topmost invocation goes on, and its promise may be answered.
LEMMA PromisesMove ==
    ASSUME Run!TypeOK, Located, Promises, NEW w \in Worker, stack[w] # <<>>, NEW f \in Run!Frame,
           f.node = Run!Node(w), Run!Become(w, f), UNCHANGED <<kind, parent, recycled>>,
           \A u \in Task \ {Run!Node(w)} : promise'[u] = promise[u],
           promise'[Run!Node(w)] \in {promise[Run!Node(w)], "value", "exception"},
           f.pc \in Ending /\ kind[Run!Node(w)] = "promised" /\ parent[Run!Node(w)] = NoTask
             => promise'[Run!Node(w)] # "pending"
    PROVE  Promises'
<1>1. PICK t \in Task : t = Run!Node(w) BY TopSays
<1>2. /\ TopSlot(w) \in Slots /\ At(TopSlot(w)).node = t /\ t \in Live
      /\ \A u \in Slots : u # TopSlot(w) => At(u).node # t BY <1>1, TopSays
<1>3. Changed(w, f) BY BecomeSlots
<1>4. \A u \in Task : promise'[u] = "broken" => u \in recycled' /\ parent'[u] # NoTask
  <2> SUFFICES ASSUME NEW u \in Task, promise'[u] = "broken" PROVE promise[u] = "broken"
    BY DEF Promises
  <2> QED BY <1>1
<1>5. \A u \in recycled : kind[u] \in {"promised", "graph"} => promise'[u] # "pending"
  <2>1. \A u \in recycled : u \in Task /\ u # t BY <1>2 DEF Live, Run!TypeOK, Run!Created
  <2> QED BY <1>1, <2>1 DEF Promises
<1>6. ASSUME NEW s \in Slots', At(s)'.pc \in Ending, kind[At(s)'.node] = "promised",
             parent[At(s)'.node] = NoTask
      PROVE  promise'[At(s)'.node] # "pending"
  <2>1. CASE s = TopSlot(w)
    <3>1. At(s)' = f
      <4>1. TopSlot(w)' = TopSlot(w) /\ At(TopSlot(w))' = f BY <1>3 DEF Changed
      <4> QED BY <2>1, <4>1
    <3> QED BY <1>1, <1>6, <3>1
  <2>2. CASE s # TopSlot(w)
    <3>1. s \in Slots /\ At(s)' = At(s) BY <1>3, <1>6, <2>2 DEF Changed
    <3>2. At(s).node \in Task \ {t} BY <1>2, <2>2, <3>1, SlotFrames
    <3> QED BY <1>1, <1>6, <3>1, <3>2 DEF Promises
  <2> QED BY <2>1, <2>2
<1> QED BY <1>4, <1>5, <1>6 DEF Promises

\* A frame goes away or is pushed, and the promises stay.
LEMMA PromisesPush ==
    ASSUME Promises, UNCHANGED <<kind, parent, recycled, promise>>,
           \A s \in Slots' : (s \in Slots /\ At(s)' = At(s)) \/ At(s)'.pc \notin Ending
    PROVE  Promises' BY DEF Promises

LEMMA FulfilFacts ==
    ASSUME Run!TypeOK, NEW t \in Task, Run!Fulfil(t)
    PROVE  /\ promise' \in [Task -> Run!Outcome] /\ reported' \in SUBSET Task
           /\ \A u \in Task \ {t} : promise'[u] = promise[u]
           /\ promise'[t] \in {promise[t], "value", "exception"}
           /\ kind[t] = "promised" => promise'[t] # "pending"
<1>1. promise \in [Task -> Run!Outcome] /\ eptr[t] \in Task \cup {NoTask} /\ reported \in SUBSET Task
  BY DEF Run!TypeOK, Run!Nodes
<1>2. PICK o \in {"value", "exception"} : o = IF eptr[t] = NoTask THEN "value" ELSE "exception" OBVIOUS
<1>3. o \in Run!Outcome BY <1>2 DEF Run!Outcome
<1>4. promise' = IF kind[t] # "promised" THEN promise ELSE [promise EXCEPT ![t] = o]
  BY <1>2 DEF Run!Fulfil
<1>5. reported' \in SUBSET Task BY <1>1 DEF Run!Fulfil
<1>6. CASE kind[t] # "promised" BY <1>1, <1>4, <1>5, <1>6
<1>7. CASE kind[t] = "promised"
  <2>1. promise' = [promise EXCEPT ![t] = o] BY <1>4, <1>7
  <2>2. promise'[t] = o /\ o # "pending" BY <1>1, <1>2, <2>1
  <2> QED BY <1>1, <1>3, <1>5, <2>1, <2>2
<1> QED BY <1>6, <1>7

\* The steps inside of a callable.
LEMMA InnerKeeps ==
    ASSUME RunInv, NEW w \in Worker, Inner(w)
    PROVE  RunInv'
<1>1. Run!TypeOK /\ Located /\ Family /\ Promises BY DEF RunInv
<1>2. /\ stack[w] # <<>>
      /\ UNCHANGED <<kind, parent, preempted, join, promise, recycled, scheduled>>
      /\ estate' \in [Task -> SUBSET Run!Flags] /\ eptr' \in [Task -> Run!Nodes]
      /\ topology' \in [estate : SUBSET Run!Flags, eptr : Run!Nodes]
      /\ coruns' \in [Task -> 0 .. MaxCoruns] /\ thrown' \in SUBSET Task /\ reported' \in SUBSET Task
  BY <1>1, InnerStep
<1>3. PICK f \in Run!Frame : InnerFrame(w, f) BY <1>1, InnerStep
<1>4. stack' \in [Worker -> Seq(Run!Frame)] BY <1>1, <1>2, <1>3, BecomeSlots DEF InnerFrame
<1>5. Located' BY <1>1, <1>2, <1>3, FrameLocated DEF InnerFrame
<1>6. Family' BY <1>1, <1>2, FamilyKept
<1>7. f.pc \notin Ending BY <1>3 DEF InnerFrame, Inside, Ending
<1>8. Promises' BY <1>1, <1>2, <1>3, <1>7, PromisesMove DEF InnerFrame
<1>9. Run!TypeOK'
  <2>1. Run!Created' = Run!Created BY <1>2 DEF Run!Created
  <2> QED BY <1>1, <1>2, <1>4, <2>1 DEF Run!TypeOK
<1> QED BY <1>5, <1>6, <1>8, <1>9 DEF RunInv

\* A root of its own is not in a topology, so it is not torn down.
LEMMA OwnRoot ==
    ASSUME Run!TypeOK, NEW t \in Task, parent[t] = NoTask
    PROVE  Run!Ancestors(t) = {t}
<1>1. ASSUME NEW a \in Run!Ancestors(t) PROVE a = t
  <2>1. {t} \in SUBSET Task /\ t \in {t} /\ \A s \in {t} : parent[s] \in {t} \cup {NoTask} OBVIOUS
  <2> QED BY <2>1 DEF Run!Ancestors
<1>2. t \in Run!Ancestors(t) BY DEF Run!Ancestors
<1> QED BY <1>1, <1>2

LEMMA SkipKeeps ==
    ASSUME RunInv, NEW w \in Worker, Run!Skip(w)
    PROVE  RunInv'
<1>1. Run!TypeOK /\ Located /\ Family /\ Promises BY DEF RunInv
<1>2. /\ stack[w] # <<>> /\ Run!Top(w).pc = "begin" /\ ~preempted[Run!Node(w)]
      /\ Run!IsCancelled(Run!Node(w)) /\ Run!Goto(w, "finish")
      /\ UNCHANGED <<kind, parent, preempted, join, estate, eptr, promise, topology, recycled,
                     coruns, thrown, reported, scheduled>>
  BY DEF Run!Skip, Run!Running, Run!Top, Run!nodeVars, Run!historyVars
<1>3. PICK t \in Task : t = Run!Node(w) BY <1>1, <1>2, TopSays
<1>4. PICK f \in Run!Frame : f.node = Run!Node(w) /\ f.pc = "finish" /\ Run!Become(w, f)
  BY <1>1, <1>2, GotoFrame
<1>5. join[t] = 0 /\ Kids(t) = {} BY <1>1, <1>2, <1>3, TopSays DEF Invokes
<1>6. stack' \in [Worker -> Seq(Run!Frame)] BY <1>1, <1>2, <1>4, BecomeSlots
<1>7. Located' BY <1>1, <1>2, <1>3, <1>4, <1>5, FrameLocated
<1>8. Family' BY <1>1, <1>2, FamilyKept
<1>9. ~(kind[t] = "promised" /\ parent[t] = NoTask)
  <2> SUFFICES ASSUME kind[t] = "promised", parent[t] = NoTask PROVE FALSE OBVIOUS
  <2>1. ~Run!InTopology(t) BY <1>1, OwnRoot DEF Run!InTopology
  <2> QED BY <1>2, <1>3, <2>1 DEF Run!IsCancelled
<1>10. Promises' BY <1>1, <1>2, <1>3, <1>4, <1>9, PromisesMove
<1>11. Run!TypeOK'
  <2>1. Run!Created' = Run!Created BY <1>2 DEF Run!Created
  <2> QED BY <1>1, <1>2, <1>6, <2>1 DEF Run!TypeOK
<1> QED BY <1>7, <1>8, <1>10, <1>11 DEF RunInv

LEMMA ReenterKeeps ==
    ASSUME RunInv, NEW w \in Worker, Run!Reenter(w)
    PROVE  RunInv'
<1>1. Run!TypeOK /\ Located /\ Family /\ Promises BY DEF RunInv
<1>2. stack[w] # <<>> /\ Run!Top(w).pc = "begin" BY DEF Run!Reenter, Run!Running, Run!Top
<1>3. PICK t \in Task : t = Run!Node(w) BY <1>1, <1>2, TopSays
<1>4. /\ preempted[t] /\ preempted' = [preempted EXCEPT ![t] = FALSE] /\ Run!Fulfil(t) /\ Run!Goto(w, "finish")
      /\ UNCHANGED <<kind, parent, join, estate, eptr, topology, recycled, coruns, thrown, scheduled>>
  BY <1>3 DEF Run!Reenter
<1>5. PICK f \in Run!Frame : f.node = Run!Node(w) /\ f.pc = "finish" /\ Run!Become(w, f)
  BY <1>1, <1>2, <1>4, GotoFrame
<1>6. preempted \in [Task -> BOOLEAN] BY <1>1 DEF Run!TypeOK
<1>7. preempted' \in [Task -> BOOLEAN] /\ ~preempted'[t] /\ \A u \in Task \ {t} : preempted'[u] = preempted[u]
  BY <1>4, <1>6
<1>8. /\ promise' \in [Task -> Run!Outcome] /\ reported' \in SUBSET Task
      /\ \A u \in Task \ {t} : promise'[u] = promise[u]
      /\ promise'[t] \in {promise[t], "value", "exception"}
      /\ kind[t] = "promised" => promise'[t] # "pending" BY <1>1, <1>4, FulfilFacts
<1>9. Changed(w, f) /\ stack' \in [Worker -> Seq(Run!Frame)] BY <1>1, <1>2, <1>5, BecomeSlots
<1>10. join[t] = 0 /\ Kids(t) = {} /\ t \in Live /\ scheduled[t] = 0 BY <1>1, <1>2, <1>3, TopSays DEF Invokes
<1>11. Invokes(TopSlot(w))'
  <2>1. Live' = Live /\ Kids(t)' = Kids(t) BY <1>4 DEF Live, Kids, Run!Created
  <2>2. At(TopSlot(w))' = f BY <1>9 DEF Changed
  <2> QED BY <1>3, <1>4, <1>5, <1>7, <1>10, <2>1, <2>2 DEF Invokes, Inside, Ending
<1>12. Located' BY <1>1, <1>2, <1>3, <1>4, <1>5, <1>7, <1>11, MoveLocated
<1>13. Family'
  <2>1. t \in Run!Created BY <1>10 DEF Live
  <2> QED BY <1>1, <1>4, <1>7, <1>8, <2>1, FamilyKept
<1>14. Promises' BY <1>1, <1>2, <1>3, <1>4, <1>5, <1>8, PromisesMove
<1>15. Run!TypeOK'
  <2>1. Run!Created' = Run!Created BY <1>4 DEF Run!Created
  <2> QED BY <1>1, <1>4, <1>7, <1>8, <1>9, <2>1 DEF Run!TypeOK
<1> QED BY <1>12, <1>13, <1>14, <1>15 DEF RunInv

LEMMA CallKeeps ==
    ASSUME RunInv, NEW w \in Worker, Run!Call(w)
    PROVE  RunInv'
<1>1. Run!TypeOK /\ Located /\ Family /\ Promises BY DEF RunInv
<1>2. stack[w] # <<>> /\ Run!Top(w).pc = "begin" BY DEF Run!Call, Run!Running, Run!Top
<1>3. PICK t \in Task : t = Run!Node(w) BY <1>1, <1>2, TopSays
<1>4. /\ ~preempted[t] /\ Run!Goto(w, "work")
      /\ UNCHANGED <<kind, parent, estate, eptr, promise, topology, recycled, coruns, thrown, reported, scheduled>>
      /\ Run!IsRuntime(t) => preempted' = [preempted EXCEPT ![t] = TRUE] /\ join' = [join EXCEPT ![t] = @ + 1]
      /\ ~Run!IsRuntime(t) => preempted' = preempted /\ join' = join
  BY <1>3 DEF Run!Call, Run!historyVars
<1>5. PICK f \in Run!Frame : f.node = Run!Node(w) /\ f.pc = "work" /\ Run!Become(w, f)
  BY <1>1, <1>2, <1>4, GotoFrame
<1>6. preempted \in [Task -> BOOLEAN] /\ join \in [Task -> Nat] BY <1>1 DEF Run!TypeOK
<1>7. join[t] = 0 /\ Kids(t) = {} /\ t \in Live /\ scheduled[t] = 0 BY <1>1, <1>2, <1>3, TopSays DEF Invokes
<1>8. /\ preempted' \in [Task -> BOOLEAN] /\ join' \in [Task -> Nat]
      /\ \A u \in Task \ {t} : preempted'[u] = preempted[u] /\ join'[u] = join[u]
      /\ Run!IsRuntime(t) => preempted'[t] /\ join'[t] = 1
      /\ ~Run!IsRuntime(t) => ~preempted'[t] /\ join'[t] = 0
  <2>1. CASE Run!IsRuntime(t)
    <3>1. preempted' = [preempted EXCEPT ![t] = TRUE] /\ join' = [join EXCEPT ![t] = @ + 1] BY <1>4, <2>1
    <3>2. preempted' \in [Task -> BOOLEAN] /\ join' \in [Task -> Nat] BY <1>6, <3>1
    <3>3. preempted'[t] /\ join'[t] = 1 BY <1>6, <1>7, <3>1
    <3>4. \A u \in Task \ {t} : preempted'[u] = preempted[u] /\ join'[u] = join[u] BY <1>6, <3>1
    <3> QED BY <2>1, <3>2, <3>3, <3>4
  <2>2. CASE ~Run!IsRuntime(t) BY <1>4, <1>6, <1>7, <2>2
  <2> QED BY <2>1, <2>2
<1>9. Changed(w, f) /\ stack' \in [Worker -> Seq(Run!Frame)] BY <1>1, <1>2, <1>5, BecomeSlots
<1>11. Invokes(TopSlot(w))'
  <2>1. Live' = Live /\ Kids(t)' = {} BY <1>4, <1>7 DEF Live, Kids, Run!Created
  <2>2. At(TopSlot(w))' = f BY <1>9 DEF Changed
  <2>3. Cardinality(Kids(t)') = 0 BY <2>1, FS_EmptySet
  <2>4. Run!IsRuntime(t)' = Run!IsRuntime(t) BY <1>4 DEF Run!IsRuntime
  <2> QED BY <1>3, <1>4, <1>5, <1>7, <1>8, <2>1, <2>2, <2>3, <2>4 DEF Invokes, Inside, Ending
<1>12. Located' BY <1>1, <1>2, <1>3, <1>4, <1>5, <1>8, <1>11, MoveLocated
<1>13. Family'
  <2>1. t \in Run!Created BY <1>7 DEF Live
  <2> QED BY <1>1, <1>4, <1>8, <2>1, FamilyKept
<1>14. Promises' BY <1>1, <1>2, <1>3, <1>4, <1>5, PromisesMove DEF Ending
<1>15. Run!TypeOK'
  <2>1. Run!Created' = Run!Created BY <1>4 DEF Run!Created
  <2> QED BY <1>1, <1>4, <1>8, <1>9, <2>1 DEF Run!TypeOK
<1> QED BY <1>12, <1>13, <1>14, <1>15 DEF RunInv

LEMMA LeaveKeeps ==
    ASSUME RunInv, NEW w \in Worker, Run!Leave(w)
    PROVE  RunInv'
<1>1. Run!TypeOK /\ Located /\ Family /\ Promises BY DEF RunInv
<1>2. stack[w] # <<>> /\ Run!Top(w).pc = "leave" BY DEF Run!Leave, Run!Running, Run!Top
<1>3. PICK t \in Task : t = Run!Node(w) BY <1>1, <1>2, TopSays
<1>4. /\ Run!IsRuntime(t) /\ join' = [join EXCEPT ![t] = @ - 1]
      /\ UNCHANGED <<kind, parent, estate, eptr, topology, recycled, coruns, thrown, scheduled>>
      /\ join[t] = 1 => preempted' = [preempted EXCEPT ![t] = FALSE] /\ Run!Fulfil(t) /\ Run!Goto(w, "finish")
      /\ join[t] # 1 => Run!Pop(w) /\ UNCHANGED <<preempted, promise, reported>>
  BY <1>3 DEF Run!Leave
<1>5. preempted \in [Task -> BOOLEAN] /\ join \in [Task -> Nat] BY <1>1 DEF Run!TypeOK
<1>6. join[t] = Cardinality(Kids(t)) + 1 /\ t \in Live /\ scheduled[t] = 0
  BY <1>1, <1>2, <1>3, <1>4, TopSays DEF Invokes, Inside
<1>7. Cardinality(Kids(t)) \in Nat /\ (Cardinality(Kids(t)) = 0 => Kids(t) = {}) BY KidsFacts
<1>8. join' \in [Task -> Nat] BY <1>4, <1>5, <1>6, <1>7
<1>9. Run!Created' = Run!Created /\ Live' = Live /\ Kids(t)' = Kids(t) BY <1>4 DEF Live, Kids, Run!Created
<1>10. CASE join[t] # 1
  <2>1. Located' /\ stack' \in [Worker -> Seq(Run!Frame)] BY <1>1, <1>3, <1>10, LeaveLocated
  <2>2. Family' BY <1>1, <1>4, <1>10, FamilyKept
  <2>3. Promises'
    <3>1. Popped(w) BY <1>1, <1>2, <1>4, <1>10, PopSlots
    <3>2. \A s \in Slots' : s \in Slots /\ At(s)' = At(s) BY <3>1 DEF Popped
    <3> QED BY <1>1, <1>4, <1>10, <3>2, PromisesPush
  <2>4. Run!TypeOK' BY <1>1, <1>4, <1>8, <1>9, <1>10, <2>1 DEF Run!TypeOK
  <2> QED BY <2>1, <2>2, <2>3, <2>4 DEF RunInv
<1>11. CASE join[t] = 1
  <2>1. PICK f \in Run!Frame : f.node = Run!Node(w) /\ f.pc = "finish" /\ Run!Become(w, f)
    BY <1>1, <1>2, <1>4, <1>11, GotoFrame
  <2>2. /\ promise' \in [Task -> Run!Outcome] /\ reported' \in SUBSET Task
        /\ \A u \in Task \ {t} : promise'[u] = promise[u]
        /\ promise'[t] \in {promise[t], "value", "exception"}
        /\ kind[t] = "promised" => promise'[t] # "pending" BY <1>1, <1>4, <1>11, FulfilFacts
  <2>3. preempted' = [preempted EXCEPT ![t] = FALSE] BY <1>4, <1>11
  <2>4. preempted' \in [Task -> BOOLEAN] /\ ~preempted'[t] /\ \A u \in Task \ {t} : preempted'[u] = preempted[u]
    BY <1>5, <2>3
  <2>5. join'[t] = 0 /\ Kids(t) = {} /\ \A u \in Task \ {t} : join'[u] = join[u]
    BY <1>4, <1>5, <1>6, <1>7, <1>11
  <2>6. Changed(w, f) /\ stack' \in [Worker -> Seq(Run!Frame)] BY <1>1, <1>2, <2>1, BecomeSlots
  <2>7. Invokes(TopSlot(w))'
    <3>1. At(TopSlot(w))' = f BY <2>6 DEF Changed
    <3> QED BY <1>3, <1>4, <1>6, <1>9, <2>1, <2>4, <2>5, <3>1 DEF Invokes, Inside, Ending
  <2>8. Located' BY <1>1, <1>2, <1>3, <1>4, <2>1, <2>4, <2>5, <2>7, MoveLocated
  <2>9. Family'
    <3>1. t \in Run!Created BY <1>6 DEF Live
    <3> QED BY <1>1, <1>4, <2>2, <2>4, <3>1, FamilyKept
  <2>10. Promises' BY <1>1, <1>2, <1>3, <1>4, <2>1, <2>2, PromisesMove
  <2>11. Run!TypeOK' BY <1>1, <1>4, <1>8, <1>9, <2>2, <2>4, <2>6 DEF Run!TypeOK
  <2> QED BY <2>8, <2>9, <2>10, <2>11 DEF RunInv
<1> QED BY <1>10, <1>11

LEMMA LeavePlainKeeps ==
    ASSUME RunInv, NEW w \in Worker, Run!LeavePlain(w)
    PROVE  RunInv'
<1>1. Run!TypeOK /\ Located /\ Family /\ Promises BY DEF RunInv
<1>2. /\ stack[w] # <<>> /\ Run!Top(w).pc = "leave" /\ ~Run!IsRuntime(Run!Node(w)) /\ Run!Goto(w, "finish")
      /\ UNCHANGED <<kind, parent, preempted, join, estate, eptr, promise, topology, recycled,
                     coruns, thrown, reported, scheduled>>
  BY DEF Run!LeavePlain, Run!Running, Run!Top, Run!nodeVars, Run!historyVars
<1>3. PICK t \in Task : t = Run!Node(w) BY <1>1, <1>2, TopSays
<1>4. PICK f \in Run!Frame : f.node = Run!Node(w) /\ f.pc = "finish" /\ Run!Become(w, f)
  BY <1>1, <1>2, GotoFrame
<1>5. ~preempted[t] /\ join[t] = 0 /\ Kids(t) = {} BY <1>1, <1>2, <1>3, TopSays DEF Invokes, Inside
<1>6. stack' \in [Worker -> Seq(Run!Frame)] BY <1>1, <1>2, <1>4, BecomeSlots
<1>7. Located' BY <1>1, <1>2, <1>3, <1>4, <1>5, FrameLocated
<1>8. Family' BY <1>1, <1>2, FamilyKept
<1>9. kind[t] # "promised" BY <1>2, <1>3 DEF Run!IsRuntime
<1>10. Promises' BY <1>1, <1>2, <1>3, <1>4, <1>9, PromisesMove
<1>11. Run!TypeOK'
  <2>1. Run!Created' = Run!Created BY <1>2 DEF Run!Created
  <2> QED BY <1>1, <1>2, <1>6, <2>1 DEF Run!TypeOK
<1> QED BY <1>7, <1>8, <1>10, <1>11 DEF RunInv

LEMMA ReadParentKeeps ==
    ASSUME RunInv, NEW w \in Worker, Run!ReadParent(w)
    PROVE  RunInv'
<1>1. Run!TypeOK /\ Located /\ Family /\ Promises BY DEF RunInv
<1>2. stack[w] # <<>> /\ Run!Top(w).pc = "finish" BY DEF Run!ReadParent, Run!Running, Run!Top
<1>3. PICK t \in Task : t = Run!Node(w) BY <1>1, <1>2, TopSays
<1>4. PICK p \in Task : p = parent[t] BY <1>1, <1>3 DEF Run!ReadParent, Run!TypeOK, Run!Nodes
<1>5. /\ parent[t] # NoTask /\ Run!Become(w, [Run!Top(w) EXCEPT !.pc = "count", !.again = preempted[p]])
      /\ UNCHANGED <<kind, parent, preempted, join, estate, eptr, promise, topology, recycled,
                     coruns, thrown, reported, scheduled>>
  BY <1>3, <1>4 DEF Run!ReadParent, Run!nodeVars, Run!historyVars
<1>6. t \in Live /\ preempted[p] BY <1>1, <1>2, <1>3, <1>4, TopSays, ParentWaits
<1>7. PICK f \in Run!Frame : f = [Run!Top(w) EXCEPT !.pc = "count", !.again = preempted[p]]
  <2>1. Run!Top(w) \in Run!Frame /\ preempted[p] \in BOOLEAN BY <1>1, <1>2, TopFrame DEF Run!TypeOK
  <2> QED BY <2>1 DEF Run!Frame
<1>8. f.node = Run!Node(w) /\ f.pc = "count" /\ f.again
  <2>1. Run!Top(w) \in Run!Frame BY <1>1, <1>2, TopFrame
  <2> QED BY <1>6, <1>7, <2>1 DEF Run!Frame, Run!Node
<1>9. Run!Become(w, f) BY <1>5, <1>7
<1>10. Changed(w, f) /\ stack' \in [Worker -> Seq(Run!Frame)] BY <1>1, <1>2, <1>9, BecomeSlots
<1>11. ~preempted[t] /\ join[t] = 0 /\ Kids(t) = {} /\ scheduled[t] = 0
  BY <1>1, <1>2, <1>3, TopSays DEF Invokes, Ending
<1>12. Invokes(TopSlot(w))'
  <2>1. At(TopSlot(w))' = f BY <1>10 DEF Changed
  <2>2. Live' = Live /\ Kids(t)' = Kids(t) BY <1>5 DEF Live, Kids, Run!Created
  <2> QED BY <1>3, <1>5, <1>6, <1>8, <1>11, <2>1, <2>2 DEF Invokes, Inside, Ending
<1>13. Located' BY <1>1, <1>2, <1>5, <1>8, <1>9, <1>12, MoveLocated
<1>14. Family' BY <1>1, <1>5, FamilyKept
<1>15. Promises' BY <1>1, <1>2, <1>3, <1>5, <1>8, <1>9, PromisesMove
<1>16. Run!TypeOK'
  <2>1. Run!Created' = Run!Created BY <1>5 DEF Run!Created
  <2> QED BY <1>1, <1>5, <1>10, <2>1 DEF Run!TypeOK
<1> QED BY <1>13, <1>14, <1>15, <1>16 DEF RunInv

LEMMA TakeKeeps ==
    ASSUME RunInv, NEW w \in Worker, NEW t \in Task, Run!Take(w, t)
    PROVE  RunInv'
<1>1. Run!TypeOK /\ Located /\ Family /\ Promises BY DEF RunInv
<1>2. /\ scheduled' = [scheduled EXCEPT ![t] = @ - 1] /\ scheduled[t] > 0 /\ Run!Push(w, Run!Enter(t))
      /\ UNCHANGED <<kind, parent, preempted, join, estate, eptr, promise, topology, recycled,
                     coruns, thrown, reported>> BY DEF Run!Take, Run!nodeVars, Run!historyVars
<1>3. Located' /\ stack' \in [Worker -> Seq(Run!Frame)] BY <1>1, TakeLocated
<1>4. scheduled' \in [Task -> Nat]
  <2>1. scheduled \in [Task -> Nat] BY <1>1 DEF Run!TypeOK
  <2> QED BY <1>2, <2>1
<1>5. Family' BY <1>1, <1>2, FamilyKept
<1>6. Promises'
  <2>1. Run!Enter(t) \in Run!Frame /\ Run!Enter(t).pc = "begin" BY DEF Run!Enter, Run!Frame, Run!Nodes
  <2>2. Pushed(w, Run!Enter(t)) BY <1>1, <1>2, <2>1, PushSlots
  <2>3. PICK z \in Slots' : z = TopSlot(w)' /\ Slots' = Slots \cup {z} BY <2>2 DEF Pushed
  <2>4. At(z)' = Run!Enter(t) BY <2>2, <2>3 DEF Pushed
  <2>5. \A s \in Slots' : (s \in Slots /\ At(s)' = At(s)) \/ At(s)'.pc \notin Ending
    BY <2>1, <2>2, <2>3, <2>4 DEF Pushed, Ending
  <2> QED BY <1>1, <1>2, <2>5, PromisesPush
<1>7. Run!TypeOK'
  <2>1. Run!Created' = Run!Created BY <1>2 DEF Run!Created
  <2> QED BY <1>1, <1>2, <1>3, <1>4, <2>1 DEF Run!TypeOK
<1> QED BY <1>3, <1>5, <1>6, <1>7 DEF RunInv

LEMMA CancelKeeps ==
    ASSUME RunInv, Run!Cancel
    PROVE  RunInv'
<1>1. Run!TypeOK /\ Located /\ Family /\ Promises BY DEF RunInv
<1>2. /\ topology' = [topology EXCEPT !.estate = @ \cup {"CANCELLED"}]
      /\ UNCHANGED <<kind, parent, preempted, join, estate, eptr, promise, recycled,
                     coruns, thrown, reported, scheduled, stack>> BY DEF Run!Cancel, Run!historyVars
<1>3. Live' = Live /\ Run!Created' = Run!Created /\ \A u \in Task : Kids(u)' = Kids(u)
  BY <1>2 DEF Live, Kids, Run!Created
<1>4. Slots' = Slots /\ (\A s \in Slots : At(s)' = At(s)) /\ \A v \in Worker : TopSlot(v)' = TopSlot(v)
  BY <1>2 DEF Slots, At, TopSlot
<1>5. Located'
  <2>1. \A s \in Slots : s[1] \in Worker /\ At(s).node \in Task BY <1>1, SlotFrames
  <2>2. Single' /\ Below' BY <1>1, <1>4, <2>1 DEF Located, Single, Below
  <2>3. \A s \in Slots : Invokes(s)' <=> Invokes(s) BY <1>2, <1>3, <1>4, <2>1 DEF Invokes, Run!IsRuntime
  <2>4. \A u \in Task \ Live : Gone(u)' BY <1>1, <1>2, <1>3, <1>4 DEF Gone, Located
  <2>5. ASSUME NEW u \in Live PROVE Waiting(u)' \/ (\E s \in Slots : At(s).node = u) \/ Left(u)'
    <3>1. u \in Task BY <2>5 DEF Live, Run!Created
    <3> QED BY <1>1, <1>2, <1>3, <1>4, <2>5, <3>1 DEF Waiting, Left, Located
  <2> QED BY <1>1, <1>3, <1>4, <2>2, <2>3, <2>4, <2>5 DEF Located
<1>6. Family' BY <1>1, <1>2, FamilyKept
<1>7. Promises' BY <1>1, <1>2, <1>4, PromisesPush
<1>8. topology' \in [estate : SUBSET Run!Flags, eptr : Run!Nodes]
  <2>1. topology \in [estate : SUBSET Run!Flags, eptr : Run!Nodes] BY <1>1 DEF Run!TypeOK
  <2> QED BY <1>2, <2>1 DEF Run!Flags
<1>9. Run!TypeOK' BY <1>1, <1>2, <1>3, <1>8 DEF Run!TypeOK
<1> QED BY <1>5, <1>6, <1>7, <1>9 DEF RunInv

LEMMA BrokenFacts ==
    ASSUME Run!TypeOK, NEW t \in Task, promise' = Run!Broken(t)
    PROVE  /\ promise' \in [Task -> Run!Outcome]
           /\ \A u \in Task \ {t} : promise'[u] = promise[u]
           /\ promise'[t] = promise[t] \/ (promise'[t] = "broken" /\ promise[t] = "pending" /\ kind[t] = "promised")
           /\ kind[t] = "promised" => promise'[t] # "pending"
<1>1. promise \in [Task -> Run!Outcome] BY DEF Run!TypeOK
<1>2. CASE kind[t] = "promised" /\ promise[t] = "pending"
  <2>1. promise' = [promise EXCEPT ![t] = "broken"] BY <1>2 DEF Run!Broken
  <2> QED BY <1>1, <1>2, <2>1 DEF Run!Outcome
<1>3. CASE ~(kind[t] = "promised" /\ promise[t] = "pending")
  <2>1. promise' = promise BY <1>3 DEF Run!Broken
  <2> QED BY <1>1, <1>3, <2>1
<1> QED BY <1>2, <1>3

\* A task ends.
LEMMA PromisesEnd ==
    ASSUME Run!TypeOK, Promises, NEW t \in Task, recycled' = recycled \cup {t}, UNCHANGED <<kind, parent>>,
           \A u \in Task \ {t} : promise'[u] = promise[u],
           kind[t] \in {"promised", "graph"} => promise'[t] # "pending",
           promise'[t] = "broken" => parent[t] # NoTask,
           \A s \in Slots' : \/ s \in Slots /\ At(s)' = At(s) /\ At(s).node # t
                             \/ At(s)'.pc \notin Ending
    PROVE  Promises'
<1>1. recycled \subseteq Task BY DEF Run!TypeOK, Run!Created
<1>2. \A u \in Task : promise'[u] = "broken" => u \in recycled' /\ parent'[u] # NoTask BY DEF Promises
<1>3. \A u \in recycled' : kind'[u] \in {"promised", "graph"} => promise'[u] # "pending" BY <1>1 DEF Promises
<1>4. ASSUME NEW s \in Slots', At(s)'.pc \in Ending, kind[At(s)'.node] = "promised",
             parent[At(s)'.node] = NoTask
      PROVE  promise'[At(s)'.node] # "pending"
  <2>1. s \in Slots /\ At(s)' = At(s) /\ At(s).node # t BY <1>4
  <2>2. At(s).node \in Task \ {t} BY <2>1, SlotFrames
  <2> QED BY <1>4, <2>1, <2>2 DEF Promises
<1> QED BY <1>2, <1>3, <1>4 DEF Promises

LEMMA FamilyEnd ==
    ASSUME Family, NEW t \in Live, Kids(t) = {}, recycled' = recycled \cup {t}, UNCHANGED <<kind, parent, preempted>>,
           \A u \in Task \ {t} : promise'[u] = promise[u]
    PROVE  Family'
<1>1. Run!Created' = Run!Created /\ Live' = Live \ {t} /\ t \in Run!Created BY DEF Live, Run!Created
<1>2. \A u \in Task \ Run!Created' : ~preempted'[u] /\ parent'[u] = NoTask /\ promise'[u] = "pending"
  BY <1>1 DEF Family
<1>3. ASSUME NEW u \in Live', parent[u] # NoTask PROVE parent[u] \in Live' /\ Run!IsRuntime(parent[u])
  <2>1. u \in Live /\ parent[u] # t BY <1>1, <1>3 DEF Kids
  <2> QED BY <1>1, <1>3, <2>1 DEF Family
<1> QED BY <1>1, <1>2, <1>3 DEF Family, Run!IsRuntime

LEMMA CountKeeps ==
    ASSUME RunInv, NEW w \in Worker, Run!CountParent(w)
    PROVE  RunInv'
<1>1. Run!TypeOK /\ Located /\ Family /\ Promises BY DEF RunInv
<1>2. stack[w] # <<>> /\ Run!Top(w).pc = "count" BY DEF Run!CountParent, Run!Running, Run!Top
<1>3. PICK t \in Task : t = Run!Node(w) BY <1>1, <1>2, TopSays
<1>4. /\ t \in Live /\ Kids(t) = {} /\ parent[t] # NoTask
      /\ TopSlot(w) \in Slots /\ \A u \in Slots : u # TopSlot(w) => At(u).node # t
  BY <1>1, <1>2, <1>3, TopSays DEF Invokes, Ending
<1>5. PICK p \in Task : p = parent[t] BY <1>1, <1>4 DEF Run!TypeOK, Run!Nodes
<1>6. /\ recycled' = recycled \cup {t} /\ promise' = Run!Broken(t)
      /\ Run!Become(w, Run!Enter(p)) \/ Run!Pop(w)
      /\ UNCHANGED <<kind, parent, preempted, estate, eptr, topology, coruns, thrown, reported, scheduled>>
  BY <1>3, <1>5 DEF Run!CountParent, Run!historyVars
<1>7. Located' /\ stack' \in [Worker -> Seq(Run!Frame)] /\ join' \in [Task -> Nat] BY <1>1, CountLocated
<1>8. /\ promise' \in [Task -> Run!Outcome]
      /\ \A u \in Task \ {t} : promise'[u] = promise[u]
      /\ kind[t] = "promised" => promise'[t] # "pending" BY <1>1, <1>6, BrokenFacts
<1>9. Family' BY <1>1, <1>4, <1>6, <1>8, FamilyEnd
<1>10. kind[t] # "graph" BY <1>1, <1>4 DEF Family, Live
<1>11. \A s \in Slots' : \/ s \in Slots /\ At(s)' = At(s) /\ At(s).node # t
                         \/ At(s)'.pc \notin Ending
  <2>1. CASE Run!Pop(w) BY <1>1, <1>2, <1>3, <2>1, PopSlots, PopPlaces
  <2>2. CASE Run!Become(w, Run!Enter(p))
    <3>1. Run!Enter(p) \in Run!Frame /\ Run!Enter(p).pc = "begin" BY DEF Run!Enter, Run!Frame, Run!Nodes
    <3>2. Changed(w, Run!Enter(p)) BY <1>1, <1>2, <2>2, <3>1, BecomeSlots
    <3>3. TopSlot(w)' = TopSlot(w) /\ At(TopSlot(w))' = Run!Enter(p) BY <3>2 DEF Changed
    <3>4. ASSUME NEW s \in Slots', s = TopSlot(w) PROVE At(s)'.pc \notin Ending
      <4>1. At(s)' = Run!Enter(p) BY <3>3, <3>4
      <4> QED BY <3>1, <4>1 DEF Ending
    <3>5. ASSUME NEW s \in Slots', s # TopSlot(w) PROVE s \in Slots /\ At(s)' = At(s) /\ At(s).node # t
      BY <1>4, <3>2, <3>5 DEF Changed
    <3> QED BY <3>4, <3>5
  <2> QED BY <1>6, <2>1, <2>2
<1>12. Promises' BY <1>1, <1>4, <1>6, <1>8, <1>10, <1>11, PromisesEnd
<1>13. Run!TypeOK'
  <2>1. Run!Created' = Run!Created /\ t \in Run!Created BY <1>4, <1>6 DEF Run!Created, Live
  <2> QED BY <1>1, <1>6, <1>7, <1>8, <2>1 DEF Run!TypeOK
<1> QED BY <1>7, <1>9, <1>12, <1>13 DEF RunInv

LEMMA FinishRootKeeps ==
    ASSUME RunInv, NEW w \in Worker, Run!FinishRoot(w)
    PROVE  RunInv'
<1>1. Run!TypeOK /\ Located /\ Family /\ Promises BY DEF RunInv
<1>2. stack[w] # <<>> /\ Run!Top(w).pc = "finish" BY DEF Run!FinishRoot, Run!Running, Run!Top
<1>3. PICK t \in Task : t = Run!Node(w) BY <1>1, <1>2, TopSays
<1>4. /\ t \in Live /\ Kids(t) = {} /\ TopSlot(w) \in Slots /\ At(TopSlot(w)).pc = "finish"
      /\ At(TopSlot(w)).node = t BY <1>1, <1>2, <1>3, TopSays DEF Invokes, Ending
<1>5. PICK o \in {"value", "exception"} : o = IF topology.eptr = NoTask THEN "value" ELSE "exception" OBVIOUS
<1>6. /\ recycled' = recycled \cup {t} /\ parent[t] = NoTask /\ Run!Pop(w)
      /\ promise' = IF kind[t] = "graph" THEN [promise EXCEPT ![t] = o] ELSE Run!Broken(t)
      /\ reported' = IF kind[t] = "graph" THEN reported \cup ({topology.eptr} \ {NoTask}) ELSE reported
      /\ UNCHANGED <<kind, parent, preempted, join, estate, eptr, topology, coruns, thrown, scheduled>>
  BY <1>3, <1>5 DEF Run!FinishRoot
<1>7. Located' /\ stack' \in [Worker -> Seq(Run!Frame)] BY <1>1, RootLocated
<1>8. kind[t] = "promised" => promise[t] # "pending" BY <1>1, <1>4, <1>6 DEF Promises, Ending
<1>9. promise[t] # "broken" /\ promise \in [Task -> Run!Outcome] BY <1>1, <1>6 DEF Promises, Run!TypeOK
<1>10. /\ promise' \in [Task -> Run!Outcome]
       /\ \A u \in Task \ {t} : promise'[u] = promise[u]
       /\ kind[t] \in {"promised", "graph"} => promise'[t] # "pending"
       /\ promise'[t] # "broken"
  <2>1. CASE kind[t] = "graph"
    <3>1. promise' = [promise EXCEPT ![t] = o] /\ o \in Run!Outcome BY <1>6, <2>1 DEF Run!Outcome
    <3> QED BY <1>9, <3>1
  <2>2. CASE kind[t] # "graph"
    <3>1. promise' = Run!Broken(t) BY <1>6, <2>2
    <3> QED BY <1>1, <1>8, <1>9, <2>2, <3>1, BrokenFacts
  <2> QED BY <2>1, <2>2
<1>11. reported' \in SUBSET Task
  <2>1. reported \in SUBSET Task /\ topology.eptr \in Task \cup {NoTask} BY <1>1 DEF Run!TypeOK, Run!Nodes
  <2> QED BY <1>6, <2>1
<1>12. Family' BY <1>1, <1>4, <1>6, <1>10, FamilyEnd
<1>13. \A s \in Slots' : s \in Slots /\ At(s)' = At(s) /\ At(s).node # t
  BY <1>1, <1>2, <1>3, <1>6, PopSlots, PopPlaces
<1>14. Promises' BY <1>1, <1>6, <1>10, <1>13, PromisesEnd
<1>15. Run!TypeOK'
  <2>1. Run!Created' = Run!Created /\ t \in Run!Created BY <1>4, <1>6 DEF Run!Created, Live
  <2> QED BY <1>1, <1>6, <1>7, <1>10, <1>11, <2>1 DEF Run!TypeOK
<1> QED BY <1>7, <1>12, <1>14, <1>15 DEF RunInv

\* A task is created.
LEMMA AnimateKeeps ==
    ASSUME RunInv, NEW c \in Task, NEW k \in {"plain", "silent", "promised", "graph"},
           NEW p \in Task \cup {NoTask}, Run!Animate(c, k, p),
           p # NoTask => p \in Live /\ Run!IsRuntime(p) /\ k # "graph",
           UNCHANGED <<preempted, eptr, promise, topology, recycled, coruns, thrown, reported, stack>>,
           join' \in [Task -> Nat]
    PROVE  Run!TypeOK' /\ Family' /\ Promises'
<1>1. Run!TypeOK /\ Located /\ Family /\ Promises BY DEF RunInv
<1>2. /\ c \notin Run!Created /\ Live' = Live \cup {c} /\ Run!Created' = Run!Created \cup {c}
      /\ \A u \in Task \ {c} : kind'[u] = kind[u] /\ parent'[u] = parent[u]
      /\ kind'[c] = k /\ parent'[c] = p
      /\ \A s \in Slots : At(s).node # c
      /\ kind' \in [Task -> Run!Kind \cup {"none"}] /\ parent' \in [Task -> Run!Nodes]
      /\ scheduled' \in [Task -> Nat] BY <1>1, AnimateFacts
<1>3. Live \subseteq Run!Created /\ Run!Created \subseteq Task /\ recycled \subseteq Run!Created
  BY <1>1 DEF Live, Run!Created, Run!TypeOK
<1>4. Run!TypeOK'
  <2>1. PICK e \in SUBSET Run!Flags : e = IF k = "promised" THEN {"ANCHORED"} ELSE {} BY DEF Run!Flags
  <2>2. estate' = [estate EXCEPT ![c] = e] BY <2>1 DEF Run!Animate
  <2>3. estate' \in [Task -> SUBSET Run!Flags] BY <1>1, <2>2 DEF Run!TypeOK
  <2>4. recycled' \subseteq Run!Created' BY <1>2, <1>3
  <2> QED BY <1>1, <1>2, <2>3, <2>4 DEF Run!TypeOK
<1>5. Family'
  <2>1. \A u \in Task \ Run!Created' : ~preempted'[u] /\ parent'[u] = NoTask /\ promise'[u] = "pending"
    BY <1>1, <1>2 DEF Family
  <2>2. ASSUME NEW u \in Live', parent'[u] # NoTask PROVE parent'[u] \in Live' /\ Run!IsRuntime(parent[u])'
    <3>1. CASE u = c
      <4>1. p \in Live /\ Run!IsRuntime(p) /\ p # c BY <1>2, <1>3, <2>2, <3>1
      <4>2. p \in Live' /\ kind'[p] # "plain" BY <1>2, <1>3, <4>1 DEF Run!IsRuntime
      <4> QED BY <1>2, <3>1, <4>2 DEF Run!IsRuntime
    <3>2. CASE u # c
      <4>1. u \in Live /\ u \in Task /\ parent'[u] = parent[u] BY <1>2, <1>3, <2>2, <3>2
      <4>2. PICK q \in Task : q = parent[u] /\ q \in Live /\ Run!IsRuntime(q) /\ q # c
        BY <1>1, <1>2, <1>3, <2>2, <4>1 DEF Family
      <4>3. q \in Live' /\ kind'[q] # "plain" BY <1>2, <4>2 DEF Run!IsRuntime
      <4> QED BY <4>1, <4>2, <4>3 DEF Run!IsRuntime
    <3> QED BY <3>1, <3>2
  <2>3. ASSUME NEW u \in Run!Created', kind'[u] = "graph" PROVE parent'[u] = NoTask
    <3>1. CASE u = c BY <1>2, <2>3, <3>1
    <3>2. CASE u # c BY <1>1, <1>2, <1>3, <2>3, <3>2 DEF Family
    <3> QED BY <3>1, <3>2
  <2> QED BY <2>1, <2>2, <2>3 DEF Family
<1>6. Promises'
  <2>1. Slots' = Slots /\ \A s \in Slots : At(s)' = At(s) BY DEF Slots, At
  <2>2. \A u \in Task : promise[u] = "broken" => u \in recycled' /\ parent'[u] # NoTask
    BY <1>1, <1>2, <1>3 DEF Promises
  <2>3. \A u \in recycled : kind'[u] \in {"promised", "graph"} => promise[u] # "pending"
    BY <1>1, <1>2, <1>3 DEF Promises
  <2>4. ASSUME NEW s \in Slots PROVE kind'[At(s).node] = kind[At(s).node] /\ parent'[At(s).node] = parent[At(s).node]
    BY <1>1, <1>2, <2>4, SlotFrames
  <2> QED BY <1>1, <2>1, <2>2, <2>3, <2>4 DEF Promises
<1> QED BY <1>4, <1>5, <1>6

LEMMA SpawnKeeps ==
    ASSUME RunInv, NEW w \in Worker, NEW c \in Task, NEW k \in ChildKinds, Run!Spawn(w, c, k)
    PROVE  RunInv'
<1>1. Run!TypeOK /\ Located /\ Family /\ Promises BY DEF RunInv
<1>2. k \in {"plain", "silent", "promised", "graph"} /\ k # "graph"
  BY MCAssumption DEF Run!RuntimeAssumption
<1>3. Located' /\ join' \in [Task -> Nat] BY <1>1, <1>2, SpawnLocated
<1>4. stack[w] # <<>> BY DEF Run!Spawn, Run!Running
<1>5. PICK p \in Task : p = Run!Node(w) BY <1>1, <1>4, TopSays
<1>6. /\ Run!Animate(c, k, p) /\ Run!IsRuntime(p) /\ p \in Live
      /\ UNCHANGED <<preempted, eptr, promise, topology, recycled, coruns, thrown, reported, stack>>
  BY <1>1, <1>4, <1>5, TopSays DEF Run!Spawn, Run!historyVars
<1> QED BY <1>1, <1>2, <1>3, <1>6, AnimateKeeps DEF RunInv

LEMMA SubmitKeeps ==
    ASSUME RunInv, NEW c \in Task, NEW k \in RootKinds, Run!Submit(c, k)
    PROVE  RunInv'
<1>1. Run!TypeOK /\ Located /\ Family /\ Promises BY DEF RunInv
<1>2. k \in {"plain", "silent", "promised", "graph"} BY MCAssumption DEF Run!RuntimeAssumption
<1>3. Located' BY <1>1, <1>2, SubmitLocated
<1>4. PICK p \in Task \cup {NoTask} : p = NoTask OBVIOUS
<1>6. /\ Run!Animate(c, k, p) /\ join' = join
      /\ UNCHANGED <<preempted, eptr, promise, topology, recycled, coruns, thrown, reported, stack>>
  BY <1>4 DEF Run!Submit, Run!historyVars
<1>7. join' \in [Task -> Nat] BY <1>1, <1>6 DEF Run!TypeOK
<1> QED BY <1>2, <1>3, <1>4, <1>6, <1>7, AnimateKeeps DEF RunInv

LEMMA RuntimeInit == Run!Init => RunInv
<1> SUFFICES ASSUME Run!Init PROVE RunInv OBVIOUS
<1>1. Slots = {} /\ Run!Created = {} /\ Live = {}
  <2>1. \A w \in Worker : 1 .. Len(stack[w]) = {} BY DEF Run!Init
  <2> QED BY <2>1 DEF Run!Init, Slots, Run!Created, Live
<1>2. Run!TypeOK BY <1>1, MCAssumption
  DEF Run!TypeOK, Run!Init, Run!RuntimeAssumption, Run!Kind, Run!Nodes, Run!Outcome, Run!Flags, Run!Created
<1>3. Located BY <1>1 DEF Located, Single, Below, Gone, Kids, Run!Init
<1>4. Family /\ Promises BY <1>1 DEF Family, Promises, Run!Init
<1> QED BY <1>2, <1>3, <1>4 DEF RunInv

LEMMA RuntimeStays == RunInv /\ UNCHANGED Run!vars => RunInv'
<1> SUFFICES ASSUME RunInv, UNCHANGED Run!vars PROVE RunInv' OBVIOUS
<1>1. UNCHANGED <<kind, parent, preempted, join, estate, eptr, promise, topology, recycled, coruns, thrown,
                  reported, scheduled, stack>> BY DEF Run!vars, Run!nodeVars, Run!historyVars
<1>2. Live' = Live /\ Slots' = Slots /\ Run!Created' = Run!Created /\ (\A t : Kids(t)' = Kids(t))
      /\ (\A s : At(s)' = At(s)) /\ \A w : TopSlot(w)' = TopSlot(w)
  BY <1>1 DEF Live, Slots, Run!Created, Kids, At, TopSlot
<1>3. RunInv BY DEF RunInv
<1>4. Run!TypeOK' BY <1>1, <1>2, <1>3 DEF RunInv, Run!TypeOK
<1>5. Family' BY <1>1, <1>2, <1>3 DEF RunInv, Family, Run!IsRuntime
<1>6. Promises' BY <1>1, <1>2, <1>3 DEF RunInv, Promises
<1>7. Single' /\ Below' BY <1>2, <1>3 DEF RunInv, Located, Single, Below
<1>8. \A s \in Slots : Invokes(s)' <=> Invokes(s) BY <1>1, <1>2 DEF Invokes, Run!IsRuntime
<1>9. \A t \in Task \ Live : Gone(t)' BY <1>1, <1>2, <1>3 DEF RunInv, Located, Gone
<1>10. ASSUME NEW t \in Live PROVE Waiting(t)' \/ (\E s \in Slots : At(s).node = t) \/ Left(t)'
  BY <1>1, <1>2, <1>3, <1>10 DEF RunInv, Located, Waiting, Left
<1>11. \A s \in Slots : Invokes(s) BY <1>3 DEF RunInv, Located
<1>12. Located' BY <1>2, <1>7, <1>8, <1>9, <1>10, <1>11 DEF Located
<1> QED BY <1>4, <1>5, <1>6, <1>12 DEF RunInv

LEMMA RuntimeNext == RunInv /\ Run!Next => RunInv'
<1> SUFFICES ASSUME RunInv, Run!Next PROVE RunInv' OBVIOUS
<1>1. CASE \E t \in Task, k \in RootKinds : Run!Submit(t, k) BY <1>1, SubmitKeeps
<1>2. CASE Run!Cancel BY <1>2, CancelKeeps
<1>3. ASSUME NEW w \in Worker, Run!WorkerStep(w) PROVE RunInv'
  <2>1. CASE Run!Schedule(w) BY <2>1, TakeKeeps DEF Run!Schedule
  <2>2. CASE Run!Callable(w) BY <2>2, SpawnKeeps, InnerKeeps DEF Run!Callable, Inner
  <2>3. CASE Run!Invoke(w)
    BY <2>3, ReenterKeeps, SkipKeeps, CallKeeps, LeaveKeeps, LeavePlainKeeps, ReadParentKeeps,
       CountKeeps, FinishRootKeeps, InnerKeeps DEF Run!Invoke, Inner
  <2> QED BY <1>3, <2>1, <2>2, <2>3 DEF Run!WorkerStep
<1> QED BY <1>1, <1>2, <1>3 DEF Run!Next

\* A node is in one place at a time, the counters are exact, and parents outlive their children.
LEMMA RuntimeConsistent == RunInv => Run!Consistent
<1> SUFFICES ASSUME RunInv PROVE Run!Consistent OBVIOUS
<1>1. Run!TypeOK /\ Located /\ Family BY DEF RunInv
<1>2. ASSUME NEW g \in Run!Frames
      PROVE  \E s \in Slots : /\ At(s) = Run!FrameOf(g) /\ g = <<s[1], Len(stack[s[1]]) + 1 - s[2]>>
  <2>1. PICK w \in Worker : \E j \in DOMAIN stack[w] : g = <<w, j>> BY DEF Run!Frames
  <2>2. PICK i \in DOMAIN stack[w] : g = <<w, i>> BY <2>1
  <2>3. stack[w] \in Seq(Run!Frame) BY <1>1 DEF Run!TypeOK
  <2>4. Len(stack[w]) \in Nat /\ i \in 1 .. Len(stack[w]) BY <2>2, <2>3
  <2>5. PICK d \in 1 .. Len(stack[w]) : d = Len(stack[w]) + 1 - i BY <2>4
  <2>6. Len(stack[w]) + 1 - d = i BY <2>4, <2>5
  <2>7. <<w, d>> \in Slots BY DEF Slots
  <2>8. At(<<w, d>>) = stack[w][i] BY <2>6 DEF At
  <2> QED BY <2>2, <2>6, <2>7, <2>8 DEF Run!FrameOf
<1>3. ASSUME NEW s \in Slots PROVE \E g \in Run!Frames : Run!FrameOf(g) = At(s)
  <2>1. PICK w \in Worker : \E e \in 1 .. Len(stack[w]) : s = <<w, e>> BY DEF Slots
  <2>2. PICK d \in 1 .. Len(stack[w]) : s = <<w, d>> BY <2>1
  <2>3. stack[w] \in Seq(Run!Frame) /\ Len(stack[w]) \in Nat BY <1>1 DEF Run!TypeOK
  <2>4. PICK i \in DOMAIN stack[w] : i = Len(stack[w]) + 1 - d BY <2>3
  <2>5. <<w, i>> \in Run!Frames BY DEF Run!Frames
  <2>6. Run!FrameOf(<<w, i>>) = At(s) BY <2>2, <2>4 DEF Run!FrameOf, At
  <2> QED BY <2>5, <2>6
<1>4. ASSUME NEW g \in Run!Frames, NEW h \in Run!Frames, Run!FrameOf(g).node = Run!FrameOf(h).node PROVE g = h
  <2>1. PICK s \in Slots : At(s) = Run!FrameOf(g) /\ g = <<s[1], Len(stack[s[1]]) + 1 - s[2]>> BY <1>2
  <2>2. PICK u \in Slots : At(u) = Run!FrameOf(h) /\ h = <<u[1], Len(stack[u[1]]) + 1 - u[2]>> BY <1>2
  <2>3. s = u BY <1>1, <1>4, <2>1, <2>2 DEF Located, Single
  <2> QED BY <2>1, <2>2, <2>3
<1>5. ASSUME NEW t \in Task, NEW S \in SUBSET Run!Invoked(t) PROVE S = {} \/ \E g \in S : S = {g}
  BY <1>4 DEF Run!Invoked
<1>6. ASSUME NEW t \in Task
      PROVE  \/ Run!Invoked(t) = {} /\ \A s \in Slots : At(s).node # t
             \/ \E s \in Slots, g \in Run!Frames : /\ At(s).node = t /\ Run!FrameOf(g) = At(s)
                                                    /\ Run!Invoked(t) = {g}
  <2>1. CASE \E s \in Slots : At(s).node = t
    <3>1. PICK s \in Slots : At(s).node = t BY <2>1
    <3>2. PICK g \in Run!Frames : Run!FrameOf(g) = At(s) BY <1>3
    <3>3. g \in Run!Invoked(t) BY <3>1, <3>2 DEF Run!Invoked
    <3>4. Run!Invoked(t) = {g} BY <1>5, <3>3
    <3> QED BY <3>1, <3>2, <3>4
  <2>2. CASE \A s \in Slots : At(s).node # t
    <3>1. Run!Invoked(t) = {} BY <1>2, <2>2 DEF Run!Invoked
    <3> QED BY <2>2, <3>1
  <2> QED BY <2>1, <2>2
<1>7. Cardinality({}) = 0 /\ \A x : Cardinality({x}) = 1 BY FS_EmptySet, FS_Singleton
<1>8. \A S : Run!Cardinality(S) = Cardinality(S) BY DEF Run!Cardinality, Cardinality
<1>9. Run!InOnePlace
  <2> SUFFICES ASSUME NEW t \in Task PROVE scheduled[t] + Run!Cardinality(Run!Invoked(t)) <= 1
    BY DEF Run!InOnePlace
  <2>1. scheduled[t] \in {0, 1}
    <3>1. \/ Gone(t) \/ Waiting(t) \/ Left(t) \/ \E s \in Slots : At(s).node = t /\ Invokes(s)
      BY <1>1 DEF Located
    <3> QED BY <3>1 DEF Gone, Waiting, Left, Invokes
  <2>2. (\E s \in Slots : At(s).node = t) => scheduled[t] = 0 BY <1>1 DEF Located, Invokes
  <2>3. CASE Run!Invoked(t) = {}
    <3>1. Run!Cardinality(Run!Invoked(t)) = 0 BY <1>7, <1>8, <2>3
    <3> QED BY <2>1, <3>1
  <2>4. ASSUME NEW s \in Slots, NEW g, At(s).node = t, Run!Invoked(t) = {g}
        PROVE  scheduled[t] + Run!Cardinality(Run!Invoked(t)) <= 1
    <3>1. Run!Cardinality(Run!Invoked(t)) = 1 BY <1>7, <1>8, <2>4
    <3>2. scheduled[t] = 0 BY <2>2, <2>4
    <3> QED BY <3>1, <3>2
  <2> QED BY <1>6, <2>3, <2>4
<1>10. Run!JoinExact
  <2> SUFFICES ASSUME NEW t \in Run!Created
               PROVE  join[t] = Run!Cardinality({c \in Run!Created \ recycled : parent[c] = t})
                         + Run!Cardinality({f \in Run!Invoked(t) : Run!IsRuntime(t) /\
                              Run!FrameOf(f).pc \in {"work", "corun", "raise", "store", "leave"}})
    BY DEF Run!JoinExact
  <2> DEFINE I == {f \in Run!Invoked(t) : Run!IsRuntime(t) /\
                     Run!FrameOf(f).pc \in {"work", "corun", "raise", "store", "leave"}}
  <2>1. {c \in Run!Created \ recycled : parent[c] = t} = Kids(t) BY DEF Kids, Live
  <2>2. t \in Task BY DEF Run!Created
  <2>3. Cardinality(Kids(t)) \in Nat /\ (Kids(t) = {} => Cardinality(Kids(t)) = 0) BY <2>2, KidsFacts
  <2>4. CASE Run!Invoked(t) = {} /\ \A s \in Slots : At(s).node # t
    <3>1. I = {} BY <2>4
    <3>2. join[t] = Cardinality(Kids(t)) BY <1>1, <2>2, <2>3, <2>4 DEF Located, Gone, Waiting, Left
    <3> QED BY <1>7, <1>8, <2>1, <2>3, <3>1, <3>2
  <2>5. ASSUME NEW s \in Slots, NEW g \in Run!Frames, At(s).node = t, Run!FrameOf(g) = At(s), Run!Invoked(t) = {g}
        PROVE  join[t] = Cardinality(Kids(t)) + Cardinality(I)
    <3>1. Invokes(s) BY <1>1 DEF Located
    <3>2. CASE Run!IsRuntime(t) /\ At(s).pc \in Inside
      <4>1. I = {g} BY <2>5, <3>2 DEF Inside
      <4>2. join[t] = Cardinality(Kids(t)) + 1 BY <2>5, <3>1, <3>2 DEF Invokes
      <4> QED BY <1>7, <4>1, <4>2
    <3>3. CASE ~(Run!IsRuntime(t) /\ At(s).pc \in Inside)
      <4>1. I = {} BY <2>5, <3>3 DEF Inside
      <4>2. At(s).pc \in Inside \cup Ending \cup {"begin"} BY <1>1, SlotFrames DEF Run!Frame, Inside, Ending
      <4>3. join[t] = 0 /\ Kids(t) = {} BY <2>5, <3>1, <3>3, <4>2 DEF Invokes
      <4> QED BY <1>7, <2>3, <4>1, <4>3
    <3> QED BY <3>2, <3>3
  <2> HIDE DEF I
  <2> QED BY <1>6, <1>8, <2>1, <2>2, <2>4, <2>5 DEF I
<1>11. Run!ParentOutlivesChildren BY <1>1 DEF Run!ParentOutlivesChildren, Family, Live
<1> QED BY <1>1, <1>9, <1>10, <1>11 DEF Run!Consistent

\* A future is answered when its task is over.
LEMMA RuntimeAnswers == RunInv => Run!FuturesAnswered
<1> SUFFICES ASSUME RunInv PROVE Run!FuturesAnswered OBVIOUS
<1>1. Promises /\ recycled \subseteq Task BY DEF RunInv, Run!TypeOK, Run!Created
<1> QED BY <1>1 DEF Promises, Run!FuturesAnswered

-----------------------------------------------------------------------------
(* The instance of the run *)

\* While dependent tasks make the steps, their inductive invariant holds.
DependentInv == part = "dependent" => IInv

LEMMA DependentAlways == MCSpec => []DependentInv
<1>1. MCInit => DependentInv
  <2>1. ASSUME MCInit, part = "dependent" PROVE Init BY <2>1 DEF MCInit
  <2> QED BY <2>1, MCAssumption, InitInv DEF DependentInv
<1>2. DependentInv /\ [MCNext]_mcVars => DependentInv'
  <2> SUFFICES ASSUME DependentInv, [MCNext]_mcVars, part' = "dependent" PROVE IInv'
    BY DEF DependentInv
  <2>1. CASE MCNext
    <3>1. part = "dependent" /\ Next BY <2>1 DEF MCNext
    <3> QED BY <3>1, NextInv DEF DependentInv
  <2>2. CASE UNCHANGED mcVars
    <3>1. part = "dependent" /\ UNCHANGED vars
      BY <2>2 DEF mcVars, depOnly, vars, clientVars, workerVars
    <3> QED BY <3>1, NextInv DEF DependentInv
  <2> QED BY <2>1, <2>2
<1> QED BY <1>1, <1>2, PTL DEF MCSpec

\* No dependent task is taken up before all tasks it depends on have finished
\* (dependent_async).
THEOREM RunsAfterPredecessorsAlways == MCSpec => []DependentOrder
<1>1. DependentInv => DependentOrder BY RunsAfter DEF DependentInv, DependentOrder
<1> QED BY <1>1, DependentAlways, PTL

\* Nobody reaches a recycled node, and none without an owner is kept (AsyncTask).
THEOREM OwnershipAlways == MCSpec => []DependentOwnership
<1>1. DependentInv => DependentOwnership BY OwnersExact DEF DependentInv, DependentOwnership
<1> QED BY <1>1, DependentAlways, PTL

\* While runtime tasks make the steps, their inductive invariant holds.
RuntimeInv == part = "runtime" => RunInv

LEMMA RuntimeAlways == MCSpec => []RuntimeInv
<1>1. MCInit => RuntimeInv
  <2>1. ASSUME MCInit, part = "runtime" PROVE Run!Init BY <2>1 DEF MCInit
  <2> QED BY <2>1, RuntimeInit DEF RuntimeInv
<1>2. RuntimeInv /\ [MCNext]_mcVars => RuntimeInv'
  <2> SUFFICES ASSUME RuntimeInv, [MCNext]_mcVars, part' = "runtime" PROVE RunInv' BY DEF RuntimeInv
  <2>1. CASE MCNext
    <3>1. part = "runtime" /\ Run!Next BY <2>1 DEF MCNext
    <3> QED BY <3>1, RuntimeNext DEF RuntimeInv
  <2>2. CASE UNCHANGED mcVars
    <3>1. part = "runtime" /\ UNCHANGED Run!vars
      BY <2>2 DEF mcVars, runOnly, Run!vars, Run!nodeVars, Run!historyVars
    <3> QED BY <3>1, RuntimeStays DEF RuntimeInv
  <2> QED BY <2>1, <2>2
<1> QED BY <1>1, <1>2, PTL DEF MCSpec

\* Runtime tasks: a node is queued or invoked in one place, its join counter is the
\* number of its children and its own first invocation, and it outlives its children
\* (_invoke_runtime_task_impl, _tear_down_async).
THEOREM RuntimeTasksConsistent == MCSpec => [](part = "runtime" => Run!Consistent)
<1>1. RuntimeInv => (part = "runtime" => Run!Consistent) BY RuntimeConsistent DEF RuntimeInv
<1> QED BY <1>1, RuntimeAlways, PTL

\* A future that a client holds is answered when its task is over (_invoke_async_task).
THEOREM FuturesAnsweredAlways == MCSpec => []FuturesAnswered
<1>1. RuntimeInv => FuturesAnswered BY RuntimeAnswers DEF RuntimeInv, FuturesAnswered
<1> QED BY <1>1, RuntimeAlways, PTL

\* While subflows make the steps, their inductive invariant holds, and their graphs are
\* run once.
SubflowInv == part = "subflow" => Sub!IInv /\ Sub!Once

LEMMA SubflowAlways == MCSpec => []SubflowInv
<1>1. MCInit => SubflowInv
  <2>1. ASSUME MCInit, part = "subflow" PROVE Sub!Init BY <2>1 DEF MCInit
  <2> QED BY <2>1, MCAssumption, Sub!InitPlaced, Sub!InitOnce DEF SubflowInv
<1>2. SubflowInv /\ [MCNext]_mcVars => SubflowInv'
  <2> SUFFICES ASSUME SubflowInv, [MCNext]_mcVars, part' = "subflow" PROVE Sub!IInv' /\ Sub!Once'
    BY DEF SubflowInv
  <2>1. part = "subflow" /\ [Sub!Next]_(Sub!subflowVars)
    <3>1. CASE MCNext BY <3>1 DEF MCNext
    <3>2. CASE UNCHANGED mcVars BY <3>2 DEF mcVars, subOnly, Sub!subflowVars
    <3> QED BY <3>1, <3>2
  <2>2. Sub!IInv /\ Sub!Once BY <2>1 DEF SubflowInv
  <2> QED BY <2>1, <2>2, Sub!NextPlaced, Sub!NextOnce
<1> QED BY <1>1, <1>2, PTL DEF MCSpec

\* The graph of a subflow is run once and as a whole, although a join that failed leaves
\* it joinable and it is scheduled again (join, _invoke_subflow_task).
THEOREM JoinsOnceAlways == MCSpec => []JoinsOnce
<1>1. SubflowInv => JoinsOnce BY Sub!OnceJoins DEF SubflowInv, JoinsOnce
<1> QED BY <1>1, SubflowAlways, PTL

\* Counters are exact, a task is in one place, and nobody holds a node that is gone:
\* of dependent tasks, of runtime tasks and of subflows (_tear_down_dependent_async,
\* _tear_down_async, _tear_down_nonasync).
THEOREM NodesConsistentAlways == MCSpec => []NodesConsistent
<1> DEFINE Parts == part \in {"dependent", "runtime", "subflow"}
<1>1. MCInit => Parts BY DEF MCInit
<1>2. Parts /\ [MCNext]_mcVars => Parts' BY DEF MCNext, mcVars
<1>3. ASSUME Parts, DependentInv, RuntimeInv, SubflowInv PROVE NodesConsistent
  <2>1. CASE part = "dependent" BY <1>3, <2>1, CountersExact DEF DependentInv, NodesConsistent
  <2>2. CASE part = "runtime" BY <1>3, <2>2, RuntimeConsistent DEF RuntimeInv, NodesConsistent
  <2>3. CASE part = "subflow" BY <1>3, <2>3, Sub!PlacedConsistent DEF SubflowInv, NodesConsistent
  <2> QED BY <1>3, <2>1, <2>2, <2>3
<1> QED BY <1>1, <1>2, <1>3, DependentAlways, RuntimeAlways, SubflowAlways, PTL DEF MCSpec
=============================================================================
