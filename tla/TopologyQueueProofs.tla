------------------------- MODULE TopologyQueueProofs -------------------------
(***************************************************************************)
(* For any number of clients, workers, taskflows and runs: no thread uses  *)
(* a taskflow or a topology that was destroyed, the runs of a taskflow are *)
(* executed in the order of its queue, and promises tell the truth.        *)
(*                                                                         *)
(* The invariant says what a thread at each place in the code knows of the *)
(* run it works for, and that a run has one thread in charge; that a queue *)
(* is what is left of the runs submitted to its taskflow; for a run, by    *)
(* how far it got -- fresh, waiting, in front or over -- how many of its   *)
(* tasks are with the workers and how many are still due; and which runs   *)
(* and workers _num_topologies counts.                                     *)
(***************************************************************************)
EXTENDS TopologyQueue, FiniteSetTheorems, TLAPS, TLC

\* Where a thread may be: on the way into the queue, in a task of a round, in charge of
\* the run, or holding the lock of its taskflow.
Entry   == {"count", "check", "dummyCall", "dummyDecrement", "enqueue"}
Round   == {"invoke", "store", "retire"}
Leading == {"decide", "again", "setUp", "call", "lock", "promiseNext", "popNext", "decrementNext"}
Last    == {"unlockLast", "promiseLast", "decrementLast", "erase"}
Charge  == Leading \cup Last
Locking == {"setUp", "unlock", "promiseNext", "popNext", "decrementNext", "unlockLast"}

\* A run that entered its taskflow's queue, that is still in it, and that is at its front.
In(s, r)   == \E i \in 1 .. Len(s) : s[i] = r
Entered(r) == flowOf[r] \in Flow /\ In(submitted[flowOf[r]], r)
Queued(r)  == flowOf[r] \in Flow /\ In(queue[flowOf[r]], r)
Front(r)   == flowOf[r] \in Flow /\ queue[flowOf[r]] # <<>> /\ Head(queue[flowOf[r]]) = r

\* The tasks of a run that workers are at, and those of them still to be executed.
Busy(r)     == {w \in Worker : cur[w] = r /\ pc[w] \in Round}
Invoking(r) == {w \in Worker : cur[w] = r /\ pc[w] = "invoke"}

Size(r) == FlowSize[flowOf[r]]
Due(r)  == repeat[r] * Size(r)

\* k tasks of this round and all of the rounds to come are what is missing, unless the run
\* was cancelled.
Budget(r, k) ==
    /\ tpg[r].pred >= 0
    /\ tpg[r].ran + k + tpg[r].pred * Size(r) <= Due(r)
    /\ ~tpg[r].cancelled => tpg[r].ran + k + tpg[r].pred * Size(r) = Due(r)

\* All tasks ran that were due, unless the run was cancelled.
Complete(r) == tpg[r].ran <= Due(r) /\ (~tpg[r].cancelled => tpg[r].ran = Due(r))

Clean(t) == /\ t.ready = 0 /\ t.joinCounter = 0 /\ t.ran = 0
            /\ ~t.raised /\ ~t.exception /\ ~t.alive /\ ~t.cancelled

\* A client on its way into the queue.
EntryOK(a, r) ==
    /\ ~Entered(r) /\ Clean(tpg[r])
    /\ pc[a] \in {"count", "check"} => tpg[r].pred = repeat[r]
    /\ pc[a] \in {"dummyCall", "dummyDecrement"} => Due(r) = 0
    /\ pc[a] = "enqueue" => Budget(r, Size(r))
    /\ pc[a] # "dummyDecrement" => tpg[r].calls = 0 /\ tpg[r].promise = "pending"
    /\ pc[a] = "dummyDecrement" => tpg[r].promise # "pending"

\* The thread that is in charge of a run, between its rounds and after the last one.
LeadOK(a, r) ==
    /\ pc[a] \in Leading => Front(r)
    /\ pc[a] \in Last => Entered(r) /\ ~Queued(r) /\ tpg[r].alive
    /\ tpg[r].joinCounter = 0
    /\ pc[a] \in {"decide", "again", "setUp", "decrementNext", "call"} => tpg[r].calls = 0
    /\ pc[a] \in {"lock", "promiseNext", "unlockLast", "promiseLast"} => tpg[r].calls = 1
    /\ pc[a] \in {"popNext", "decrementLast", "erase"} <=> tpg[r].promise # "pending"
    /\ pc[a] \in {"promiseNext", "popNext"} => Len(queue[flowOf[r]]) > 1
    /\ pc[a] = "decide" => Budget(r, 0)
    /\ pc[a] \in {"again", "setUp", "decrementNext"} => Budget(r, Size(r))
    /\ pc[a] \in {"call", "lock", "promiseNext", "unlockLast", "promiseLast"} => Complete(r)
    /\ tpg[r].promise = "pending" => (tpg[r].raised <=> tpg[r].exception)

\* What a thread at its place in the code knows of the run that it works for.
PlaceOK(a, r) ==
    /\ flowOf[r] \in Flow
    /\ pc[a] \in Entry => EntryOK(a, r)
    /\ pc[a] \in Round => Front(r)
    /\ pc[a] = "store" => tpg[r].raised
    /\ pc[a] = "unlock" => Queued(r)
    /\ pc[a] \in Charge => LeadOK(a, r)

ThreadOK(a) ==
    /\ a \in Client => pc[a] \in ClientPC
    /\ a \in Worker => pc[a] \in WorkerPC
    /\ cur[a] = Nobody <=> pc[a] \in {"idle", "waitForAll"}
Threads == \A a \in Actor : ThreadOK(a)
Places  == \A a \in Actor, r \in Run : cur[a] = r => PlaceOK(a, r)

\* A run has one thread in charge.
Alone(a, b, r) == cur[a] = r /\ cur[b] = r /\ {pc[a], pc[b]} \subseteq Entry \cup Charge => a = b
Alones == \A a, b \in Actor, r \in Run : Alone(a, b, r)

Mutexes == \A a \in Actor, r \in Run : cur[a] = r /\ pc[a] \in Locking => mutex[flowOf[r]] = a

\* The queue is what is left of the runs that were submitted.
QueueOK(f) ==
    /\ Len(queue[f]) <= Len(submitted[f])
    /\ \A k \in 1 .. Len(queue[f]) :
         queue[f][k] = submitted[f][Len(submitted[f]) - Len(queue[f]) + k]
    /\ \A i \in 1 .. Len(submitted[f]) : flowOf[submitted[f][i]] = f
    /\ \A i, j \in 1 .. Len(submitted[f]) : submitted[f][i] = submitted[f][j] => i = j

PromiseTrue(r) ==
    /\ tpg[r].calls = 1 /\ Complete(r)
    /\ tpg[r].promise = "exception" <=> tpg[r].raised

Fresh(r) ==
    ~Entered(r) =>
        /\ Clean(tpg[r])
        /\ flowOf[r] \in Flow /\ tpg[r].promise = "pending" =>
             \E c \in Client : cur[c] = r /\ pc[c] \in Entry \ {"dummyDecrement"}
        /\ flowOf[r] = Nobody => tpg[r].promise = "pending" /\ tpg[r].calls = 0
Waiting(r) ==
    Queued(r) /\ ~Front(r) =>
        /\ tpg[r].ready = 0 /\ tpg[r].joinCounter = 0 /\ tpg[r].ran = 0 /\ tpg[r].calls = 0
        /\ tpg[r].promise = "pending" /\ ~tpg[r].raised /\ ~tpg[r].exception
        /\ Budget(r, Size(r))
InFront(r) ==
    Front(r) =>
        /\ IsFiniteSet(Busy(r)) /\ tpg[r].ready + Cardinality(Busy(r)) = tpg[r].joinCounter
        /\ tpg[r].promise # "pending" =>
             \E w \in Worker : cur[w] = r /\ pc[w] = "popNext"
        /\ tpg[r].joinCounter > 0 =>
             /\ tpg[r].calls = 0
             /\ Budget(r, tpg[r].ready + Cardinality(Invoking(r)))
             /\ tpg[r].exception => tpg[r].raised
             /\ tpg[r].raised => \/ tpg[r].exception
                                 \/ \E w \in Worker : cur[w] = r /\ pc[w] = "store"
Over(r) ==
    Entered(r) /\ ~Queued(r) =>
        /\ tpg[r].ready = 0 /\ tpg[r].joinCounter = 0 /\ tpg[r].calls = 1
        /\ tpg[r].promise = "pending" =>
             \E w \in Worker : cur[w] = r /\ pc[w] \in {"unlockLast", "promiseLast"}

RunOK(r) ==
    /\ Fresh(r) /\ Waiting(r) /\ InFront(r) /\ Over(r)
    /\ Queued(r) => tpg[r].alive
    /\ tpg[r].raised => tpg[r].cancelled
    /\ tpg[r].promise # "pending" => PromiseTrue(r)

\* The runs and the workers that _num_topologies counts.
CountedRuns ==
    {r \in Run : \/ Queued(r)
                 \/ \E c \in Client : cur[c] = r /\ pc[c] \in Entry \ {"count"}}
CountedWorkers ==
    {w \in Worker : pc[w] \in {"decrementNext", "unlockLast", "promiseLast", "decrementLast"}}
TopologiesOK ==
    /\ IsFiniteSet(CountedRuns) /\ IsFiniteSet(CountedWorkers)
    /\ topologies = Cardinality(CountedRuns) + Cardinality(CountedWorkers)

FlowOK(f) ==
    /\ f \in destroyed =>
         /\ \A r \in Run : flowOf[r] = f => tpg[r].promise # "pending"
         /\ \A c \in Client, r \in Run : cur[c] = r => flowOf[r] # f
    /\ f \in Moved =>
         /\ \A r \in Run : flowOf[r] = f => f \in owned \cup destroyed
         /\ \A r, q \in Run : flowOf[r] = f /\ flowOf[q] = f => r = q

Queues == \A f \in Flow : QueueOK(f)
Runs   == \A r \in Run : RunOK(r)
Flows  == \A f \in Flow : FlowOK(f)

IInv == TypeOK /\ Threads /\ Places /\ Alones /\ Mutexes /\ Queues /\ Runs /\ Flows /\ TopologiesOK

-----------------------------------------------------------------------------
(* Types, queues and numbers.                                                *)

\* The types, in the form in which the proofs use them.
LEMMA Types ==
    ASSUME TypeOK
    PROVE  /\ \A f \in Flow : /\ FlowSize[f] \in Nat /\ queue[f] \in Seq(Run) /\ submitted[f] \in Seq(Run)
                              /\ mutex[f] \in Actor \cup {Nobody}
           /\ \A r \in Run :
                /\ flowOf[r] \in Flow \cup {Nobody} /\ repeat[r] \in Nat
                /\ tpg[r].ready \in Nat /\ tpg[r].joinCounter \in Nat /\ tpg[r].pred \in Int
                /\ tpg[r].calls \in Nat /\ tpg[r].ran \in Nat
                /\ tpg[r].cancelled \in BOOLEAN /\ tpg[r].raised \in BOOLEAN
                /\ tpg[r].exception \in BOOLEAN /\ tpg[r].alive \in BOOLEAN
                /\ tpg[r].promise \in {"pending", "value", "exception"}
           /\ \A a \in Actor : pc[a] \in ClientPC \cup WorkerPC /\ cur[a] \in Run \cup {Nobody}
           /\ Nobody \notin Flow /\ Nobody \notin Run /\ Nobody \notin Actor
           /\ topologies \in Nat
           /\ \A c \in Client : c \in Actor /\ c \notin Worker
           /\ \A w \in Worker : w \in Actor /\ w \notin Client
<1>1. Nobody \notin Flow /\ Nobody \notin Run /\ Nobody \notin Actor /\ FlowSize \in [Flow -> Nat]
      /\ Client \cap Worker = {} BY TopologyAssumption
<1>2. \A f \in Flow : /\ FlowSize[f] \in Nat /\ queue[f] \in Seq(Run) /\ submitted[f] \in Seq(Run)
                      /\ mutex[f] \in Actor \cup {Nobody} BY <1>1 DEF TypeOK
<1>3. \A r \in Run :
         /\ flowOf[r] \in Flow \cup {Nobody} /\ repeat[r] \in Nat
         /\ tpg[r].ready \in Nat /\ tpg[r].joinCounter \in Nat /\ tpg[r].pred \in Int
         /\ tpg[r].calls \in Nat /\ tpg[r].ran \in Nat
         /\ tpg[r].cancelled \in BOOLEAN /\ tpg[r].raised \in BOOLEAN
         /\ tpg[r].exception \in BOOLEAN /\ tpg[r].alive \in BOOLEAN
         /\ tpg[r].promise \in {"pending", "value", "exception"} BY DEF TypeOK
<1>4. (\A a \in Actor : pc[a] \in ClientPC \cup WorkerPC /\ cur[a] \in Run \cup {Nobody}) /\ topologies \in Nat
  BY DEF TypeOK
<1> QED BY <1>1, <1>2, <1>3, <1>4 DEF Actor

\* The front of a queue is queued, and a queued run was submitted; a queue has one front.
LEMMA QueueFacts ==
    ASSUME TypeOK, Queues
    PROVE  /\ \A r \in Run : /\ Front(r) => Queued(r)
                             /\ Queued(r) => Entered(r)
                             /\ Entered(r) => flowOf[r] \in Flow
           /\ \A r, q \in Run : Front(r) /\ Front(q) /\ flowOf[r] = flowOf[q] => r = q
<1>1. ASSUME NEW r \in Run, Front(r) PROVE Queued(r)
  <2>1. PICK s \in Seq(Run) : flowOf[r] \in Flow /\ s = queue[flowOf[r]] /\ s # <<>> /\ Head(s) = r
    BY <1>1, Types DEF Front
  <2>2. 1 \in 1 .. Len(s) /\ s[1] = r BY <2>1
  <2> QED BY <2>1, <2>2 DEF Queued, In
<1>2. ASSUME NEW r \in Run, Queued(r) PROVE Entered(r)
  <2>1. PICK f \in Flow : f = flowOf[r] /\ In(queue[f], r) /\ QueueOK(f) BY <1>2 DEF Queued, Queues
  <2>2. PICK k \in 1 .. Len(queue[f]) : queue[f][k] = r BY <2>1 DEF In
  <2>3. queue[f] \in Seq(Run) /\ submitted[f] \in Seq(Run) BY Types
  <2>4. Len(queue[f]) \in Nat /\ Len(submitted[f]) \in Nat /\ Len(queue[f]) <= Len(submitted[f])
    BY <2>1, <2>3 DEF QueueOK
  <2>5. submitted[f][Len(submitted[f]) - Len(queue[f]) + k] = r BY <2>1, <2>2 DEF QueueOK
  <2>6. \A n, m \in Nat : n <= m => \A i \in 1 .. n : m - n + i \in 1 .. m OBVIOUS
  <2>7. Len(submitted[f]) - Len(queue[f]) + k \in 1 .. Len(submitted[f]) BY <2>4, <2>6
  <2> QED BY <2>1, <2>5, <2>7 DEF Entered, In
<1> QED BY <1>1, <1>2 DEF Front, Entered

\* One round less to come.
LEMMA Times ==
    ASSUME NEW p \in Int, NEW k \in Nat
    PROVE  /\ p * k \in Int /\ (p - 1) * k + k = p * k
           /\ p >= 0 => p * k >= 0
           /\ p = 0 => p * k = 0 BY SMT

\* The number of tasks of a taskflow, and of those due in a run of it.
LEMMA Sizes ==
    ASSUME TypeOK, NEW r \in Run, flowOf[r] \in Flow
    PROVE  Size(r) \in Nat /\ Due(r) \in Nat /\ tpg[r].pred * Size(r) \in Int
<1>1. Size(r) \in Nat /\ repeat[r] \in Nat /\ tpg[r].pred \in Int BY Types DEF Size
<1> QED BY <1>1, Times DEF Due

-----------------------------------------------------------------------------
(* Threads and runs.                                                         *)

\* A step keeps what a thread knows when it leaves its run as it is.
LEMMA PlaceKept ==
    ASSUME NEW a \in Actor, NEW r \in Run, PlaceOK(a, r), pc'[a] = pc[a], tpg'[r] = tpg[r],
           flowOf'[r] = flowOf[r], repeat'[r] = repeat[r], Entered(r)' <=> Entered(r),
           Queued(r)' <=> Queued(r), Front(r)' <=> Front(r),
           Front(r) /\ Len(queue[flowOf[r]]) > 1 => Len(queue[flowOf[r]])' > 1
    PROVE  PlaceOK(a, r)'
<1>1. Size(r)' = Size(r) /\ Due(r)' = Due(r) /\ (Complete(r)' <=> Complete(r))
      /\ (Budget(r, 0)' <=> Budget(r, 0)) BY DEF Size, Due, Complete, Budget
<1>2. Budget(r, Size(r))' <=> Budget(r, Size(r)) BY <1>1 DEF Budget, Size, Due
<1>3. EntryOK(a, r) => EntryOK(a, r)' BY <1>1, <1>2 DEF EntryOK
<1>4. LeadOK(a, r) => LeadOK(a, r)' BY <1>1, <1>2 DEF LeadOK, Leading
<1> QED BY <1>3, <1>4 DEF PlaceOK

\* A step keeps what is said of a run when it leaves the run and its threads as they are.
LEMMA RunKept ==
    ASSUME NEW r \in Run, RunOK(r), tpg'[r] = tpg[r],
           flowOf'[r] = flowOf[r], repeat'[r] = repeat[r], Entered(r)' <=> Entered(r),
           Queued(r)' <=> Queued(r), Front(r)' <=> Front(r),
           \A a \in Actor : (cur'[a] = r <=> cur[a] = r) /\ (cur[a] = r => pc'[a] = pc[a])
    PROVE  RunOK(r)'
<1>1. Size(r)' = Size(r) /\ Due(r)' = Due(r) /\ (Complete(r)' <=> Complete(r))
  BY DEF Size, Due, Complete
<1>2. \A x \in Client \cup Worker : x \in Actor BY DEF Actor
<1>3. Busy(r)' = Busy(r) /\ Invoking(r)' = Invoking(r) BY <1>2 DEF Busy, Invoking
<1>4. Budget(r, Size(r))' <=> Budget(r, Size(r)) BY <1>1 DEF Budget, Size, Due
<1>5. Budget(r, tpg[r].ready + Cardinality(Invoking(r)))' <=> Budget(r, tpg[r].ready + Cardinality(Invoking(r)))
  BY <1>1, <1>3 DEF Budget, Size, Due
<1>6. Fresh(r)' BY <1>2 DEF RunOK, Fresh
<1>7. Waiting(r)' BY <1>4 DEF RunOK, Waiting
<1>8. InFront(r)' BY <1>2, <1>3, <1>5 DEF RunOK, InFront
<1>9. Over(r)' BY <1>2 DEF RunOK, Over
<1>10. PromiseTrue(r) => PromiseTrue(r)' BY <1>1 DEF PromiseTrue
<1> QED BY <1>6, <1>7, <1>8, <1>9, <1>10 DEF RunOK

\* Which runs and workers are counted is read off the queues and the places of threads.
LEMMA CountedKept ==
    ASSUME \A r \in Run : Queued(r)' <=> Queued(r),
           \A c \in Client, r \in Run : cur'[c] = r /\ pc'[c] \in Entry \ {"count"} <=>
                                        cur[c] = r /\ pc[c] \in Entry \ {"count"},
           \A w \in Worker : pc'[w] \in {"decrementNext", "unlockLast", "promiseLast", "decrementLast"} <=>
                             pc[w] \in {"decrementNext", "unlockLast", "promiseLast", "decrementLast"},
           topologies' = topologies, TopologiesOK
    PROVE  TopologiesOK'
<1>1. CountedRuns' = CountedRuns BY DEF CountedRuns
<1>2. CountedWorkers' = CountedWorkers BY DEF CountedWorkers
<1> QED BY <1>1, <1>2 DEF TopologiesOK

-----------------------------------------------------------------------------
(* What a step leaves alone.                                                 *)

\* The sets of places have nothing in common.
LEMMA PlacesApart ==
    /\ \A x \in Entry : x \notin Charge /\ x \notin Round /\ x \notin {"unlock", "idle", "waitForAll"}
    /\ \A x \in Charge : x \notin Round /\ x \notin {"unlock", "idle", "waitForAll"}
    /\ \A x \in Round : x \notin {"unlock", "idle", "waitForAll"}
    /\ \A x \in Leading : x \notin Last
    /\ \A x \in ClientPC \cup WorkerPC :
         x \in Entry \cup Charge \cup Round \/ x \in {"unlock", "idle", "waitForAll"}
    /\ \A x \in Locking : x \notin Entry /\ x \notin Round /\ x \notin {"idle", "waitForAll"}
    /\ \A x \in ClientPC : x \notin Round /\ (x \in Charge => x = "setUp")
    /\ \A x \in WorkerPC : x \notin Entry
BY DEF Entry, Charge, Leading, Last, Round, Locking, ClientPC, WorkerPC

\* The queues stay as they are.
LEMMA QueuesKept ==
    ASSUME queue' = queue, submitted' = submitted, flowOf' = flowOf
    PROVE  /\ \A r : /\ Entered(r)' <=> Entered(r)
                     /\ Queued(r)' <=> Queued(r)
                     /\ Front(r)' <=> Front(r)
                     /\ Len(queue[flowOf[r]])' = Len(queue[flowOf[r]])
           /\ Queues => Queues'
<1>1. \A r : /\ Entered(r)' <=> Entered(r)
             /\ Queued(r)' <=> Queued(r)
             /\ Front(r)' <=> Front(r)
             /\ Len(queue[flowOf[r]])' = Len(queue[flowOf[r]]) BY DEF Entered, Queued, Front, In
<1>2. Queues => Queues' BY DEF Queues, QueueOK
<1> QED BY <1>1, <1>2

\* A step of one thread, for one run, has to keep only what is said of them.
LEMMA LocalStep ==
    ASSUME IInv, TypeOK', NEW a \in Actor, NEW r \in Run,
           cur[a] \in {r, Nobody}, cur'[a] \in {r, Nobody},
           \A b \in Actor \ {a} : pc'[b] = pc[b] /\ cur'[b] = cur[b],
           \A q \in Run \ {r} : /\ tpg'[q] = tpg[q] /\ flowOf'[q] = flowOf[q] /\ repeat'[q] = repeat[q]
                                /\ Entered(q)' <=> Entered(q)
                                /\ Queued(q)' <=> Queued(q)
                                /\ Front(q)' <=> Front(q)
                                /\ Front(q) /\ Len(queue[flowOf[q]]) > 1 => Len(queue[flowOf[q]])' > 1,
           ThreadOK(a)',
           cur'[a] = r => PlaceOK(a, r)',
           \A b \in Actor \ {a} : cur[b] = r => PlaceOK(b, r)',
           cur'[a] = r /\ pc'[a] \in Entry \cup Charge =>
               \A b \in Actor \ {a} : cur[b] = r => pc[b] \notin Entry \cup Charge,
           RunOK(r)'
    PROVE  Threads' /\ Places' /\ Alones' /\ Runs'
<1>1. TypeOK /\ Threads /\ Places /\ Alones /\ Runs BY DEF IInv
<1>2. Threads'
  <2>1. ASSUME NEW b \in Actor \ {a} PROVE ThreadOK(b)'
    <3>1. ThreadOK(b) BY <1>1 DEF Threads
    <3> QED BY <3>1 DEF ThreadOK
  <2> QED BY <2>1 DEF Threads
<1>3. \A q \in Run : q # r => cur[a] # q /\ cur'[a] # q BY <1>1, Types
<1>4. Places'
  <2>1. ASSUME NEW b \in Actor, NEW q \in Run, cur'[b] = q PROVE PlaceOK(b, q)'
    <3>1. CASE q = r BY <2>1, <3>1
    <3>2. CASE q # r
      <4>1. b # a /\ cur[b] = q /\ pc'[b] = pc[b] BY <1>3, <2>1, <3>2
      <4>2. PlaceOK(b, q) BY <1>1, <4>1 DEF Places
      <4> QED BY <3>2, <4>1, <4>2, PlaceKept
    <3> QED BY <3>1, <3>2
  <2> QED BY <2>1 DEF Places
<1>5. Alones'
  <2>1. ASSUME NEW b \in Actor, NEW d \in Actor, NEW q \in Run PROVE Alone(b, d, q)'
    <3>1. Alone(b, d, q) /\ Alone(d, b, q) BY <1>1 DEF Alones
    <3>2. CASE b # a /\ d # a BY <3>1, <3>2 DEF Alone
    <3>3. CASE b = a /\ d # a BY <1>3, <3>1, <3>3 DEF Alone
    <3>4. CASE b # a /\ d = a BY <1>3, <3>1, <3>4 DEF Alone
    <3> QED BY <3>2, <3>3, <3>4 DEF Alone
  <2> QED BY <2>1 DEF Alones
<1>6. Runs'
  <2>1. ASSUME NEW q \in Run, q # r PROVE RunOK(q)'
    <3>1. RunOK(q) BY <1>1 DEF Runs
    <3>2. \A b \in Actor : (cur'[b] = q <=> cur[b] = q) /\ (cur[b] = q => pc'[b] = pc[b])
      BY <1>3, <2>1
    <3> QED BY <2>1, <3>1, <3>2, RunKept
  <2> QED BY <2>1 DEF Runs
<1> QED BY <1>2, <1>4, <1>5, <1>6

\* A lock is taken when it is free, and given up by its owner.
LEMMA MutexKept ==
    ASSUME IInv, NEW a \in Actor, NEW r \in Run, flowOf[r] \in Flow, flowOf' = flowOf,
           \A b \in Actor \ {a} : pc'[b] = pc[b] /\ cur'[b] = cur[b],
           cur'[a] \in {r, Nobody},
           \A g \in Flow : mutex'[g] # mutex[g] => g = flowOf[r] /\ mutex[g] \in {Nobody, a},
           cur'[a] = r /\ pc'[a] \in Locking => mutex'[flowOf[r]] = a
    PROVE  Mutexes'
<1>1. ASSUME NEW b \in Actor, NEW q \in Run, cur'[b] = q, pc'[b] \in Locking
      PROVE  mutex'[flowOf[q]] = b
  <2>1. CASE b = a BY <1>1, <2>1, Types DEF IInv
  <2>2. CASE b # a
    <3>1. cur[b] = q /\ mutex[flowOf[q]] = b /\ flowOf[q] \in Flow
      BY <1>1, <2>2 DEF IInv, Mutexes, Places, PlaceOK
    <3>2. b # Nobody BY Types DEF IInv
    <3> QED BY <2>2, <3>1, <3>2
  <2> QED BY <2>1, <2>2
<1>2. Locking' = Locking BY DEF Locking
<1> QED BY <1>1 DEF Mutexes

\* Taskflows are not destroyed or moved by most steps.
LEMMA FlowsKept ==
    ASSUME Flows, flowOf' = flowOf, destroyed' = destroyed, owned' = owned,
           \A c \in Client, q \in Run : cur'[c] = q => cur[c] = q,
           \A q \in Run : tpg[q].promise # "pending" => tpg'[q].promise # "pending"
    PROVE  Flows'
<1>1. ASSUME NEW f \in Flow PROVE FlowOK(f)'
  <2>1. FlowOK(f) BY DEF Flows
  <2> QED BY <2>1 DEF FlowOK
<1> QED BY <1>1 DEF Flows

-----------------------------------------------------------------------------
(* Who else works for a run.                                                 *)

\* The tasks of a run that workers are at are counted.
LEMMA BusyFacts ==
    ASSUME IInv, NEW r \in Run
    PROVE  /\ \A w \in Busy(r) : tpg[r].joinCounter > 0
           /\ Front(r) => /\ IsFiniteSet(Busy(r)) /\ Cardinality(Busy(r)) \in Nat
                          /\ tpg[r].ready + Cardinality(Busy(r)) = tpg[r].joinCounter
           /\ IsFiniteSet(Busy(r)) => /\ IsFiniteSet(Invoking(r)) /\ Cardinality(Invoking(r)) \in Nat
           /\ Invoking(r) \subseteq Busy(r)
           /\ tpg[r].joinCounter = 0 => Busy(r) = {} /\ Invoking(r) = {} /\ tpg[r].ready = 0
           /\ tpg[r].joinCounter > 0 => Front(r)
           /\ tpg[r].ready > 0 => Front(r) /\ tpg[r].joinCounter > 0
<1>1. TypeOK /\ RunOK(r) /\ Queues BY DEF IInv, Runs
<1>2. tpg[r].ready \in Nat /\ tpg[r].joinCounter \in Nat BY <1>1, Types
<1>3. Invoking(r) \subseteq Busy(r) BY DEF Invoking, Busy, Round
<1>4. ASSUME NEW w \in Busy(r) PROVE Front(r) BY DEF IInv, Places, PlaceOK, Busy, Actor
<1>5. ~Front(r) => tpg[r].ready = 0 /\ tpg[r].joinCounter = 0 /\ Busy(r) = {}
  BY <1>1, <1>4, QueueFacts DEF RunOK, Fresh, Waiting, Over, Clean
<1>6. Front(r) => /\ IsFiniteSet(Busy(r)) /\ Cardinality(Busy(r)) \in Nat
                  /\ tpg[r].ready + Cardinality(Busy(r)) = tpg[r].joinCounter
  BY <1>1, FS_CardinalityType DEF RunOK, InFront
<1>7. IsFiniteSet(Busy(r)) => IsFiniteSet(Invoking(r)) /\ Cardinality(Invoking(r)) \in Nat
  BY <1>3, FS_Subset, FS_CardinalityType
<1>8. Front(r) => (Busy(r) = {} <=> Cardinality(Busy(r)) = 0) BY <1>6, FS_EmptySet
<1>9. ASSUME NEW w \in Busy(r) PROVE tpg[r].joinCounter > 0 BY <1>2, <1>4, <1>6, <1>8
<1>10. tpg[r].joinCounter = 0 => Busy(r) = {} /\ Invoking(r) = {} /\ tpg[r].ready = 0
  BY <1>2, <1>3, <1>5, <1>6, <1>8
<1>11. tpg[r].joinCounter > 0 => Front(r) BY <1>5
<1>12. tpg[r].ready > 0 => Front(r) /\ tpg[r].joinCounter > 0 BY <1>2, <1>5, <1>6
<1> QED BY <1>3, <1>6, <1>7, <1>9, <1>10, <1>11, <1>12

\* Beside the thread in charge there is at most one that is about to give up the lock.
LEMMA Companions ==
    ASSUME IInv, NEW a \in Actor, NEW r \in Run, cur[a] = r, pc[a] \in Entry \cup Charge
    PROVE  /\ tpg[r].joinCounter = 0 /\ Busy(r) = {} /\ Invoking(r) = {} /\ tpg[r].ready = 0
           /\ \A b \in Actor \ {a} : cur[b] = r =>
                /\ pc[b] = "unlock" /\ Queued(r) /\ pc[a] \in Leading
                /\ pc[a] \notin Locking
<1>1. PlaceOK(a, r) BY DEF IInv, Places
<1>2. tpg[r].joinCounter = 0 BY <1>1 DEF PlaceOK, EntryOK, LeadOK, Clean
<1>3. Busy(r) = {} /\ Invoking(r) = {} /\ tpg[r].ready = 0 BY <1>2, BusyFacts
<1>4. ASSUME NEW b \in Actor \ {a}, cur[b] = r
      PROVE  pc[b] = "unlock" /\ Queued(r) /\ pc[a] \in Leading /\ pc[a] \notin Locking
  <2>1. PlaceOK(b, r) /\ Alone(a, b, r) /\ ThreadOK(b) /\ pc[b] \in ClientPC \cup WorkerPC
    BY <1>4, Types DEF IInv, Places, Alones, Threads
  <2>2. pc[b] \notin Entry \cup Charge BY <1>4, <2>1 DEF Alone
  <2>3. pc[b] \notin Round
    <3> SUFFICES ASSUME pc[b] \in Round PROVE FALSE OBVIOUS
    <3>1. b \in Worker BY <2>1, PlacesApart DEF ThreadOK, Actor
    <3>2. b \in Busy(r) BY <1>4, <3>1 DEF Busy
    <3> QED BY <1>3, <3>2
  <2>4. pc[b] = "unlock" BY <1>4, <2>1, <2>2, <2>3, PlacesApart, Types DEF ThreadOK, IInv
  <2>5. Queued(r) /\ Entered(r) BY <2>1, <2>4, QueueFacts DEF PlaceOK, IInv
  <2>6. pc[a] \in Leading BY <1>1, <2>5, PlacesApart DEF PlaceOK, EntryOK, LeadOK, Charge
  <2>7. pc[a] \notin Locking
    <3>1. "unlock" \in Locking BY DEF Locking
    <3> QED BY <1>4, <2>4, <3>1 DEF IInv, Mutexes
  <2> QED BY <2>4, <2>5, <2>6, <2>7
<1> QED BY <1>2, <1>3, <1>4

\* While tasks of a run are executed, nobody is in charge of it.
LEMMA RoundCompanions ==
    ASSUME IInv, NEW r \in Run, tpg[r].joinCounter > 0
    PROVE  /\ Front(r) /\ Queued(r) /\ Entered(r) /\ flowOf[r] \in Flow
           /\ \A b \in Actor : cur[b] = r => pc[b] \in Round \cup {"unlock"}
<1>1. Front(r) /\ Queued(r) /\ Entered(r) /\ flowOf[r] \in Flow
  BY BusyFacts, QueueFacts DEF IInv, Front
<1>2. ASSUME NEW b \in Actor, cur[b] = r PROVE pc[b] \in Round \cup {"unlock"}
  <2>1. ThreadOK(b) /\ pc[b] \in ClientPC \cup WorkerPC BY Types DEF IInv, Threads
  <2>2. pc[b] \notin Entry \cup Charge BY <1>2, Companions
  <2> QED BY <1>2, <2>1, <2>2, PlacesApart, Types DEF ThreadOK, IInv
<1> QED BY <1>1, <1>2

\* The companions notice little.
LEMMA CompanionKept ==
    ASSUME NEW b \in Actor, NEW r \in Run, PlaceOK(b, r), pc[b] \in Round \cup {"unlock"},
           pc'[b] = pc[b], flowOf' = flowOf,
           Front(r) => Front(r)', Queued(r) => Queued(r)',
           tpg[r].raised => tpg'[r].raised
    PROVE  PlaceOK(b, r)'
<1>1. pc[b] \notin Entry /\ pc[b] \notin Charge BY PlacesApart DEF Round
<1>2. /\ flowOf'[r] \in Flow
      /\ pc'[b] \notin Entry /\ pc'[b] \notin Charge
      /\ pc'[b] \in Round => Front(r)'
      /\ pc'[b] = "store" => tpg'[r].raised
      /\ pc'[b] = "unlock" => Queued(r)' BY <1>1 DEF PlaceOK
<1> QED BY <1>2 DEF PlaceOK, Entry, Charge, Leading, Last, Round

\* A thread outside of run_until and of the worker's loop works for a run.
LEMMA Working ==
    ASSUME IInv, NEW a \in Actor, pc[a] \notin {"idle", "waitForAll"}
    PROVE  \E r \in Run : /\ cur[a] = r /\ PlaceOK(a, r) /\ RunOK(r) /\ flowOf[r] \in Flow
                          /\ a \in Client => pc[a] \in ClientPC
                          /\ a \in Worker => pc[a] \in WorkerPC
<1>1. ThreadOK(a) /\ cur[a] \in Run \cup {Nobody} BY Types DEF IInv, Threads
<1>2. PICK r \in Run : cur[a] = r BY <1>1 DEF ThreadOK
<1>3. PlaceOK(a, r) /\ RunOK(r) BY <1>2 DEF IInv, Places, Runs
<1> QED BY <1>1, <1>2, <1>3 DEF PlaceOK, ThreadOK

\* The others, and their runs, are left alone.
Acts(a, r) ==
    /\ cur[a] \in {r, Nobody} /\ cur'[a] \in {r, Nobody}
    /\ \A b \in Actor \ {a} : pc'[b] = pc[b] /\ cur'[b] = cur[b]
    /\ \A q \in Run \ {r} : tpg'[q] = tpg[q]

\* A condition, counted.
Is(p) == IF p THEN 1 ELSE 0

\* Sets that differ in one element at most.
LEMMA OneMember ==
    ASSUME NEW S, NEW T, IsFiniteSet(S), NEW w, \A v : v # w => (v \in S <=> v \in T)
    PROVE  IsFiniteSet(T) /\ Cardinality(T) + Is(w \in S) = Cardinality(S) + Is(w \in T)
           /\ Cardinality(S) \in Nat /\ Cardinality(T) \in Nat
<1>1. Cardinality(S) \in Nat BY FS_CardinalityType
<1>2. CASE w \in S <=> w \in T
  <2>1. S = T BY <1>2
  <2> QED BY <1>1, <1>2, <2>1 DEF Is
<1>3. CASE w \in S /\ w \notin T
  <2>1. T = S \ {w} BY <1>3
  <2>2. IsFiniteSet(T) /\ Cardinality(T) = Cardinality(S) - 1 BY <1>3, <2>1, FS_RemoveElement
  <2>3. Cardinality(T) \in Nat BY <2>2, FS_CardinalityType
  <2> QED BY <1>1, <1>3, <2>2, <2>3 DEF Is
<1>4. CASE w \notin S /\ w \in T
  <2>1. T = S \cup {w} BY <1>4
  <2>2. IsFiniteSet(T) /\ Cardinality(T) = Cardinality(S) + 1 BY <1>4, <2>1, FS_AddElement
  <2> QED BY <1>1, <1>4, <2>2 DEF Is
<1> QED BY <1>2, <1>3, <1>4

\* So the tasks that workers are at change by one at most.
LEMMA BusyStep ==
    ASSUME TypeOK, NEW w \in Worker, NEW r \in Run, Acts(w, r), IsFiniteSet(Busy(r))
    PROVE  /\ IsFiniteSet(Busy(r))' /\ Cardinality(Busy(r))' \in Nat
           /\ Cardinality(Invoking(r)) \in Nat /\ Cardinality(Invoking(r))' \in Nat
           /\ Cardinality(Busy(r))' = Cardinality(Busy(r))
                 - Is(cur[w] = r /\ pc[w] \in Round) + Is(cur'[w] = r /\ pc'[w] \in Round)
           /\ Cardinality(Invoking(r))' = Cardinality(Invoking(r))
                 - Is(cur[w] = r /\ pc[w] = "invoke") + Is(cur'[w] = r /\ pc'[w] = "invoke")
<1>1. \A v \in Worker \ {w} : pc'[v] = pc[v] /\ cur'[v] = cur[v] BY DEF Acts, Actor
<1>2. \A v : v # w => (v \in Busy(r) <=> v \in Busy(r)') BY <1>1 DEF Busy
<1>3. \A v : v # w => (v \in Invoking(r) <=> v \in Invoking(r)') BY <1>1 DEF Invoking
<1>4. IsFiniteSet(Invoking(r))
  <2>1. Invoking(r) \subseteq Busy(r) BY DEF Invoking, Busy, Round
  <2> QED BY <2>1, FS_Subset
<1>5. /\ w \in Busy(r) <=> cur[w] = r /\ pc[w] \in Round
      /\ w \in Busy(r)' <=> cur'[w] = r /\ pc'[w] \in Round
      /\ w \in Invoking(r) <=> cur[w] = r /\ pc[w] = "invoke"
      /\ w \in Invoking(r)' <=> cur'[w] = r /\ pc'[w] = "invoke" BY DEF Busy, Invoking, Round
<1>6. PICK S, T : S = Busy(r) /\ T = Busy(r)' OBVIOUS
<1>7. IsFiniteSet(T) /\ Cardinality(T) + Is(w \in S) = Cardinality(S) + Is(w \in T)
      /\ Cardinality(S) \in Nat /\ Cardinality(T) \in Nat BY <1>2, <1>6, OneMember
<1>8. PICK U, V : U = Invoking(r) /\ V = Invoking(r)' OBVIOUS
<1>9. IsFiniteSet(V) /\ Cardinality(V) + Is(w \in U) = Cardinality(U) + Is(w \in V)
      /\ Cardinality(U) \in Nat /\ Cardinality(V) \in Nat BY <1>3, <1>4, <1>8, OneMember
<1> QED BY <1>5, <1>6, <1>7, <1>8, <1>9 DEF Is

\* What is left to do becomes what was done, or is given up when the run is cancelled.
LEMMA BudgetKept ==
    ASSUME TypeOK, NEW r \in Run, flowOf[r] \in Flow, flowOf' = flowOf, repeat' = repeat,
           tpg'[r].pred = tpg[r].pred, tpg'[r].ran \in Nat, NEW k \in Nat, NEW j \in Nat, Budget(r, k),
           tpg'[r].ran + j <= tpg[r].ran + k,
           ~tpg'[r].cancelled => ~tpg[r].cancelled /\ tpg'[r].ran + j = tpg[r].ran + k
    PROVE  Budget(r, j)'
<1>1. PICK s \in Nat, d \in Nat, p \in Int : s = Size(r) /\ d = Due(r) /\ p = tpg[r].pred * s
  BY Sizes
<1>2. s = Size(r)' /\ d = Due(r)' /\ p = tpg'[r].pred * s BY <1>1 DEF Size, Due
<1>3. tpg[r].ran \in Nat BY Types
<1> QED BY <1>1, <1>2, <1>3 DEF Budget

\* The state of a topology.
Topology == [ready: Nat, joinCounter: Nat, cancelled: BOOLEAN, raised: BOOLEAN, exception: BOOLEAN,
             pred: Int, calls: Nat, ran: Nat, alive: BOOLEAN,
             promise: {"pending", "value", "exception"}]

\* The types are kept by a step of one thread for one run.
LEMMA TypeStep ==
    ASSUME TypeOK, NEW a \in Actor, NEW r \in Run,
           NEW l \in ClientPC \cup WorkerPC, pc' = [pc EXCEPT ![a] = l],
           NEW v \in Run \cup {Nobody}, cur' = [cur EXCEPT ![a] = v],
           NEW t \in Topology, tpg' = [tpg EXCEPT ![r] = t],
           queue' \in [Flow -> Seq(Run)], mutex' \in [Flow -> Actor \cup {Nobody}],
           topologies' \in Nat, sleeping' \in SUBSET Client,
           UNCHANGED <<owned, destroyed, flowOf, repeat>>, submitted' \in [Flow -> Seq(Run)]
    PROVE  /\ TypeOK' /\ pc'[a] = l /\ cur'[a] = v /\ tpg'[r] = t
           /\ cur[a] \in {r, Nobody} /\ v \in {r, Nobody} => Acts(a, r)
<1>1. tpg \in [Run -> Topology] /\ pc \in [Actor -> ClientPC \cup WorkerPC] /\ cur \in [Actor -> Run \cup {Nobody}]
  BY DEF TypeOK, Topology
<1>2. tpg' \in [Run -> Topology] /\ pc' \in [Actor -> ClientPC \cup WorkerPC] /\ cur' \in [Actor -> Run \cup {Nobody}]
  BY <1>1
<1>3. TypeOK' BY <1>2 DEF TypeOK, Topology
<1>4. pc'[a] = l /\ cur'[a] = v /\ tpg'[r] = t BY <1>1
<1> QED BY <1>1, <1>3, <1>4 DEF Acts

\* ... also when the queues and the counters stay as they are.
LEMMA TypeQuiet ==
    ASSUME TypeOK, NEW a \in Actor, NEW r \in Run,
           NEW l \in ClientPC \cup WorkerPC, pc' = [pc EXCEPT ![a] = l],
           NEW v \in Run \cup {Nobody}, cur' = [cur EXCEPT ![a] = v],
           NEW t \in Topology, tpg' = [tpg EXCEPT ![r] = t],
           mutex' \in [Flow -> Actor \cup {Nobody}],
           UNCHANGED <<queue, owned, destroyed, topologies, sleeping, graphVars>>,
           cur[a] \in {r, Nobody}, v \in {r, Nobody}
    PROVE  TypeOK' /\ pc'[a] = l /\ cur'[a] = v /\ tpg'[r] = t /\ Acts(a, r)
<1>1. tpg \in [Run -> Topology] /\ pc \in [Actor -> ClientPC \cup WorkerPC] /\ cur \in [Actor -> Run \cup {Nobody}]
  BY DEF TypeOK, Topology
<1>2. tpg' \in [Run -> Topology] /\ pc' \in [Actor -> ClientPC \cup WorkerPC] /\ cur' \in [Actor -> Run \cup {Nobody}]
  BY <1>1
<1>3. TypeOK' BY <1>2 DEF TypeOK, Topology, graphVars
<1>4. pc'[a] = l /\ cur'[a] = v /\ tpg'[r] = t BY <1>1
<1> QED BY <1>1, <1>3, <1>4 DEF Acts

\* The types of the parts of a topology.
LEMMA TopologyFields ==
    ASSUME NEW t \in Topology
    PROVE  /\ t.ready \in Nat /\ t.joinCounter \in Nat /\ t.pred \in Int /\ t.calls \in Nat
           /\ t.ran \in Nat /\ t.cancelled \in BOOLEAN /\ t.raised \in BOOLEAN
           /\ t.exception \in BOOLEAN /\ t.alive \in BOOLEAN
           /\ t.promise \in {"pending", "value", "exception"} BY DEF Topology

\* Nobody is at a task of a run that a thread is in charge of.
LEMMA ChargeRun ==
    ASSUME IInv, NEW a \in Actor, NEW r \in Run, cur[a] = r, pc[a] \in Entry \cup Charge, Acts(a, r),
           pc'[a] \notin Round
    PROVE  /\ Busy(r)' = {} /\ IsFiniteSet(Busy(r))' /\ Cardinality(Busy(r))' = 0
           /\ Invoking(r)' = {} /\ Cardinality(Invoking(r))' = 0
<1>1. Busy(r) = {} BY Companions
<1>2. \A w \in Worker : w \in Actor BY DEF Actor
<1>3. \A w \in Worker : ~(cur'[w] = r /\ pc'[w] \in Round) BY <1>1, <1>2 DEF Busy, Acts
<1>4. Busy(r)' = {} /\ Invoking(r)' = {} BY <1>3 DEF Busy, Invoking, Round
<1> QED BY <1>4, FS_EmptySet

\* A step of one thread for one run that leaves the queues and the taskflows as they are:
\* what is left to show is how many runs there are.
LEMMA LocalRest ==
    ASSUME IInv, TypeOK', NEW a \in Actor, NEW r \in Run, Acts(a, r), flowOf[r] \in Flow,
           UNCHANGED <<queue, owned, destroyed, graphVars>>,
           ThreadOK(a)',
           cur'[a] = r => PlaceOK(a, r)',
           \A b \in Actor \ {a} : cur[b] = r => PlaceOK(b, r)',
           cur'[a] = r /\ pc'[a] \in Entry \cup Charge =>
               \A b \in Actor \ {a} : cur[b] = r => pc[b] \notin Entry \cup Charge,
           RunOK(r)',
           \A g \in Flow : mutex'[g] # mutex[g] => g = flowOf[r] /\ mutex[g] \in {Nobody, a},
           cur'[a] = r /\ pc'[a] \in Locking => mutex'[flowOf[r]] = a,
           a \in Client /\ cur'[a] = r => cur[a] = r,
           tpg[r].promise # "pending" => tpg'[r].promise # "pending"
    PROVE  TopologiesOK' => IInv'
<1>1. flowOf' = flowOf /\ repeat' = repeat /\ submitted' = submitted /\ queue' = queue
      /\ owned' = owned /\ destroyed' = destroyed BY DEF graphVars
<1>2. /\ \A q : /\ Entered(q)' <=> Entered(q)
                /\ Queued(q)' <=> Queued(q)
                /\ Front(q)' <=> Front(q)
                /\ Len(queue[flowOf[q]])' = Len(queue[flowOf[q]])
      /\ Queues' BY <1>1, QueuesKept DEF IInv
<1>3. Threads' /\ Places' /\ Alones' /\ Runs'
  <2>1. /\ cur[a] \in {r, Nobody} /\ cur'[a] \in {r, Nobody}
        /\ \A b \in Actor \ {a} : pc'[b] = pc[b] /\ cur'[b] = cur[b]
        /\ \A q \in Run \ {r} : tpg'[q] = tpg[q] BY DEF Acts
  <2> QED BY <1>1, <1>2, <2>1, LocalStep
<1>4. Mutexes' BY <1>1, MutexKept DEF Acts
<1>5. Flows'
  <2>1. \A c \in Client, q \in Run : cur'[c] = q => cur[c] = q BY Types DEF Acts, IInv
  <2>2. \A q \in Run : tpg[q].promise # "pending" => tpg'[q].promise # "pending" BY DEF Acts
  <2> QED BY <1>1, <2>1, <2>2, FlowsKept DEF IInv
<1> QED BY <1>2, <1>3, <1>4, <1>5 DEF IInv

\* It leaves the number of runs as it is when it counts for as much as before.
LEMMA LocalCounts ==
    ASSUME IInv, NEW a \in Actor, NEW r \in Run, Acts(a, r),
           \A q \in Run : Queued(q)' <=> Queued(q), topologies' = topologies,
           a \in Client => (cur'[a] = r /\ pc'[a] \in Entry \ {"count"} <=>
                            cur[a] = r /\ pc[a] \in Entry \ {"count"}),
           a \in Worker => (pc'[a] \in {"decrementNext", "unlockLast", "promiseLast", "decrementLast"} <=>
                            pc[a] \in {"decrementNext", "unlockLast", "promiseLast", "decrementLast"})
    PROVE  TopologiesOK'
<1>1. Nobody \notin Run /\ \A x \in Client \cup Worker : x \in Actor BY Types DEF IInv, Actor
<1>2. \A c \in Client, q \in Run : cur'[c] = q /\ pc'[c] \in Entry \ {"count"} <=>
                                   cur[c] = q /\ pc[c] \in Entry \ {"count"} BY <1>1 DEF Acts
<1>3. \A w \in Worker : pc'[w] \in {"decrementNext", "unlockLast", "promiseLast", "decrementLast"} <=>
                        pc[w] \in {"decrementNext", "unlockLast", "promiseLast", "decrementLast"}
  BY <1>1 DEF Acts
<1> QED BY <1>2, <1>3, CountedKept DEF IInv

\* A step of one thread for one run that leaves the queues, the taskflows and the counter
\* of runs as they are.
LEMMA LocalInvariant ==
    ASSUME IInv, TypeOK', NEW a \in Actor, NEW r \in Run, Acts(a, r), flowOf[r] \in Flow,
           UNCHANGED <<queue, owned, destroyed, topologies, graphVars>>,
           ThreadOK(a)',
           cur'[a] = r => PlaceOK(a, r)',
           \A b \in Actor \ {a} : cur[b] = r => PlaceOK(b, r)',
           cur'[a] = r /\ pc'[a] \in Entry \cup Charge =>
               \A b \in Actor \ {a} : cur[b] = r => pc[b] \notin Entry \cup Charge,
           RunOK(r)',
           \A g \in Flow : mutex'[g] # mutex[g] => g = flowOf[r] /\ mutex[g] \in {Nobody, a},
           cur'[a] = r /\ pc'[a] \in Locking => mutex'[flowOf[r]] = a,
           a \in Client /\ cur'[a] = r => cur[a] = r,
           tpg[r].promise # "pending" => tpg'[r].promise # "pending",
           a \in Client => (cur'[a] = r /\ pc'[a] \in Entry \ {"count"} <=>
                            cur[a] = r /\ pc[a] \in Entry \ {"count"}),
           a \in Worker => (pc'[a] \in {"decrementNext", "unlockLast", "promiseLast", "decrementLast"} <=>
                            pc[a] \in {"decrementNext", "unlockLast", "promiseLast", "decrementLast"})
    PROVE  IInv'
<1>1. /\ UNCHANGED <<queue, owned, destroyed, graphVars>>
      /\ flowOf' = flowOf /\ submitted' = submitted /\ queue' = queue /\ topologies' = topologies
  BY DEF graphVars
<1>2. \A q : Queued(q)' <=> Queued(q) BY <1>1, QueuesKept
<1>3. TopologiesOK' BY <1>1, <1>2, LocalCounts
<1> QED BY <1>1, <1>3, LocalRest

-----------------------------------------------------------------------------
(* A round of a run.                                                         *)

\* What a step does not do now it leaves to be done.
LEMMA Balance ==
    ASSUME NEW m \in Nat, NEW n \in Nat, NEW x \in Nat, NEW y \in Nat, n = m - x + y,
           NEW i \in Nat, NEW j \in Nat, NEW u \in Nat, NEW v \in Nat
    PROVE  /\ v + j + y <= u + i + x => v + (j + n) <= u + (i + m)
           /\ v + j + y = u + i + x => v + (j + n) = u + (i + m)
OBVIOUS

\* The invariant is kept by a step of a worker at the tasks of a round.
LEMMA RoundStep ==
    ASSUME IInv, TypeOK', NEW w \in Worker, NEW r \in Run, Acts(w, r),
           UNCHANGED <<queue, mutex, owned, destroyed, topologies, graphVars>>,
           NEW s \in Topology, s = tpg[r], NEW t \in Topology, t = tpg'[r],
           NEW l \in Round \cup {"idle"}, l = pc'[w], cur'[w] = IF l = "idle" THEN Nobody ELSE r,
           IF pc[w] = "idle" THEN cur[w] = Nobody ELSE pc[w] \in Round /\ cur[w] = r,
           s.joinCounter > 0, t.joinCounter > 0,
           t.joinCounter - t.ready + Is(pc[w] # "idle") = s.joinCounter - s.ready + Is(l # "idle"),
           t.pred = s.pred /\ t.calls = s.calls /\ t.promise = s.promise /\ t.alive = s.alive,
           t.ran + t.ready + Is(l = "invoke") <= s.ran + s.ready + Is(pc[w] = "invoke"),
           ~t.cancelled => /\ ~s.cancelled
                           /\ t.ran + t.ready + Is(l = "invoke") = s.ran + s.ready + Is(pc[w] = "invoke"),
           t.exception => t.raised, s.raised => t.raised, l = "store" => t.raised,
           t.raised => t.cancelled,
           t.raised => \/ t.exception \/ l = "store"
                       \/ \E v \in Worker \ {w} : cur[v] = r /\ pc[v] = "store"
    PROVE  IInv'
<1>1. TypeOK /\ w \in Actor /\ w \notin Client /\ Nobody \notin Run BY Types DEF IInv
<1>2. flowOf' = flowOf /\ repeat' = repeat /\ submitted' = submitted /\ queue' = queue
  BY DEF graphVars
<1>3. /\ Front(r) /\ Queued(r) /\ Entered(r) /\ flowOf[r] \in Flow
      /\ \A b \in Actor : cur[b] = r => pc[b] \in Round \cup {"unlock"} BY RoundCompanions
<1>4. Entered(r)' /\ Queued(r)' /\ Front(r)' BY <1>2, <1>3, QueuesKept
<1>5. RunOK(r) BY DEF IInv, Runs
<1>6. /\ IsFiniteSet(Busy(r)) /\ IsFiniteSet(Busy(r))'
      /\ Cardinality(Busy(r)) \in Nat /\ Cardinality(Busy(r))' \in Nat
      /\ Cardinality(Invoking(r)) \in Nat /\ Cardinality(Invoking(r))' \in Nat
      /\ Cardinality(Busy(r))' = Cardinality(Busy(r)) - Is(pc[w] # "idle") + Is(l # "idle")
      /\ Cardinality(Invoking(r))' = Cardinality(Invoking(r)) - Is(pc[w] = "invoke") + Is(l = "invoke")
      /\ s.ready + Cardinality(Busy(r)) = s.joinCounter
  <2>1. IsFiniteSet(Busy(r)) /\ Cardinality(Busy(r)) \in Nat
        /\ s.ready + Cardinality(Busy(r)) = s.joinCounter BY <1>3, BusyFacts
  <2>2. /\ cur[w] = r /\ pc[w] \in Round <=> pc[w] # "idle"
        /\ cur'[w] = r /\ pc'[w] \in Round <=> l # "idle"
        /\ cur[w] = r /\ pc[w] = "invoke" <=> pc[w] = "invoke"
        /\ cur'[w] = r /\ pc'[w] = "invoke" <=> l = "invoke" BY <1>1 DEF Round
  <2> QED BY <1>1, <2>1, <2>2, BusyStep DEF Is
<1>7. InFront(r)'
  <2>1. InFront(r) BY <1>5 DEF RunOK
  <2>2. t.ready + Cardinality(Busy(r))' = t.joinCounter BY <1>6, TopologyFields DEF Is
  <2>3. Budget(r, tpg[r].ready + Cardinality(Invoking(r)))'
    <3>1. PICK k \in Nat, j \in Nat : k = s.ready + Cardinality(Invoking(r))
                                      /\ j = t.ready + Cardinality(Invoking(r))'
      BY <1>6, TopologyFields
    <3>2. Budget(r, k) BY <1>3, <2>1, <3>1 DEF InFront
    <3>5. Is(pc[w] = "invoke") \in Nat /\ Is(l = "invoke") \in Nat BY DEF Is
    <3>6. /\ t.ran + (t.ready + Cardinality(Invoking(r))') <= s.ran + (s.ready + Cardinality(Invoking(r)))
          /\ ~t.cancelled => t.ran + (t.ready + Cardinality(Invoking(r))')
                                 = s.ran + (s.ready + Cardinality(Invoking(r)))
      BY <1>6, <3>5, TopologyFields, Balance
    <3>3. t.ran + j <= s.ran + k /\ (~t.cancelled => ~s.cancelled /\ t.ran + j = s.ran + k)
      BY <3>1, <3>6
    <3>4. Budget(r, j)' BY <1>1, <1>2, <1>3, <3>2, <3>3, BudgetKept, TopologyFields
    <3> QED BY <3>1, <3>4 DEF Budget
  <2>4. \A v \in Worker : v # w => pc'[v] = pc[v] /\ cur'[v] = cur[v] BY DEF Acts, Actor
  <2>5. t.promise = "pending"
    <3>1. ASSUME NEW v \in Worker, cur[v] = r, pc[v] = "popNext" PROVE FALSE
      BY <1>3, <3>1 DEF Round, Actor
    <3> QED BY <1>3, <2>1, <3>1 DEF InFront
  <2>6. t.raised => \/ t.exception
                    \/ \E v \in Worker : cur'[v] = r /\ pc'[v] = "store" BY <2>4
  <2> QED BY <1>3, <1>6, <2>1, <2>2, <2>3, <2>5, <2>6 DEF InFront
<1>8. RunOK(r)'
  <2>1. PromiseTrue(r) => t.promise = "pending" \/ t.promise # "pending" OBVIOUS
  <2>2. t.promise = "pending"
    <3>1. ASSUME NEW v \in Worker, cur[v] = r, pc[v] = "popNext" PROVE FALSE
      BY <1>3, <3>1 DEF Round, Actor
    <3> QED BY <1>3, <1>5, <3>1 DEF InFront, RunOK
  <2> QED BY <1>3, <1>4, <1>5, <1>7, <2>2 DEF RunOK, Fresh, Waiting, Over
<1>9. cur'[w] = r => PlaceOK(w, r)'
  <2>1. l \in Round => l \notin Entry /\ l \notin Charge /\ l # "unlock"
    BY DEF Round, Entry, Charge, Leading, Last
  <2> QED BY <1>1, <1>2, <1>3, <1>4, <2>1 DEF PlaceOK
<1>10. ThreadOK(w)' BY <1>1 DEF ThreadOK, WorkerPC, Round
<1>11. \A b \in Actor \ {w} : cur[b] = r => PlaceOK(b, r)'
  <2>1. ASSUME NEW b \in Actor \ {w}, cur[b] = r PROVE PlaceOK(b, r)'
    <3>1. PlaceOK(b, r) /\ pc'[b] = pc[b] BY <2>1 DEF Acts, IInv, Places
    <3> QED BY <1>2, <1>3, <1>4, <2>1, <3>1, CompanionKept
  <2> QED BY <2>1
<1>12. l \notin Entry \cup Charge /\ l \notin Locking
       /\ l \notin {"decrementNext", "unlockLast", "promiseLast", "decrementLast"}
       /\ pc[w] \notin {"decrementNext", "unlockLast", "promiseLast", "decrementLast"}
  BY DEF Entry, Charge, Leading, Last, Locking, Round
<1> QED BY <1>1, <1>2, <1>3, <1>8, <1>9, <1>10, <1>11, <1>12, LocalInvariant

\* The invariant is kept when a worker takes a task.
LEMMA InvokeInvariant ==
    ASSUME IInv, NEW w \in Worker, NEW r \in Run, Invoke(w, r)
    PROVE  IInv'
<1>1. /\ TypeOK /\ pc[w] = "idle" /\ tpg[r].ready > 0 /\ cur[w] = Nobody
      /\ w \in Actor /\ Nobody \notin Run BY Types DEF IInv, Invoke, Threads, ThreadOK
<1>2. tpg[r].joinCounter > 0 /\ RunOK(r) BY <1>1, BusyFacts DEF IInv, Runs
<1>3. PICK s \in Topology : s = tpg[r] BY <1>1 DEF TypeOK, Topology
<1>4. PICK t \in Topology : t = [s EXCEPT !.ready = s.ready - 1]
  <2>1. s.ready - 1 \in Nat BY <1>1, <1>3, TopologyFields
  <2> QED BY <2>1 DEF Topology
<1>5. PICK l \in {"retire", "invoke"} : l = IF s.cancelled THEN "retire" ELSE "invoke" OBVIOUS
<1>6. /\ tpg' = [tpg EXCEPT ![r] = t] /\ pc' = [pc EXCEPT ![w] = l] /\ cur' = [cur EXCEPT ![w] = r]
      /\ mutex' = mutex /\ UNCHANGED <<queue, owned, destroyed, topologies, sleeping, graphVars>>
  BY <1>3, <1>4, <1>5 DEF Invoke, Goto
<1>7. TypeOK' /\ pc'[w] = l /\ cur'[w] = r /\ tpg'[r] = t /\ Acts(w, r)
  <2>1. l \in ClientPC \cup WorkerPC /\ mutex' \in [Flow -> Actor \cup {Nobody}]
    BY <1>1, <1>6 DEF WorkerPC, TypeOK
  <2> QED BY <1>1, <1>6, <2>1, TypeQuiet
<1>8. /\ t.ready = s.ready - 1 /\ t.joinCounter = s.joinCounter /\ t.pred = s.pred /\ t.calls = s.calls
      /\ t.ran = s.ran /\ t.cancelled = s.cancelled /\ t.raised = s.raised /\ t.exception = s.exception
      /\ t.alive = s.alive /\ t.promise = s.promise BY <1>4 DEF Topology
<1>9. /\ s.exception => s.raised
      /\ t.raised => t.cancelled
      /\ s.raised => s.exception \/ \E v \in Worker : cur[v] = r /\ pc[v] = "store"
  BY <1>2, <1>3, <1>8, BusyFacts DEF RunOK, InFront
<1>10. l \in Round \cup {"idle"} /\ l # "idle" /\ l # "store" /\ (l = "invoke" <=> ~s.cancelled)
  BY <1>5 DEF Round
<1>11. /\ t.joinCounter - t.ready + Is(pc[w] # "idle") = s.joinCounter - s.ready + Is(l # "idle")
       /\ t.ran + t.ready + Is(l = "invoke") <= s.ran + s.ready + Is(pc[w] = "invoke")
       /\ ~t.cancelled => t.ran + t.ready + Is(l = "invoke") = s.ran + s.ready + Is(pc[w] = "invoke")
  BY <1>1, <1>8, <1>10, TopologyFields DEF Is
<1>12. UNCHANGED <<queue, mutex, owned, destroyed, topologies, graphVars>> BY <1>6
<1> QED BY <1>1, <1>2, <1>3, <1>7, <1>8, <1>9, <1>10, <1>11, <1>12, RoundStep

\* The invariant is kept when a task returns or throws.
LEMMA ExecuteInvariant ==
    ASSUME IInv, NEW w \in Worker, Execute(w)
    PROVE  IInv'
<1>1. TypeOK /\ pc[w] = "invoke" /\ w \in Actor /\ Nobody \notin Run BY Types DEF IInv, Execute
<1>2. PICK r \in Run : cur[w] = r /\ PlaceOK(w, r) /\ RunOK(r) BY <1>1, Working
<1>3. tpg[r].joinCounter > 0
  <2>1. w \in Busy(r) BY <1>1, <1>2 DEF Busy, Round
  <2> QED BY <2>1, BusyFacts
<1>4. PICK s \in Topology : s = tpg[r] BY <1>1 DEF TypeOK, Topology
<1>5. PICK t \in Topology :
         \/ t = [s EXCEPT !.ran = s.ran + 1] /\ pc' = [pc EXCEPT ![w] = "retire"]
            /\ tpg' = [tpg EXCEPT ![r] = t]
         \/ t = [s EXCEPT !.ran = s.ran + 1, !.raised = TRUE, !.cancelled = TRUE]
            /\ pc' = [pc EXCEPT ![w] = IF s.raised THEN "retire" ELSE "store"]
            /\ tpg' = [tpg EXCEPT ![r] = t]
  <2>1. s.ran + 1 \in Nat BY TopologyFields
  <2>2. PICK t1 \in Topology, t2 \in Topology :
           /\ t1 = [s EXCEPT !.ran = s.ran + 1]
           /\ t2 = [s EXCEPT !.ran = s.ran + 1, !.raised = TRUE, !.cancelled = TRUE]
    BY <2>1 DEF Topology
  <2>3. \/ tpg' = [tpg EXCEPT ![r] = t1] /\ pc' = [pc EXCEPT ![w] = "retire"]
        \/ tpg' = [tpg EXCEPT ![r] = t2] /\ pc' = [pc EXCEPT ![w] = IF s.raised THEN "retire" ELSE "store"]
    BY <1>2, <1>4, <2>2 DEF Execute, Goto
  <2> QED BY <2>2, <2>3
<1>6. PICK l \in {"retire", "store"} : pc' = [pc EXCEPT ![w] = l] /\ (l = "store" => ~s.raised /\ t.raised)
                                       /\ (t.raised => s.raised \/ l = "store")
  BY <1>5, TopologyFields DEF Topology
<1>7. /\ tpg' = [tpg EXCEPT ![r] = t] /\ cur' = [cur EXCEPT ![w] = r]
      /\ mutex' = mutex /\ UNCHANGED <<queue, owned, destroyed, topologies, sleeping, graphVars>>
  BY <1>1, <1>2, <1>5 DEF Execute, TypeOK
<1>8. TypeOK' /\ pc'[w] = l /\ cur'[w] = r /\ tpg'[r] = t /\ Acts(w, r)
  <2>1. l \in ClientPC \cup WorkerPC /\ mutex' \in [Flow -> Actor \cup {Nobody}]
    BY <1>1, <1>7 DEF WorkerPC, TypeOK
  <2>2. cur[w] \in {r, Nobody} /\ r \in {r, Nobody} /\ r \in Run \cup {Nobody} BY <1>2
  <2> QED BY <1>1, <1>6, <1>7, <2>1, <2>2, TypeQuiet
<1>9. /\ t.ready = s.ready /\ t.joinCounter = s.joinCounter /\ t.pred = s.pred /\ t.calls = s.calls
      /\ t.ran = s.ran + 1 /\ t.exception = s.exception /\ t.alive = s.alive /\ t.promise = s.promise
      /\ (s.cancelled => t.cancelled) /\ (s.raised => t.raised) BY <1>5 DEF Topology
<1>10. /\ s.exception => s.raised
       /\ s.raised => s.exception \/ \E v \in Worker \ {w} : cur[v] = r /\ pc[v] = "store"
  BY <1>1, <1>2, <1>3, <1>4, BusyFacts DEF RunOK, InFront
<1>11. l \in Round \cup {"idle"} /\ l # "idle" /\ l # "invoke" /\ pc[w] \in Round BY <1>1 DEF Round
<1>12. /\ t.joinCounter - t.ready + Is(pc[w] # "idle") = s.joinCounter - s.ready + Is(l # "idle")
       /\ t.ran + t.ready + Is(l = "invoke") = s.ran + s.ready + Is(pc[w] = "invoke")
  BY <1>1, <1>9, <1>11, TopologyFields DEF Is
<1>13. t.ran + t.ready + Is(l = "invoke") <= s.ran + s.ready + Is(pc[w] = "invoke")
  BY <1>12, TopologyFields DEF Is
<1>14. UNCHANGED <<queue, mutex, owned, destroyed, topologies, graphVars>> BY <1>7
<1>16. t.raised => t.cancelled BY <1>2, <1>4, <1>5 DEF RunOK, Topology
<1>15. t.raised => t.exception \/ l = "store" \/ \E v \in Worker \ {w} : cur[v] = r /\ pc[v] = "store"
  BY <1>6, <1>9, <1>10
<1> QED
  BY <1>1, <1>2, <1>3, <1>4, <1>6, <1>8, <1>9, <1>10, <1>11, <1>12, <1>13, <1>14, <1>15, <1>16, RoundStep

\* The invariant is kept when the exception of a task is stored.
LEMMA StoreInvariant ==
    ASSUME IInv, NEW w \in Worker, StoreException(w)
    PROVE  IInv'
<1>1. TypeOK /\ pc[w] = "store" /\ w \in Actor /\ Nobody \notin Run
  BY Types DEF IInv, StoreException
<1>2. PICK r \in Run : cur[w] = r /\ PlaceOK(w, r) /\ RunOK(r) BY <1>1, Working
<1>3. tpg[r].joinCounter > 0
  <2>1. w \in Busy(r) BY <1>1, <1>2 DEF Busy, Round
  <2> QED BY <2>1, BusyFacts
<1>4. PICK s \in Topology : s = tpg[r] BY <1>1 DEF TypeOK, Topology
<1>5. PICK t \in Topology : t = [s EXCEPT !.exception = TRUE] BY DEF Topology
<1>6. PICK l \in Round \cup {"idle"} : l = "retire" BY DEF Round
<1>7. /\ tpg' = [tpg EXCEPT ![r] = t] /\ pc' = [pc EXCEPT ![w] = l] /\ cur' = [cur EXCEPT ![w] = r]
      /\ mutex' = mutex /\ UNCHANGED <<queue, owned, destroyed, topologies, sleeping, graphVars>>
  BY <1>1, <1>2, <1>4, <1>5, <1>6 DEF StoreException, Goto, TypeOK
<1>8. TypeOK' /\ pc'[w] = l /\ cur'[w] = r /\ tpg'[r] = t /\ Acts(w, r)
  <2>1. l \in ClientPC \cup WorkerPC /\ mutex' \in [Flow -> Actor \cup {Nobody}]
    BY <1>1, <1>7, <1>6 DEF WorkerPC, TypeOK
  <2>2. cur[w] \in {r, Nobody} /\ r \in {r, Nobody} /\ r \in Run \cup {Nobody} BY <1>2
  <2> QED BY <1>1, <1>7, <2>1, <2>2, TypeQuiet
<1>9. /\ t.ready = s.ready /\ t.joinCounter = s.joinCounter /\ t.pred = s.pred /\ t.calls = s.calls
      /\ t.ran = s.ran /\ t.cancelled = s.cancelled /\ t.raised = s.raised /\ t.exception
      /\ t.alive = s.alive /\ t.promise = s.promise BY <1>5 DEF Topology
<1>10. s.raised BY <1>1, <1>2, <1>4 DEF PlaceOK
<1>11. pc[w] \in Round BY <1>1 DEF Round
<1>12. /\ t.joinCounter - t.ready + Is(pc[w] # "idle") = s.joinCounter - s.ready + Is(l # "idle")
       /\ t.ran + t.ready + Is(l = "invoke") = s.ran + s.ready + Is(pc[w] = "invoke")
       /\ t.ran + t.ready + Is(l = "invoke") <= s.ran + s.ready + Is(pc[w] = "invoke")
  BY <1>1, <1>9, <1>6, TopologyFields DEF Is
<1>13. UNCHANGED <<queue, mutex, owned, destroyed, topologies, graphVars>> BY <1>7
<1>14. /\ cur'[w] = IF l = "idle" THEN Nobody ELSE r
       /\ IF pc[w] = "idle" THEN cur[w] = Nobody ELSE pc[w] \in Round /\ cur[w] = r
       /\ t.exception => t.raised
       /\ s.raised => t.raised
       /\ l = "store" => t.raised
       /\ t.raised => t.cancelled
       /\ t.raised => \/ t.exception \/ l = "store"
                      \/ \E v \in Worker \ {w} : cur[v] = r /\ pc[v] = "store"
       /\ ~t.cancelled => /\ ~s.cancelled
                          /\ t.ran + t.ready + Is(l = "invoke") = s.ran + s.ready + Is(pc[w] = "invoke")
  BY <1>1, <1>2, <1>4, <1>6, <1>8, <1>9, <1>10, <1>11, <1>12 DEF RunOK
<1>15. s.joinCounter > 0 /\ t.joinCounter > 0 /\ s = tpg[r] /\ t = tpg'[r] /\ l = pc'[w] /\ TypeOK' /\ Acts(w, r)
  BY <1>3, <1>4, <1>8, <1>9
<1> QED BY <1>9, <1>12, <1>13, <1>14, <1>15, RoundStep

-----------------------------------------------------------------------------
(* A thread in charge of a run.                                              *)

\* The rest of the invariant is kept by a step of the thread in charge, or by the step that
\* makes it so, if the thread finds what it expects at its new place.
LEMMA ChargeRest ==
    ASSUME IInv, TypeOK', NEW a \in Actor, NEW r \in Run, Acts(a, r), flowOf[r] \in Flow,
           UNCHANGED <<queue, owned, destroyed, graphVars>>,
           NEW l \in Entry \cup Charge, l = pc'[a], cur[a] = r, cur'[a] = r,
           a \in Client => l \in ClientPC, a \in Worker => l \in WorkerPC,
           \A b \in Actor \ {a} : cur[b] = r => pc[b] = "unlock",
           Busy(r) \subseteq {a},
           tpg'[r].ready = 0 /\ tpg'[r].joinCounter = 0, tpg'[r].alive = tpg[r].alive,
           tpg'[r].raised = tpg[r].raised, tpg[r].cancelled => tpg'[r].cancelled,
           PlaceOK(a, r)', tpg'[r].promise # "pending" => PromiseTrue(r)',
           tpg[r].promise # "pending" => tpg'[r].promise # "pending",
           \A g \in Flow : mutex'[g] # mutex[g] => g = flowOf[r] /\ mutex[g] \in {Nobody, a},
           l \in Locking => mutex'[flowOf[r]] = a
    PROVE  TopologiesOK' => IInv'
<1>1. TypeOK /\ RunOK(r) /\ Queues /\ Nobody \notin Run BY Types DEF IInv, Runs
<1>2. flowOf' = flowOf /\ repeat' = repeat /\ submitted' = submitted /\ queue' = queue
  BY DEF graphVars
<1>3. /\ Entered(r)' <=> Entered(r)
      /\ Queued(r)' <=> Queued(r)
      /\ Front(r)' <=> Front(r)
      /\ Front(r) => Queued(r)
      /\ Queued(r) => Entered(r) BY <1>1, <1>2, QueuesKept, QueueFacts
<1>4. Busy(r)' = {} /\ IsFiniteSet(Busy(r))' /\ Cardinality(Busy(r))' = 0
  <2>1. \A w \in Worker : w \in Actor BY DEF Actor
  <2>2. l \notin Round BY DEF Entry, Charge, Leading, Last, Round
  <2>3. \A w \in Worker : ~(cur'[w] = r /\ pc'[w] \in Round) BY <2>1, <2>2 DEF Acts, Round
  <2>4. Busy(r)' = {} BY <2>3 DEF Busy
  <2> QED BY <2>4, FS_EmptySet
<1>5. ASSUME l \in Leading PROVE Fresh(r)' /\ Waiting(r)' /\ InFront(r)' /\ Over(r)'
  <2>1. LeadOK(a, r)' /\ Front(r)' /\ Queued(r)' /\ Entered(r)'
    BY <1>3, <1>5 DEF PlaceOK, LeadOK, Charge
  <2>2. tpg'[r].promise # "pending" => l = "popNext" /\ a \in Worker
    <3>1. tpg'[r].promise # "pending" => l = "popNext" BY <1>5, <2>1 DEF LeadOK, Leading
    <3>2. "popNext" \notin ClientPC BY DEF ClientPC
    <3> QED BY <3>1, <3>2 DEF Actor
  <2>3. InFront(r)' BY <1>4, <2>2 DEF InFront
  <2> QED BY <2>1, <2>3 DEF Fresh, Waiting, Over
<1>6. ASSUME l \in Last PROVE Fresh(r)' /\ Waiting(r)' /\ InFront(r)' /\ Over(r)'
  <2>1. LeadOK(a, r)' /\ Entered(r)' /\ ~Queued(r)' /\ ~Front(r)'
    BY <1>3, <1>6 DEF PlaceOK, LeadOK, Charge
  <2>2. a \in Worker
    <3>1. \A x \in Last : x \notin ClientPC BY DEF Last, ClientPC
    <3> QED BY <1>6, <3>1 DEF Actor
  <2>3. Over(r)'
    <3>1. tpg'[r].promise = "pending" <=> l \in {"unlockLast", "promiseLast"}
      BY <1>6, <2>1 DEF LeadOK, Last
    <3>2. tpg'[r].calls = 1 BY <1>6, <2>1, <3>1 DEF LeadOK, PromiseTrue
    <3> QED BY <2>2, <3>1, <3>2 DEF Over
  <2> QED BY <2>1, <2>3 DEF Fresh, Waiting, InFront
<1>7. ASSUME l \in Entry PROVE Fresh(r)' /\ Waiting(r)' /\ InFront(r)' /\ Over(r)'
  <2>1. EntryOK(a, r)' /\ ~Entered(r)' /\ ~Queued(r)' /\ ~Front(r)'
    BY <1>3, <1>7 DEF PlaceOK, EntryOK
  <2>2. a \in Client
    <3>1. \A x \in Entry : x \notin WorkerPC BY PlacesApart
    <3> QED BY <1>7, <3>1 DEF Actor
  <2>3. flowOf'[r] # Nobody BY <1>1, <1>2, Types
  <2>4. l = "dummyDecrement" => tpg'[r].promise # "pending" BY <2>1 DEF EntryOK
  <2>5. Fresh(r)' BY <1>7, <2>1, <2>2, <2>3, <2>4 DEF EntryOK, Fresh
  <2> QED BY <2>1, <2>5 DEF Over, Waiting, InFront
<1>8. RunOK(r)'
  <2>1. Fresh(r)' /\ Waiting(r)' /\ InFront(r)' /\ Over(r)' BY <1>5, <1>6, <1>7 DEF Charge
  <2>2. Queued(r)' => tpg'[r].alive BY <1>1, <1>3 DEF RunOK
  <2>3. tpg'[r].raised => tpg'[r].cancelled BY <1>1 DEF RunOK
  <2> QED BY <2>1, <2>2, <2>3 DEF RunOK
<1>9. ThreadOK(a)'
  <2>1. l \notin {"idle", "waitForAll"} BY DEF Entry, Charge, Leading, Last
  <2> QED BY <1>1, <2>1 DEF ThreadOK
<1>10. \A b \in Actor \ {a} : cur[b] = r => PlaceOK(b, r)'
  <2>1. ASSUME NEW b \in Actor \ {a}, cur[b] = r PROVE PlaceOK(b, r)'
    <3>1. PlaceOK(b, r) /\ pc'[b] = pc[b] /\ pc[b] = "unlock" BY <2>1 DEF Acts, IInv, Places
    <3> QED BY <1>2, <1>3, <2>1, <3>1, CompanionKept
  <2> QED BY <2>1
<1>11. "unlock" \notin Entry \cup Charge BY DEF Entry, Charge, Leading, Last
<1> QED BY <1>1, <1>2, <1>8, <1>9, <1>10, <1>11, LocalRest

\* The invariant is kept by a step of the thread in charge, or by the step that makes it
\* so, if the thread finds what it expects at its new place.
LEMMA ChargeStep ==
    ASSUME IInv, TypeOK', NEW a \in Actor, NEW r \in Run, Acts(a, r), flowOf[r] \in Flow,
           UNCHANGED <<queue, owned, destroyed, topologies, graphVars>>,
           NEW l \in Entry \cup Charge, l = pc'[a], cur[a] = r, cur'[a] = r,
           a \in Client => l \in ClientPC, a \in Worker => l \in WorkerPC,
           \A b \in Actor \ {a} : cur[b] = r => pc[b] = "unlock",
           Busy(r) \subseteq {a},
           tpg'[r].ready = 0 /\ tpg'[r].joinCounter = 0, tpg'[r].alive = tpg[r].alive,
           tpg'[r].raised = tpg[r].raised, tpg[r].cancelled => tpg'[r].cancelled,
           PlaceOK(a, r)', tpg'[r].promise # "pending" => PromiseTrue(r)',
           tpg[r].promise # "pending" => tpg'[r].promise # "pending",
           \A g \in Flow : mutex'[g] # mutex[g] => g = flowOf[r] /\ mutex[g] \in {Nobody, a},
           l \in Locking => mutex'[flowOf[r]] = a,
           a \in Client => (l \in Entry \ {"count"} <=> pc[a] \in Entry \ {"count"}),
           a \in Worker => (l \in {"decrementNext", "unlockLast", "promiseLast", "decrementLast"} <=>
                            pc[a] \in {"decrementNext", "unlockLast", "promiseLast", "decrementLast"})
    PROVE  IInv'
<1>1. /\ UNCHANGED <<queue, owned, destroyed, graphVars>>
      /\ flowOf' = flowOf /\ submitted' = submitted /\ queue' = queue /\ topologies' = topologies
  BY DEF graphVars
<1>2. \A q : Queued(q)' <=> Queued(q) BY <1>1, QueuesKept
<1>3. TopologiesOK' BY <1>1, <1>2, LocalCounts
<1> QED BY <1>1, <1>3, ChargeRest

-----------------------------------------------------------------------------
(* The worker in charge of a run.                                            *)

\* What was done and what is missing stays as it is.
LEMMA WorkKept ==
    ASSUME NEW r \in Run, flowOf' = flowOf, repeat' = repeat, tpg'[r].pred = tpg[r].pred,
           tpg'[r].ran = tpg[r].ran, tpg'[r].cancelled = tpg[r].cancelled
    PROVE  /\ Size(r)' = Size(r) /\ Due(r)' = Due(r)
           /\ Budget(r, 0)' <=> Budget(r, 0)
           /\ Budget(r, Size(r))' <=> Budget(r, Size(r))
           /\ Complete(r)' <=> Complete(r)
<1>1. Size(r)' = Size(r) /\ Due(r)' = Due(r) BY DEF Size, Due
<1> QED BY <1>1 DEF Budget, Complete

\* The queues are what they were, for the threads of this run too.
LEMMA SameQueues ==
    ASSUME NEW r \in Run, UNCHANGED <<queue, graphVars>>
    PROVE  /\ flowOf' = flowOf /\ repeat' = repeat /\ submitted' = submitted
           /\ Entered(r)' <=> Entered(r)
           /\ Queued(r)' <=> Queued(r)
           /\ Front(r)' <=> Front(r)
           /\ Len(queue[flowOf[r]])' = Len(queue[flowOf[r]])
<1>1. flowOf' = flowOf /\ repeat' = repeat /\ submitted' = submitted /\ queue' = queue
  BY DEF graphVars
<1> QED BY <1>1, QueuesKept

\* It takes the lock, gives it up, or leaves it as it is.
LockStep(w, f, l) ==
    \/ mutex' = mutex /\ (l \in Locking => pc[w] \in Locking)
    \/ mutex[f] = Nobody /\ mutex' = [mutex EXCEPT ![f] = w]
    \/ mutex' = [mutex EXCEPT ![f] = Nobody] /\ pc[w] \in Locking /\ l \notin Locking

\* What the worker in charge does to its run.
KeepsRun(s, t) ==
    /\ t.ready = s.ready /\ t.joinCounter = s.joinCounter /\ t.alive = s.alive
    /\ t.raised = s.raised /\ t.cancelled = s.cancelled
    /\ s.promise # "pending" => t = s

\* A step of the worker in charge of a run that stays in charge of it.
LEMMA LeadRest ==
    ASSUME IInv, NEW w \in Worker, NEW r \in Run, cur[w] = r, pc[w] \in Charge,
           NEW s \in Topology, s = tpg[r],
           NEW t \in Topology, tpg' = [tpg EXCEPT ![r] = t],
           NEW l \in Charge, pc' = [pc EXCEPT ![w] = l], l \in WorkerPC,
           UNCHANGED <<queue, owned, destroyed, graphVars, cur>>, topologies' \in Nat, sleeping' \in SUBSET Client,
           LockStep(w, flowOf[r], l), KeepsRun(s, t),
           pc'[w] = l /\ tpg'[r] = t => LeadOK(w, r)',
           pc'[w] = l /\ tpg'[r] = t /\ t.promise # s.promise => PromiseTrue(r)',
           pc'[w] = l /\ cur'[w] = r /\ Acts(w, r) => TopologiesOK'
    PROVE  IInv'
<1>1. TypeOK /\ w \in Actor /\ Nobody \notin Run /\ PlaceOK(w, r) /\ flowOf[r] \in Flow /\ RunOK(r)
  BY Types DEF IInv, Places, PlaceOK, Runs
<1>2. mutex' \in [Flow -> Actor \cup {Nobody}] BY <1>1 DEF TypeOK, LockStep
<1>3. TypeOK' /\ pc'[w] = l /\ cur'[w] = r /\ tpg'[r] = t /\ Acts(w, r)
  <2>1. cur' = [cur EXCEPT ![w] = r] BY <1>1 DEF TypeOK
  <2>2. cur[w] \in {r, Nobody} /\ r \in {r, Nobody} /\ r \in Run \cup {Nobody} /\ l \in ClientPC \cup WorkerPC
    OBVIOUS
  <2>3. /\ UNCHANGED <<owned, destroyed, flowOf, repeat>>
        /\ queue' \in [Flow -> Seq(Run)] /\ submitted' \in [Flow -> Seq(Run)]
    BY <1>1 DEF TypeOK, graphVars
  <2> QED
    BY ONLY <1>1, r \in Run, tpg' = [tpg EXCEPT ![r] = t], pc' = [pc EXCEPT ![w] = l], t \in Topology,
            topologies' \in Nat, sleeping' \in SUBSET Client, <1>2, <2>1, <2>2, <2>3, TypeStep
<1>4. LeadOK(w, r)' /\ (t.promise # s.promise => PromiseTrue(r)') BY <1>3
<1>5. PlaceOK(w, r)'
  <2>1. l \notin Entry /\ l \notin Round /\ l # "unlock" /\ l # "store"
    BY PlacesApart DEF Charge, Leading, Last
  <2> QED BY <1>1, <1>3, <1>4, <2>1 DEF PlaceOK, graphVars
<1>6. t.promise # "pending" => PromiseTrue(r)'
  <2>1. s.promise # "pending" => PromiseTrue(r) BY <1>1 DEF RunOK
  <2>2. t = s => (PromiseTrue(r) => PromiseTrue(r)')
    BY <1>3 DEF PromiseTrue, Complete, Due, Size, graphVars
  <2> QED BY <1>4, <2>1, <2>2 DEF KeepsRun
<1>7. /\ Busy(r) = {} /\ s.ready = 0 /\ s.joinCounter = 0
      /\ \A b \in Actor \ {w} : cur[b] = r => pc[b] = "unlock" BY <1>1, Companions
<1>8. \A g \in Flow : mutex'[g] # mutex[g] => g = flowOf[r] /\ mutex[g] \in {Nobody, w}
  <2>1. pc[w] \in Locking => mutex[flowOf[r]] = w BY <1>1 DEF IInv, Mutexes
  <2>2. mutex \in [Flow -> Actor \cup {Nobody}] BY <1>1 DEF TypeOK
  <2> QED BY <1>1, <2>1, <2>2 DEF LockStep
<1>9. l \in Locking => mutex'[flowOf[r]] = w
  <2>1. pc[w] \in Locking => mutex[flowOf[r]] = w BY <1>1 DEF IInv, Mutexes
  <2>2. mutex \in [Flow -> Actor \cup {Nobody}] BY <1>1 DEF TypeOK
  <2> QED BY <1>1, <2>1, <2>2 DEF LockStep
<1>10. w \notin Client /\ UNCHANGED <<queue, owned, destroyed, graphVars>>
       /\ (s.promise # "pending" => t.promise # "pending") /\ l \in Entry \cup Charge
  BY Types DEF IInv, KeepsRun
<1>11. /\ t.ready = 0 /\ t.joinCounter = 0 /\ t.alive = s.alive /\ t.raised = s.raised
       /\ s.cancelled => t.cancelled BY <1>7 DEF KeepsRun
<1> QED BY <1>1, <1>3, <1>5, <1>6, <1>7, <1>8, <1>9, <1>10, <1>11, ChargeRest

\* Such a step that leaves the number of runs as it is.
LEMMA LeadStep ==
    ASSUME IInv, NEW w \in Worker, NEW r \in Run, cur[w] = r, pc[w] \in Charge,
           NEW s \in Topology, s = tpg[r],
           NEW t \in Topology, tpg' = [tpg EXCEPT ![r] = t],
           NEW l \in Charge, pc' = [pc EXCEPT ![w] = l], l \in WorkerPC,
           UNCHANGED <<queue, owned, destroyed, topologies, sleeping, graphVars, cur>>,
           LockStep(w, flowOf[r], l), KeepsRun(s, t),
           l \in {"decrementNext", "unlockLast", "promiseLast", "decrementLast"} <=>
           pc[w] \in {"decrementNext", "unlockLast", "promiseLast", "decrementLast"},
           pc'[w] = l /\ tpg'[r] = t => LeadOK(w, r)',
           pc'[w] = l /\ tpg'[r] = t /\ t.promise # s.promise => PromiseTrue(r)'
    PROVE  IInv'
<1>1. topologies' = topologies /\ topologies' \in Nat /\ sleeping' \in SUBSET Client /\ w \in Actor
      /\ w \notin Client /\ UNCHANGED <<queue, graphVars>> BY Types DEF IInv, TypeOK
<1>2. ASSUME pc'[w] = l, cur'[w] = r, Acts(w, r) PROVE TopologiesOK'
  <2>1. \A q \in Run : Queued(q)' <=> Queued(q) BY <1>1, SameQueues
  <2> QED BY <1>1, <1>2, <2>1, LocalCounts
<1>3. UNCHANGED <<queue, owned, destroyed, graphVars, cur>> OBVIOUS
<1> QED BY <1>1, <1>2, <1>3, LeadRest

\* The worker in charge works for a run, and knows it.
LEMMA Leads ==
    ASSUME IInv, NEW w \in Worker, pc[w] \in Charge
    PROVE  /\ TypeOK /\ w \in Actor
           /\ \E r \in Run, s \in Topology :
                /\ cur[w] = r /\ s = tpg[r] /\ LeadOK(w, r) /\ RunOK(r) /\ flowOf[r] \in Flow
<1>1. TypeOK /\ w \in Actor /\ pc[w] \notin {"idle", "waitForAll"} BY Types, PlacesApart DEF IInv
<1>2. PICK r \in Run : cur[w] = r /\ PlaceOK(w, r) /\ RunOK(r) /\ flowOf[r] \in Flow
  BY <1>1, Working
<1>3. tpg[r] \in Topology BY <1>1 DEF TypeOK, Topology
<1>4. LeadOK(w, r) BY <1>2 DEF PlaceOK
<1> QED BY <1>1, <1>2, <1>3, <1>4

\* The invariant is kept when the worker takes the lock for another round.
LEMMA RunAgainInvariant ==
    ASSUME IInv, NEW w \in Worker, RunAgain(w)
    PROVE  IInv'
<1>1. pc[w] = "again" /\ pc[w] \in Charge /\ TypeOK BY DEF RunAgain, Charge, Leading, IInv
<1>2. PICK r \in Run, s \in Topology :
         cur[w] = r /\ s = tpg[r] /\ LeadOK(w, r) /\ RunOK(r) /\ flowOf[r] \in Flow BY <1>1, Leads
<1>3. PICK l \in Charge : l = "setUp" BY DEF Charge, Leading
<1>4. /\ tpg' = [tpg EXCEPT ![r] = s] /\ pc' = [pc EXCEPT ![w] = l]
      /\ UNCHANGED <<queue, owned, destroyed, topologies, sleeping, graphVars, cur>>
      /\ mutex[flowOf[r]] = Nobody /\ mutex' = [mutex EXCEPT ![flowOf[r]] = w]
  BY <1>1, <1>2, <1>3 DEF RunAgain, Goto, Lock, TypeOK
<1>5. ASSUME pc'[w] = l, tpg'[r] = s PROVE LeadOK(w, r)'
  BY <1>1, <1>2, <1>3, <1>4, <1>5, WorkKept, SameQueues DEF LeadOK, Leading, Last
<1>6. l \in WorkerPC /\ (l \in {"decrementNext", "unlockLast", "promiseLast", "decrementLast"} <=>
                         pc[w] \in {"decrementNext", "unlockLast", "promiseLast", "decrementLast"})
  BY <1>1, <1>3 DEF WorkerPC
<1>7. LockStep(w, flowOf[r], l) /\ KeepsRun(s, s) BY <1>4 DEF LockStep, KeepsRun
<1> QED BY <1>1, <1>2, <1>4, <1>5, <1>6, <1>7, LeadStep

\* The invariant is kept when the callback of a run is invoked.
LEMMA CallbackInvariant ==
    ASSUME IInv, NEW w \in Worker, Callback(w)
    PROVE  IInv'
<1>1. pc[w] = "call" /\ pc[w] \in Charge /\ TypeOK BY DEF Callback, Charge, Leading, Last, IInv
<1>2. PICK r \in Run, s \in Topology :
         cur[w] = r /\ s = tpg[r] /\ LeadOK(w, r) /\ RunOK(r) /\ flowOf[r] \in Flow BY <1>1, Leads
<1>3. PICK l \in Charge : l = "lock" BY DEF Charge, Leading, Last
<1>4. PICK t \in Topology : t = [s EXCEPT !.calls = s.calls + 1]
  <2>1. s.calls + 1 \in Nat BY TopologyFields
  <2> QED BY <2>1 DEF Topology
<1>5. /\ tpg' = [tpg EXCEPT ![r] = t] /\ pc' = [pc EXCEPT ![w] = l]
      /\ UNCHANGED <<queue, owned, destroyed, topologies, sleeping, graphVars, cur>>
      /\ mutex' = mutex BY <1>1, <1>2, <1>3, <1>4 DEF Callback, Goto, TypeOK
<1>6. /\ t.ready = s.ready /\ t.joinCounter = s.joinCounter /\ t.alive = s.alive /\ t.ran = s.ran
      /\ t.raised = s.raised /\ t.cancelled = s.cancelled /\ t.pred = s.pred
      /\ s.promise = "pending" /\ t.calls = 1 /\ t.promise = "pending" /\ t.exception = s.exception
  BY <1>1, <1>2, <1>4 DEF LeadOK, Topology
<1>7. ASSUME pc'[w] = l, tpg'[r] = t PROVE LeadOK(w, r)'
  BY <1>1, <1>2, <1>3, <1>5, <1>6, <1>7, WorkKept, SameQueues DEF LeadOK, Leading, Last
<1>8. ASSUME pc'[w] = l, tpg'[r] = t, t.promise # s.promise PROVE PromiseTrue(r)'
  BY <1>1, <1>2, <1>3, <1>5, <1>6, <1>7, <1>8, WorkKept, SameQueues DEF LeadOK, PromiseTrue
<1>9. l \in WorkerPC /\ (l \in {"decrementNext", "unlockLast", "promiseLast", "decrementLast"} <=>
                         pc[w] \in {"decrementNext", "unlockLast", "promiseLast", "decrementLast"})
  BY <1>1, <1>3 DEF WorkerPC
<1>10. LockStep(w, flowOf[r], l) /\ KeepsRun(s, t)
  BY <1>1, <1>2, <1>3, <1>4, <1>5, <1>6 DEF LockStep, KeepsRun, Locking
<1> QED BY <1>1, <1>2, <1>5, <1>7, <1>8, <1>9, <1>10, LeadStep

\* The invariant is kept when a promise is set and another run follows.
LEMMA PromiseNextInvariant ==
    ASSUME IInv, NEW w \in Worker, PromiseNext(w)
    PROVE  IInv'
<1>1. pc[w] = "promiseNext" /\ pc[w] \in Charge /\ TypeOK
  BY DEF PromiseNext, Charge, Leading, Last, IInv
<1>2. PICK r \in Run, s \in Topology :
         cur[w] = r /\ s = tpg[r] /\ LeadOK(w, r) /\ RunOK(r) /\ flowOf[r] \in Flow BY <1>1, Leads
<1>3. PICK l \in Charge : l = "popNext" BY DEF Charge, Leading, Last
<1>4. PICK t \in Topology : t = Fulfilled(s) BY TopologyFields DEF Topology, Fulfilled
<1>5. /\ tpg' = [tpg EXCEPT ![r] = t] /\ pc' = [pc EXCEPT ![w] = l]
      /\ UNCHANGED <<queue, owned, destroyed, topologies, sleeping, graphVars, cur>>
      /\ mutex' = mutex BY <1>1, <1>2, <1>3, <1>4 DEF PromiseNext, Goto, CarryOutPromise, TypeOK
<1>6. /\ t.ready = s.ready /\ t.joinCounter = s.joinCounter /\ t.alive = s.alive /\ t.ran = s.ran
      /\ t.raised = s.raised /\ t.cancelled = s.cancelled /\ t.pred = s.pred
      /\ s.promise = "pending" /\ t.calls = s.calls /\ t.promise # "pending"
      /\ t.promise = "exception" <=> t.raised
  BY <1>1, <1>2, <1>4, TopologyFields DEF LeadOK, Topology, Fulfilled
<1>7. ASSUME pc'[w] = l, tpg'[r] = t PROVE LeadOK(w, r)'
  BY <1>1, <1>2, <1>3, <1>5, <1>6, <1>7, WorkKept, SameQueues DEF LeadOK, Leading, Last
<1>8. ASSUME pc'[w] = l, tpg'[r] = t, t.promise # s.promise PROVE PromiseTrue(r)'
  BY <1>1, <1>2, <1>3, <1>5, <1>6, <1>7, <1>8, WorkKept, SameQueues DEF LeadOK, PromiseTrue
<1>9. l \in WorkerPC /\ (l \in {"decrementNext", "unlockLast", "promiseLast", "decrementLast"} <=>
                         pc[w] \in {"decrementNext", "unlockLast", "promiseLast", "decrementLast"})
  BY <1>1, <1>3 DEF WorkerPC
<1>10. LockStep(w, flowOf[r], l) /\ KeepsRun(s, t)
  BY <1>1, <1>2, <1>3, <1>4, <1>5, <1>6 DEF LockStep, KeepsRun, Locking
<1> QED BY <1>1, <1>2, <1>5, <1>7, <1>8, <1>9, <1>10, LeadStep

\* The invariant is kept when the promise of the last run is set.
LEMMA PromiseLastInvariant ==
    ASSUME IInv, NEW w \in Worker, PromiseLast(w)
    PROVE  IInv'
<1>1. pc[w] = "promiseLast" /\ pc[w] \in Charge /\ TypeOK
  BY DEF PromiseLast, Charge, Leading, Last, IInv
<1>2. PICK r \in Run, s \in Topology :
         cur[w] = r /\ s = tpg[r] /\ LeadOK(w, r) /\ RunOK(r) /\ flowOf[r] \in Flow BY <1>1, Leads
<1>3. PICK l \in Charge : l = "decrementLast" BY DEF Charge, Leading, Last
<1>4. PICK t \in Topology : t = Fulfilled(s) BY TopologyFields DEF Topology, Fulfilled
<1>5. /\ tpg' = [tpg EXCEPT ![r] = t] /\ pc' = [pc EXCEPT ![w] = l]
      /\ UNCHANGED <<queue, owned, destroyed, topologies, sleeping, graphVars, cur>>
      /\ mutex' = mutex BY <1>1, <1>2, <1>3, <1>4 DEF PromiseLast, Goto, CarryOutPromise, TypeOK
<1>6. /\ t.ready = s.ready /\ t.joinCounter = s.joinCounter /\ t.alive = s.alive /\ t.ran = s.ran
      /\ t.raised = s.raised /\ t.cancelled = s.cancelled /\ t.pred = s.pred
      /\ s.promise = "pending" /\ t.calls = s.calls /\ t.promise # "pending"
      /\ t.promise = "exception" <=> t.raised
  BY <1>1, <1>2, <1>4, TopologyFields DEF LeadOK, Topology, Fulfilled
<1>7. ASSUME pc'[w] = l, tpg'[r] = t PROVE LeadOK(w, r)'
  BY <1>1, <1>2, <1>3, <1>5, <1>6, <1>7, WorkKept, SameQueues DEF LeadOK, Leading, Last
<1>8. ASSUME pc'[w] = l, tpg'[r] = t, t.promise # s.promise PROVE PromiseTrue(r)'
  BY <1>1, <1>2, <1>3, <1>5, <1>6, <1>7, <1>8, WorkKept, SameQueues DEF LeadOK, PromiseTrue
<1>9. l \in WorkerPC /\ (l \in {"decrementNext", "unlockLast", "promiseLast", "decrementLast"} <=>
                         pc[w] \in {"decrementNext", "unlockLast", "promiseLast", "decrementLast"})
  BY <1>1, <1>3 DEF WorkerPC
<1>10. LockStep(w, flowOf[r], l) /\ KeepsRun(s, t)
  BY <1>1, <1>2, <1>3, <1>4, <1>5, <1>6 DEF LockStep, KeepsRun, Locking
<1> QED BY <1>1, <1>2, <1>5, <1>7, <1>8, <1>9, <1>10, LeadStep

\* The invariant is kept when the worker gives up the lock before the promise is set.
LEMMA UnlockLastInvariant ==
    ASSUME IInv, NEW w \in Worker, UnlockLast(w)
    PROVE  IInv'
<1>1. pc[w] = "unlockLast" /\ pc[w] \in Charge /\ TypeOK
  BY DEF UnlockLast, Charge, Leading, Last, IInv
<1>2. PICK r \in Run, s \in Topology :
         cur[w] = r /\ s = tpg[r] /\ LeadOK(w, r) /\ RunOK(r) /\ flowOf[r] \in Flow BY <1>1, Leads
<1>3. PICK l \in Charge : l = "promiseLast" BY DEF Charge, Leading, Last
<1>4. PICK t \in Topology : t = s BY TopologyFields DEF Topology
<1>5. /\ tpg' = [tpg EXCEPT ![r] = t] /\ pc' = [pc EXCEPT ![w] = l]
      /\ UNCHANGED <<queue, owned, destroyed, topologies, sleeping, graphVars, cur>>
      /\ mutex' = [mutex EXCEPT ![flowOf[r]] = Nobody]
  BY <1>1, <1>2, <1>3, <1>4 DEF UnlockLast, Goto, Unlock, TypeOK
<1>6. /\ t.ready = s.ready /\ t.joinCounter = s.joinCounter /\ t.alive = s.alive /\ t.ran = s.ran
      /\ t.raised = s.raised /\ t.cancelled = s.cancelled /\ t.pred = s.pred
      /\ s.promise = "pending" /\ t.calls = s.calls /\ t.promise = s.promise /\ t.exception = s.exception
  BY <1>1, <1>2, <1>4 DEF LeadOK, Topology
<1>7. ASSUME pc'[w] = l, tpg'[r] = t PROVE LeadOK(w, r)'
  BY <1>1, <1>2, <1>3, <1>5, <1>6, <1>7, WorkKept, SameQueues DEF LeadOK, Leading, Last
<1>8. ASSUME pc'[w] = l, tpg'[r] = t, t.promise # s.promise PROVE PromiseTrue(r)'
  BY <1>1, <1>2, <1>3, <1>5, <1>6, <1>7, <1>8, WorkKept, SameQueues DEF LeadOK, PromiseTrue
<1>9. l \in WorkerPC /\ (l \in {"decrementNext", "unlockLast", "promiseLast", "decrementLast"} <=>
                         pc[w] \in {"decrementNext", "unlockLast", "promiseLast", "decrementLast"})
  BY <1>1, <1>3 DEF WorkerPC
<1>10. LockStep(w, flowOf[r], l) /\ KeepsRun(s, t)
  BY <1>1, <1>2, <1>3, <1>4, <1>5, <1>6 DEF LockStep, KeepsRun, Locking
<1> QED BY <1>1, <1>2, <1>5, <1>7, <1>8, <1>9, <1>10, LeadStep

\* The invariant is kept when the worker decides how its run goes on.
LEMMA DecideInvariant ==
    ASSUME IInv, NEW w \in Worker, Decide(w)
    PROVE  IInv'
<1>1. pc[w] = "decide" /\ pc[w] \in Charge /\ TypeOK BY DEF Decide, Charge, Leading, IInv
<1>2. PICK r \in Run, s \in Topology :
         cur[w] = r /\ s = tpg[r] /\ LeadOK(w, r) /\ RunOK(r) /\ flowOf[r] \in Flow BY <1>1, Leads
<1>3. /\ Front(r) /\ s.joinCounter = 0 /\ s.calls = 0 /\ s.promise = "pending" /\ Budget(r, 0)
      /\ s.raised <=> s.exception
      /\ s.raised => s.cancelled BY <1>1, <1>2, TopologyFields DEF LeadOK, Leading, RunOK
<1>4. UNCHANGED <<queue, mutex, owned, destroyed, topologies, sleeping, graphVars, cur>>
  BY DEF Decide
<1>5. PICK k \in Nat, d \in Nat : k = Size(r) /\ d = Due(r) BY <1>1, <1>2, Sizes
<1>6. s.ran \in Nat /\ s.pred \in Int /\ s.pred * k \in Int /\ (s.pred - 1) * k + k = s.pred * k
      /\ (s.pred - 1) * k \in Int
      /\ (s.pred >= 0 => s.pred * k >= 0) /\ (s.pred = 0 => s.pred * k = 0) BY TopologyFields, Times
<1>7. /\ s.pred >= 0 /\ s.ran + s.pred * k <= d
      /\ ~s.cancelled => s.ran + s.pred * k = d BY <1>2, <1>3, <1>5, <1>6 DEF Budget
<1>8. Size(r)' = k /\ Due(r)' = d BY <1>4, <1>5 DEF Size, Due, graphVars
<1>9. CASE s.exception \/ s.cancelled
  <2>1. PICK l \in Charge : l = "call" BY DEF Charge, Leading
  <2>2. tpg' = [tpg EXCEPT ![r] = s] /\ pc' = [pc EXCEPT ![w] = l]
    BY <1>1, <1>2, <1>9, <2>1 DEF Decide, Goto, TypeOK
  <2>3. ASSUME tpg'[r] = s PROVE Complete(r)'
    <3>1. s.cancelled /\ s.ran <= d BY <1>3, <1>6, <1>7, <1>9
    <3> QED BY <1>8, <2>3, <3>1 DEF Complete
  <2>4. ASSUME pc'[w] = l, tpg'[r] = s PROVE LeadOK(w, r)'
    BY <1>2, <1>3, <1>4, <2>1, <2>3, <2>4, SameQueues DEF LeadOK, Leading, Last
  <2>5. l \in WorkerPC /\ (l \in {"decrementNext", "unlockLast", "promiseLast", "decrementLast"} <=>
                           pc[w] \in {"decrementNext", "unlockLast", "promiseLast", "decrementLast"})
    BY <1>1, <2>1 DEF WorkerPC
  <2>6. LockStep(w, flowOf[r], l) /\ KeepsRun(s, s) BY <1>4, <2>1 DEF LockStep, KeepsRun, Locking
  <2> QED BY <1>1, <1>2, <1>4, <2>2, <2>4, <2>5, <2>6, LeadStep
<1>10. CASE ~(s.exception \/ s.cancelled)
  <2>1. PICK stop \in BOOLEAN :
           /\ stop <=> s.pred = 0
           /\ tpg' = [tpg EXCEPT ![r].pred = @ - 1]
           /\ pc' = [pc EXCEPT ![w] = IF stop THEN "call" ELSE "again"]
    BY <1>2, <1>10 DEF Decide, PredSays, Goto
  <2>2. PICK l \in Charge : l = IF stop THEN "call" ELSE "again" BY DEF Charge, Leading
  <2>3. PICK t \in Topology : t = [s EXCEPT !.pred = s.pred - 1]
    <3>1. s.pred - 1 \in Int BY <1>6
    <3> QED BY <3>1 DEF Topology
  <2>4. tpg' = [tpg EXCEPT ![r] = t] /\ pc' = [pc EXCEPT ![w] = l]
    BY <1>1, <1>2, <2>1, <2>2, <2>3 DEF TypeOK
  <2>5. /\ t.ready = s.ready /\ t.joinCounter = s.joinCounter /\ t.alive = s.alive /\ t.ran = s.ran
        /\ t.raised = s.raised /\ t.cancelled = s.cancelled /\ t.pred = s.pred - 1
        /\ t.calls = s.calls /\ t.promise = s.promise /\ t.exception = s.exception
    BY <2>3 DEF Topology
  <2>6. ASSUME tpg'[r] = t PROVE /\ l = "call" => Complete(r)'
                                 /\ l = "again" => Budget(r, Size(r))'
    <3>1. l = "call" => s.ran = d BY <1>6, <1>7, <1>10, <2>1, <2>2
    <3>2. l = "again" => s.pred - 1 >= 0 /\ s.ran + k + (s.pred - 1) * k = d
      BY <1>6, <1>7, <1>10, <2>1, <2>2
    <3>3. l = "call" => Complete(r)' BY <1>6, <1>8, <2>5, <2>6, <3>1 DEF Complete
    <3>4. l = "again" => Budget(r, k)' BY <1>6, <1>8, <2>5, <2>6, <3>2 DEF Budget
    <3> QED BY <1>8, <3>3, <3>4 DEF Budget
  <2>7. ASSUME pc'[w] = l, tpg'[r] = t PROVE LeadOK(w, r)'
    BY <1>2, <1>3, <1>4, <2>2, <2>5, <2>6, <2>7, SameQueues DEF LeadOK, Leading, Last
  <2>8. l \in WorkerPC /\ (l \in {"decrementNext", "unlockLast", "promiseLast", "decrementLast"} <=>
                           pc[w] \in {"decrementNext", "unlockLast", "promiseLast", "decrementLast"})
    BY <1>1, <2>2 DEF WorkerPC
  <2>9. LockStep(w, flowOf[r], l) /\ KeepsRun(s, t)
    BY <1>3, <1>4, <2>2, <2>5 DEF LockStep, KeepsRun, Locking
  <2> QED BY <1>1, <1>2, <1>4, <2>4, <2>5, <2>7, <2>8, <2>9, LeadStep
<1> QED BY <1>9, <1>10

\* The invariant is kept when a worker retires a task, be it the last one of the round.
LEMMA RetireInvariant ==
    ASSUME IInv, NEW w \in Worker, Retire(w)
    PROVE  IInv'
<1>1. TypeOK /\ pc[w] = "retire" /\ w \in Actor /\ w \notin Client /\ Nobody \notin Run
  BY Types DEF IInv, Retire
<1>2. PICK r \in Run : cur[w] = r /\ PlaceOK(w, r) /\ RunOK(r) /\ flowOf[r] \in Flow
  BY <1>1, Working
<1>3. w \in Busy(r) /\ w \notin Invoking(r) /\ tpg[r].joinCounter > 0 /\ Front(r)
  <2>1. w \in Busy(r) /\ w \notin Invoking(r) BY <1>1, <1>2 DEF Busy, Invoking, Round
  <2> QED BY <2>1, BusyFacts
<1>4. PICK s \in Topology : s = tpg[r] BY <1>1 DEF TypeOK, Topology
<1>5. PICK t \in Topology : t = [s EXCEPT !.joinCounter = s.joinCounter - 1]
  <2>1. s.joinCounter - 1 \in Nat BY <1>3, <1>4, TopologyFields
  <2> QED BY <2>1 DEF Topology
<1>6. /\ t.ready = s.ready /\ t.joinCounter = s.joinCounter - 1 /\ t.pred = s.pred /\ t.calls = s.calls
      /\ t.ran = s.ran /\ t.cancelled = s.cancelled /\ t.raised = s.raised /\ t.exception = s.exception
      /\ t.alive = s.alive /\ t.promise = s.promise BY <1>5 DEF Topology
<1>7. tpg' = [tpg EXCEPT ![r] = t] /\ mutex' = mutex
      /\ UNCHANGED <<queue, owned, destroyed, topologies, sleeping, graphVars>>
  BY <1>2, <1>4, <1>5 DEF Retire
<1>8. /\ s.calls = 0 /\ Budget(r, s.ready + Cardinality(Invoking(r)))
      /\ s.exception => s.raised
      /\ s.raised => s.exception \/ \E v \in Worker : cur[v] = r /\ pc[v] = "store"
      /\ s.raised => s.cancelled BY <1>2, <1>3, <1>4 DEF RunOK, InFront
<1>9. s.promise = "pending"
  <2>1. ASSUME NEW v \in Worker, cur[v] = r, pc[v] = "popNext" PROVE FALSE
    BY <1>3, <2>1, RoundCompanions DEF Round, Actor
  <2> QED BY <1>2, <1>3, <1>4, <2>1 DEF RunOK, InFront
<1>10. CASE s.joinCounter # 1
  <2>1. PICK l \in Round \cup {"idle"} : l = "idle" OBVIOUS
  <2>2. pc' = [pc EXCEPT ![w] = l] /\ cur' = [cur EXCEPT ![w] = Nobody]
    BY <1>2, <1>4, <1>10, <2>1 DEF Retire, Retired, Goto
  <2>3. TypeOK' /\ pc'[w] = l /\ cur'[w] = Nobody /\ tpg'[r] = t /\ Acts(w, r)
    <3>1. l \in ClientPC \cup WorkerPC /\ mutex' \in [Flow -> Actor \cup {Nobody}]
      BY <1>1, <1>7, <2>1 DEF WorkerPC, TypeOK
    <3>2. cur[w] \in {r, Nobody} /\ Nobody \in {r, Nobody} /\ Nobody \in Run \cup {Nobody} BY <1>2
    <3> QED BY <1>1, <1>7, <2>2, <3>1, <3>2, TypeQuiet
  <2>4. /\ t.joinCounter - t.ready + Is(pc[w] # "idle") = s.joinCounter - s.ready + Is(l # "idle")
        /\ t.ran + t.ready + Is(l = "invoke") <= s.ran + s.ready + Is(pc[w] = "invoke")
        /\ t.ran + t.ready + Is(l = "invoke") = s.ran + s.ready + Is(pc[w] = "invoke")
    BY <1>1, <1>6, <2>1, TopologyFields DEF Is
  <2>5. /\ cur'[w] = IF l = "idle" THEN Nobody ELSE r
        /\ IF pc[w] = "idle" THEN cur[w] = Nobody ELSE pc[w] \in Round /\ cur[w] = r
        /\ t.exception => t.raised
        /\ s.raised => t.raised
        /\ l = "store" => t.raised
        /\ t.raised => t.cancelled
        /\ t.raised => \/ t.exception \/ l = "store"
                       \/ \E v \in Worker \ {w} : cur[v] = r /\ pc[v] = "store"
        /\ ~t.cancelled => /\ ~s.cancelled
                           /\ t.ran + t.ready + Is(l = "invoke") = s.ran + s.ready + Is(pc[w] = "invoke")
    BY <1>1, <1>2, <1>6, <1>8, <2>1, <2>3, <2>4 DEF Round
  <2>6. s.joinCounter > 0 /\ t.joinCounter > 0 /\ s = tpg[r] /\ t = tpg'[r] /\ l = pc'[w] /\ TypeOK' /\ Acts(w, r)
    BY <1>3, <1>4, <1>6, <1>10, <2>3, TopologyFields
  <2>7. UNCHANGED <<queue, mutex, owned, destroyed, topologies, graphVars>> BY <1>7
  <2> QED BY <1>6, <2>4, <2>5, <2>6, <2>7, RoundStep
<1>11. CASE s.joinCounter = 1
  <2>1. PICK l \in Entry \cup Charge : l = "decide" BY DEF Charge, Leading
  <2>2. pc' = [pc EXCEPT ![w] = l] /\ cur' = [cur EXCEPT ![w] = r]
    BY <1>1, <1>2, <1>4, <1>11, <2>1 DEF Retire, Goto, TypeOK
  <2>3. TypeOK' /\ pc'[w] = l /\ cur'[w] = r /\ tpg'[r] = t /\ Acts(w, r)
    <3>1. l \in ClientPC \cup WorkerPC /\ mutex' \in [Flow -> Actor \cup {Nobody}]
      BY <1>1, <1>7, <2>1 DEF WorkerPC, TypeOK
    <3>2. cur[w] \in {r, Nobody} /\ r \in {r, Nobody} /\ r \in Run \cup {Nobody} BY <1>2
    <3> QED BY <1>1, <1>7, <2>2, <3>1, <3>2, TypeQuiet
  <2>4. Busy(r) = {w} /\ s.ready = 0
    <3>1. IsFiniteSet(Busy(r)) /\ Cardinality(Busy(r)) \in Nat /\ s.ready + Cardinality(Busy(r)) = 1
      BY <1>3, <1>4, <1>11, BusyFacts
    <3>2. Cardinality(Busy(r)) # 0 BY <1>3, <3>1, FS_EmptySet
    <3>3. Cardinality(Busy(r)) = 1 /\ s.ready = 0 BY <3>1, <3>2, TopologyFields
    <3>4. \E x : Busy(r) = {x} BY <3>1, <3>3, FS_Singleton
    <3> QED BY <1>3, <3>3, <3>4
  <2>5. Invoking(r) = {} /\ Cardinality(Invoking(r)) = 0
    <3>1. Invoking(r) = {} BY <1>3, <2>4, BusyFacts
    <3> QED BY <3>1, FS_EmptySet
  <2>6. \A b \in Actor \ {w} : cur[b] = r => pc[b] = "unlock"
    <3>1. ASSUME NEW b \in Actor \ {w}, cur[b] = r, pc[b] \in Round PROVE FALSE
      <4>1. ThreadOK(b) BY DEF IInv, Threads
      <4>2. b \in Worker BY <3>1, <4>1, PlacesApart DEF ThreadOK, Actor
      <4>3. b \in Busy(r) BY <3>1, <4>2 DEF Busy
      <4> QED BY <2>4, <4>3
    <3> QED BY <1>3, <3>1, RoundCompanions
  <2>7. Budget(r, 0)'
    <3>1. Budget(r, 0) BY <1>8, <2>4, <2>5
    <3> QED BY <1>4, <1>6, <1>7, <2>3, <3>1, WorkKept DEF graphVars
  <2>8. s.raised <=> s.exception
    <3>1. ASSUME NEW v \in Worker, cur[v] = r, pc[v] = "store" PROVE FALSE
      <4>1. v \in Busy(r) BY <3>1 DEF Busy, Round
      <4> QED BY <1>1, <2>4, <3>1, <4>1
    <3> QED BY <1>8, <3>1, TopologyFields
  <2>9. LeadOK(w, r)'
    <3>1. t.joinCounter = 0 BY <1>6, <1>11
    <3> QED
      BY <1>3, <1>6, <1>7, <1>8, <1>9, <2>1, <2>3, <2>7, <2>8, <3>1, SameQueues DEF LeadOK, Leading, Last
  <2>10. PlaceOK(w, r)'
    <3>1. l \notin Entry /\ l \notin Round /\ l # "unlock" /\ l # "store" BY <2>1 DEF Entry, Round
    <3> QED BY <1>2, <1>7, <2>3, <2>9, <3>1 DEF PlaceOK, graphVars
  <2>11. /\ t.ready = 0 /\ t.joinCounter = 0 /\ t.alive = s.alive /\ t.raised = s.raised
         /\ s.cancelled => t.cancelled
         /\ t.promise # "pending" => PromiseTrue(r)'
         /\ s.promise # "pending" => t.promise # "pending" BY <1>6, <1>9, <1>11, <2>4
  <2>12. /\ l \in WorkerPC /\ l \notin Locking
         /\ l \in {"decrementNext", "unlockLast", "promiseLast", "decrementLast"} <=>
            pc[w] \in {"decrementNext", "unlockLast", "promiseLast", "decrementLast"}
    BY <1>1, <2>1 DEF WorkerPC, Locking
  <2>13. UNCHANGED <<queue, owned, destroyed, topologies, graphVars>> /\ \A g \in Flow : mutex'[g] = mutex[g]
    BY <1>7
  <2> QED BY <1>1, <1>2, <1>4, <2>3, <2>4, <2>6, <2>10, <2>11, <2>12, <2>13, ChargeStep
<1> QED BY <1>10, <1>11

\* The invariant is kept when the worker finds another run behind its own.
LEMMA TearDownNext ==
    ASSUME IInv, NEW w \in Worker, TearDown(w), Len(queue[flowOf[cur[w]]]) > 1
    PROVE  IInv'
<1>1. pc[w] = "lock" /\ pc[w] \in Charge /\ TypeOK BY DEF TearDown, Charge, Leading, IInv
<1>2. PICK r \in Run, s \in Topology :
         cur[w] = r /\ s = tpg[r] /\ LeadOK(w, r) /\ RunOK(r) /\ flowOf[r] \in Flow BY <1>1, Leads
<1>3. PICK l \in Charge : l = "promiseNext" BY DEF Charge, Leading
<1>4. /\ tpg' = [tpg EXCEPT ![r] = s] /\ pc' = [pc EXCEPT ![w] = l]
      /\ UNCHANGED <<queue, owned, destroyed, topologies, sleeping, graphVars, cur>>
      /\ mutex[flowOf[r]] = Nobody /\ mutex' = [mutex EXCEPT ![flowOf[r]] = w]
      /\ Len(queue[flowOf[r]]) > 1 BY <1>1, <1>2, <1>3 DEF TearDown, Goto, Lock, TypeOK
<1>5. ASSUME pc'[w] = l, tpg'[r] = s PROVE LeadOK(w, r)'
  BY <1>1, <1>2, <1>3, <1>4, <1>5, WorkKept, SameQueues DEF LeadOK, Leading, Last
<1>6. l \in WorkerPC /\ (l \in {"decrementNext", "unlockLast", "promiseLast", "decrementLast"} <=>
                         pc[w] \in {"decrementNext", "unlockLast", "promiseLast", "decrementLast"})
  BY <1>1, <1>3 DEF WorkerPC
<1>7. LockStep(w, flowOf[r], l) /\ KeepsRun(s, s) BY <1>4 DEF LockStep, KeepsRun
<1> QED BY <1>1, <1>2, <1>4, <1>5, <1>6, <1>7, LeadStep

-----------------------------------------------------------------------------
(* A client on its way into the queue.                                       *)

\* A step of a client that keeps its run to itself.
LEMMA EntryStep ==
    ASSUME IInv, NEW c \in Client, NEW r \in Run, cur[c] = r, pc[c] \in Entry,
           NEW s \in Topology, s = tpg[r],
           NEW t \in Topology, tpg' = [tpg EXCEPT ![r] = t],
           NEW l \in Entry, pc' = [pc EXCEPT ![c] = l],
           UNCHANGED <<queue, mutex, owned, destroyed, graphVars, cur>>,
           topologies' \in Nat, sleeping' \in SUBSET Client, KeepsRun(s, t),
           pc'[c] = l /\ tpg'[r] = t => EntryOK(c, r)',
           pc'[c] = l /\ tpg'[r] = t /\ t.promise # s.promise => PromiseTrue(r)',
           pc'[c] = l /\ cur'[c] = r /\ Acts(c, r) => TopologiesOK'
    PROVE  IInv'
<1>1. TypeOK /\ c \in Actor /\ c \notin Worker /\ Nobody \notin Run /\ flowOf[r] \in Flow /\ RunOK(r)
  BY Types DEF IInv, Places, PlaceOK, Runs
<1>2. l \in ClientPC /\ l \notin Charge /\ l \notin Round /\ l \notin Locking /\ l # "unlock" /\ l # "store"
  BY DEF Entry, ClientPC, Charge, Leading, Last, Round, Locking
<1>3. TypeOK' /\ pc'[c] = l /\ cur'[c] = r /\ tpg'[r] = t /\ Acts(c, r)
  <2>1. cur' = [cur EXCEPT ![c] = r] /\ queue' \in [Flow -> Seq(Run)] /\ submitted' \in [Flow -> Seq(Run)]
        /\ mutex' \in [Flow -> Actor \cup {Nobody}] BY <1>1 DEF TypeOK, graphVars
  <2>2. cur[c] \in {r, Nobody} /\ r \in {r, Nobody} /\ r \in Run \cup {Nobody} /\ l \in ClientPC \cup WorkerPC
    BY <1>2
  <2>3. UNCHANGED <<owned, destroyed, flowOf, repeat>> BY DEF graphVars
  <2> QED
    BY ONLY <1>1, r \in Run, tpg' = [tpg EXCEPT ![r] = t], pc' = [pc EXCEPT ![c] = l], t \in Topology,
            topologies' \in Nat, sleeping' \in SUBSET Client, <2>1, <2>2, <2>3, TypeStep
<1>4. EntryOK(c, r)' /\ (t.promise # s.promise => PromiseTrue(r)') BY <1>3
<1>5. PlaceOK(c, r)' BY <1>1, <1>2, <1>3, <1>4 DEF PlaceOK, graphVars
<1>6. t.promise # "pending" => PromiseTrue(r)'
  <2>1. s.promise # "pending" => PromiseTrue(r) BY <1>1 DEF RunOK
  <2>2. t = s => (PromiseTrue(r) => PromiseTrue(r)')
    BY <1>3 DEF PromiseTrue, Complete, Due, Size, graphVars
  <2> QED BY <1>4, <2>1, <2>2 DEF KeepsRun
<1>7. /\ Busy(r) = {} /\ s.ready = 0 /\ s.joinCounter = 0
      /\ \A b \in Actor \ {c} : cur[b] = r => pc[b] = "unlock" BY <1>1, Companions
<1>8. /\ t.ready = 0 /\ t.joinCounter = 0 /\ t.alive = s.alive /\ t.raised = s.raised
      /\ s.cancelled => t.cancelled
      /\ s.promise # "pending" => t.promise # "pending" BY <1>7 DEF KeepsRun
<1>9. UNCHANGED <<queue, owned, destroyed, graphVars>> /\ (\A g \in Flow : mutex'[g] = mutex[g])
      /\ l \in Entry \cup Charge OBVIOUS
<1> QED BY <1>1, <1>2, <1>3, <1>5, <1>6, <1>7, <1>8, <1>9, ChargeRest

\* The client on its way works for a run, and knows it.
LEMMA Enters ==
    ASSUME IInv, NEW c \in Client, pc[c] \in Entry
    PROVE  /\ TypeOK /\ c \in Actor /\ c \notin Worker
           /\ \E r \in Run, s \in Topology :
                /\ cur[c] = r /\ s = tpg[r] /\ EntryOK(c, r) /\ RunOK(r) /\ flowOf[r] \in Flow
<1>1. TypeOK /\ c \in Actor /\ c \notin Worker /\ pc[c] \notin {"idle", "waitForAll"}
  BY Types, PlacesApart DEF IInv
<1>2. PICK r \in Run : cur[c] = r /\ PlaceOK(c, r) /\ RunOK(r) /\ flowOf[r] \in Flow
  BY <1>1, Working
<1>3. tpg[r] \in Topology BY <1>1 DEF TypeOK, Topology
<1>4. EntryOK(c, r) BY <1>2 DEF PlaceOK
<1> QED BY <1>1, <1>2, <1>3, <1>4

\* The invariant is kept when a client tests whether there is anything to run.
LEMMA CheckInvariant ==
    ASSUME IInv, NEW c \in Client, Check(c)
    PROVE  IInv'
<1>1. pc[c] = "check" /\ pc[c] \in Entry /\ TypeOK /\ c \in Actor /\ c \notin Worker
  BY Types DEF Check, Entry, IInv
<1>2. PICK r \in Run, s \in Topology :
         cur[c] = r /\ s = tpg[r] /\ EntryOK(c, r) /\ RunOK(r) /\ flowOf[r] \in Flow BY <1>1, Enters
<1>3. /\ ~Entered(r) /\ Clean(s) /\ s.pred = repeat[r] /\ s.calls = 0 /\ s.promise = "pending"
  BY <1>1, <1>2 DEF EntryOK
<1>4. UNCHANGED <<queue, mutex, owned, destroyed, topologies, sleeping, graphVars, cur>>
  BY DEF Check
<1>5. PICK k \in Nat, d \in Nat : k = Size(r) /\ d = Due(r) BY <1>1, <1>2, Sizes
<1>6. s.pred \in Int /\ d = s.pred * k /\ (s.pred - 1) * k + k = s.pred * k /\ (s.pred - 1) * k \in Int
      /\ (s.pred = 0 => s.pred * k = 0) /\ s.pred >= 0
  BY <1>1, <1>2, <1>3, <1>5, TopologyFields, Times, Types DEF Due
<1>7. k = 0 => s.pred * k = 0 BY <1>6
<1>8. Size(r)' = k /\ Due(r)' = d BY <1>4, <1>5 DEF Size, Due, graphVars
<1>9. PICK t \in Topology, l \in Entry :
         /\ t = s \/ t = [s EXCEPT !.pred = s.pred - 1]
         /\ tpg' = [tpg EXCEPT ![r] = t] /\ pc' = [pc EXCEPT ![c] = l]
         /\ \/ l = "dummyCall" /\ k = 0
            \/ l = "dummyCall" /\ s.pred = 0
            \/ l = "enqueue" /\ s.pred # 0 /\ t = [s EXCEPT !.pred = s.pred - 1]
  <2>1. s.pred - 1 \in Int BY <1>6
  <2>2. PICK u \in Topology : u = [s EXCEPT !.pred = s.pred - 1] BY <2>1 DEF Topology
  <2>3. PICK d1 \in Entry, d2 \in Entry : d1 = "dummyCall" /\ d2 = "enqueue" BY DEF Entry
  <2>4. CASE FlowSize[flowOf[cur[c]]] = 0 /\ Goto(c, "dummyCall") /\ UNCHANGED tpg
    <3>1. tpg' = [tpg EXCEPT ![r] = s] /\ pc' = [pc EXCEPT ![c] = d1] /\ k = 0
      BY <1>1, <1>2, <1>5, <2>3, <2>4 DEF Goto, TypeOK, Size
    <3> QED BY <2>3, <3>1
  <2>5. CASE PredSays(cur[c], TRUE) /\ Goto(c, "dummyCall")
    <3>1. tpg' = [tpg EXCEPT ![r] = u] /\ pc' = [pc EXCEPT ![c] = d1] /\ s.pred = 0
      BY <1>1, <1>2, <2>2, <2>3, <2>5 DEF Goto, TypeOK, PredSays
    <3> QED BY <2>2, <2>3, <3>1
  <2>6. CASE PredSays(cur[c], FALSE) /\ Goto(c, "enqueue")
    <3>1. tpg' = [tpg EXCEPT ![r] = u] /\ pc' = [pc EXCEPT ![c] = d2] /\ s.pred # 0
      BY <1>1, <1>2, <2>2, <2>3, <2>6 DEF Goto, TypeOK, PredSays
    <3> QED BY <2>2, <2>3, <3>1
  <2> QED BY <2>4, <2>5, <2>6 DEF Check
<1>10. /\ t.ready = s.ready /\ t.joinCounter = s.joinCounter /\ t.alive = s.alive /\ t.ran = s.ran
       /\ t.raised = s.raised /\ t.cancelled = s.cancelled
       /\ t.calls = s.calls /\ t.promise = s.promise /\ t.exception = s.exception
       /\ l = "enqueue" => t.pred = s.pred - 1 BY <1>9 DEF Topology
<1>11. ASSUME pc'[c] = l, tpg'[r] = t PROVE EntryOK(c, r)'
  <2>1. ~Entered(r)' BY <1>3, <1>4, SameQueues
  <2>2. Clean(t) BY <1>3, <1>10 DEF Clean
  <2>3. l = "dummyCall" => d = 0 BY <1>6, <1>7, <1>9
  <2>4. l = "enqueue" => s.pred - 1 >= 0 /\ 0 + k + (s.pred - 1) * k = d BY <1>6, <1>9
  <2>5. l = "enqueue" => Budget(r, k)' BY <1>3, <1>6, <1>8, <1>10, <1>11, <2>4 DEF Budget, Clean
  <2>6. l = "enqueue" => Budget(r, Size(r))' BY <1>8, <2>5 DEF Budget
  <2> QED BY <1>3, <1>8, <1>9, <1>10, <1>11, <2>1, <2>2, <2>3, <2>6 DEF EntryOK
<1>12. KeepsRun(s, t) BY <1>3, <1>10 DEF KeepsRun
<1>13. UNCHANGED <<queue, mutex, owned, destroyed, graphVars, cur>> /\ topologies' \in Nat
       /\ sleeping' \in SUBSET Client BY <1>1, <1>4 DEF TypeOK
<1>14. ASSUME pc'[c] = l, cur'[c] = r, Acts(c, r) PROVE TopologiesOK'
  <2>1. \A q \in Run : Queued(q)' <=> Queued(q) BY <1>4, SameQueues
  <2>2. l \in Entry \ {"count"} /\ pc[c] \in Entry \ {"count"} BY <1>1, <1>9
  <2> QED BY <1>1, <1>2, <1>4, <1>14, <2>1, <2>2, LocalCounts
<1>15. tpg' = [tpg EXCEPT ![r] = t] /\ pc' = [pc EXCEPT ![c] = l] BY <1>9
<1>16. pc'[c] = l /\ tpg'[r] = t /\ t.promise # s.promise => PromiseTrue(r)' BY <1>10
<1> QED BY <1>1, <1>2, <1>11, <1>12, <1>13, <1>14, <1>15, <1>16, EntryStep

\* The invariant is kept when a client invokes the callback of a run with nothing to do.
LEMMA DummyCallInvariant ==
    ASSUME IInv, NEW c \in Client, DummyCall(c)
    PROVE  IInv'
<1>1. pc[c] = "dummyCall" /\ pc[c] \in Entry /\ TypeOK /\ c \in Actor /\ c \notin Worker
  BY Types DEF DummyCall, Entry, IInv
<1>2. PICK r \in Run, s \in Topology :
         cur[c] = r /\ s = tpg[r] /\ EntryOK(c, r) /\ RunOK(r) /\ flowOf[r] \in Flow BY <1>1, Enters
<1>3. /\ ~Entered(r) /\ Clean(s) /\ s.calls = 0 /\ s.promise = "pending" /\ Due(r) = 0
  BY <1>1, <1>2 DEF EntryOK
<1>4. UNCHANGED <<queue, mutex, owned, destroyed, topologies, sleeping, graphVars, cur>>
  BY DEF DummyCall
<1>5. PICK l \in Entry : l = "dummyDecrement" BY DEF Entry
<1>6. PICK t \in Topology : t = [s EXCEPT !.calls = s.calls + 1, !.promise = "value"]
  <2>1. s.calls + 1 \in Nat BY TopologyFields
  <2> QED BY <2>1 DEF Topology
<1>7. tpg' = [tpg EXCEPT ![r] = t] /\ pc' = [pc EXCEPT ![c] = l]
  BY <1>1, <1>2, <1>5, <1>6 DEF DummyCall, Goto, TypeOK
<1>8. /\ t.ready = s.ready /\ t.joinCounter = s.joinCounter /\ t.alive = s.alive /\ t.ran = s.ran
      /\ t.raised = s.raised /\ t.cancelled = s.cancelled
      /\ t.calls = 1 /\ t.promise = "value" /\ t.exception = s.exception BY <1>3, <1>6 DEF Topology
<1>9. Due(r)' = 0 BY <1>3, <1>4 DEF Size, Due, graphVars
<1>10. pc'[c] = l /\ tpg'[r] = t => EntryOK(c, r)'
  <2>1. ~Entered(r)' BY <1>3, <1>4, SameQueues
  <2>2. Clean(t) BY <1>3, <1>8 DEF Clean
  <2> QED BY <1>5, <1>8, <1>9, <2>1, <2>2 DEF EntryOK
<1>11. pc'[c] = l /\ tpg'[r] = t /\ t.promise # s.promise => PromiseTrue(r)'
  BY <1>3, <1>8, <1>9 DEF PromiseTrue, Complete, Clean
<1>12. KeepsRun(s, t) BY <1>3, <1>8 DEF KeepsRun
<1>13. UNCHANGED <<queue, mutex, owned, destroyed, graphVars, cur>> /\ topologies' \in Nat
       /\ sleeping' \in SUBSET Client BY <1>1, <1>4 DEF TypeOK
<1>14. ASSUME pc'[c] = l, cur'[c] = r, Acts(c, r) PROVE TopologiesOK'
  <2>1. \A q \in Run : Queued(q)' <=> Queued(q) BY <1>4, SameQueues
  <2>2. l \in Entry \ {"count"} /\ pc[c] \in Entry \ {"count"} BY <1>1, <1>5
  <2> QED BY <1>1, <1>2, <1>4, <1>14, <2>1, <2>2, LocalCounts
<1> QED BY <1>1, <1>2, <1>7, <1>10, <1>11, <1>12, <1>13, <1>14, EntryStep

-----------------------------------------------------------------------------
(* The lock of a taskflow, held for the set-up and for queueing.              *)

\* The invariant is kept when a round is set up.
LEMMA SetUpInvariant ==
    ASSUME IInv, NEW a \in Actor, SetUpTopology(a)
    PROVE  IInv'
<1>1. pc[a] = "setUp" /\ pc[a] \in Charge /\ TypeOK /\ pc[a] \notin {"idle", "waitForAll"}
  BY DEF SetUpTopology, Charge, Leading, IInv
<1>2. PICK r \in Run : cur[a] = r /\ PlaceOK(a, r) /\ RunOK(r) /\ flowOf[r] \in Flow
  BY <1>1, Working
<1>3. PICK s \in Topology : s = tpg[r] BY <1>1 DEF TypeOK, Topology
<1>4. /\ Front(r) /\ Queued(r) /\ Entered(r) /\ s.calls = 0 /\ s.promise = "pending"
      /\ Budget(r, Size(r)) /\ s.alive /\ (s.raised <=> s.exception) /\ (s.raised => s.cancelled)
  <2>1. /\ Front(r) /\ s.calls = 0 /\ s.promise = "pending"
        /\ Budget(r, Size(r)) /\ (s.raised <=> s.exception) /\ (s.raised => s.cancelled)
    BY <1>1, <1>2, <1>3 DEF PlaceOK, LeadOK, Leading, RunOK
  <2> QED BY <1>1, <1>2, <1>3, <2>1, QueueFacts DEF RunOK, IInv
<1>5. /\ Busy(r) = {} /\ s.ready = 0 /\ s.joinCounter = 0
      /\ \A b \in Actor \ {a} : cur[b] # r
  <2>1. pc[a] \in Locking BY <1>1 DEF Locking
  <2> QED BY <1>1, <1>2, <1>3, <2>1, Companions
<1>6. PICK k \in Nat : k = Size(r) BY <1>1, <1>2, Sizes
<1>7. PICK t \in Topology : t = [s EXCEPT !.ready = k, !.joinCounter = k] BY DEF Topology
<1>8. /\ tpg' = [tpg EXCEPT ![r] = t] /\ pc' = [pc EXCEPT ![a] = "unlock"]
      /\ UNCHANGED <<queue, mutex, owned, destroyed, topologies, sleeping, graphVars, cur>>
  BY <1>1, <1>2, <1>3, <1>6, <1>7 DEF SetUpTopology, SetUp, Goto, TypeOK, Size
<1>9. TypeOK' /\ pc'[a] = "unlock" /\ cur'[a] = r /\ tpg'[r] = t /\ Acts(a, r)
  <2>1. cur' = [cur EXCEPT ![a] = r] /\ mutex' \in [Flow -> Actor \cup {Nobody}]
    BY <1>1, <1>2, <1>8 DEF TypeOK
  <2>2. "unlock" \in ClientPC \cup WorkerPC BY DEF WorkerPC
  <2>3. cur[a] \in {r, Nobody} /\ r \in {r, Nobody} /\ r \in Run \cup {Nobody} BY <1>2
  <2>4. UNCHANGED <<queue, owned, destroyed, topologies, sleeping, graphVars>> BY <1>8
  <2> QED BY <1>1, <1>8, <2>1, <2>2, <2>3, <2>4, TypeQuiet
<1>10. /\ t.ready = k /\ t.joinCounter = k /\ t.alive = s.alive /\ t.ran = s.ran /\ t.pred = s.pred
       /\ t.raised = s.raised /\ t.cancelled = s.cancelled
       /\ t.calls = s.calls /\ t.promise = s.promise /\ t.exception = s.exception
  BY <1>7 DEF Topology
<1>11. Front(r)' /\ Queued(r)' /\ Entered(r)' BY <1>4, <1>8, SameQueues
<1>12. /\ Busy(r)' = {} /\ IsFiniteSet(Busy(r))' /\ Cardinality(Busy(r))' = 0
       /\ Invoking(r)' = {} /\ Cardinality(Invoking(r))' = 0
  <2>1. "unlock" \notin Round BY DEF Round
  <2> QED BY <1>1, <1>2, <1>9, <2>1, ChargeRun
<1>13. InFront(r)'
  <2>1. Budget(r, k)' BY <1>3, <1>4, <1>6, <1>8, <1>9, <1>10 DEF Budget, Size, Due, graphVars
  <2>2. tpg'[r].ready + Cardinality(Invoking(r))' = k /\ tpg'[r].ready + Cardinality(Busy(r))' = k
    BY <1>9, <1>10, <1>12
  <2>3. Budget(r, tpg[r].ready + Cardinality(Invoking(r)))' BY <2>1, <2>2 DEF Budget
  <2> QED BY <1>4, <1>9, <1>10, <1>12, <2>2, <2>3 DEF InFront
<1>14. RunOK(r)' BY <1>4, <1>9, <1>10, <1>11, <1>13 DEF RunOK, Fresh, Waiting, Over
<1>15. "unlock" \notin Entry \cup Charge \cup Round /\ "unlock" # "store" /\ "unlock" \in ClientPC
       /\ "unlock" \in WorkerPC /\ "unlock" \in Locking
  BY DEF Entry, Charge, Leading, Last, Round, ClientPC, WorkerPC, Locking
<1>16. PlaceOK(a, r)' /\ ThreadOK(a)'
  BY <1>1, <1>2, <1>8, <1>9, <1>11, <1>15, Types DEF PlaceOK, ThreadOK, graphVars
<1>17. mutex'[flowOf[r]] = a
  <2>1. mutex[flowOf[r]] = a BY <1>1, <1>2 DEF IInv, Mutexes, Locking
  <2> QED BY <1>8, <2>1
<1>18. UNCHANGED <<queue, owned, destroyed, topologies, graphVars>> /\ \A g \in Flow : mutex'[g] = mutex[g]
  BY <1>8
<1>19. pc[a] \notin Entry /\ pc[a] \notin {"decrementNext", "unlockLast", "promiseLast", "decrementLast"}
       /\ (tpg[r].promise # "pending" => tpg'[r].promise # "pending")
  BY <1>1, <1>3, <1>9, <1>10 DEF Entry
<1> QED BY <1>1, <1>2, <1>5, <1>9, <1>14, <1>15, <1>16, <1>17, <1>18, <1>19, LocalInvariant

\* The invariant is kept when a thread gives up the lock.
LEMMA LeaveInvariant ==
    ASSUME IInv, NEW a \in Actor, Leave(a)
    PROVE  IInv'
<1>1. pc[a] = "unlock" /\ TypeOK /\ pc[a] \notin {"idle", "waitForAll"} /\ Nobody \notin Run /\ Nobody # a
  BY Types DEF Leave, IInv
<1>2. PICK r \in Run : cur[a] = r /\ PlaceOK(a, r) /\ RunOK(r) /\ flowOf[r] \in Flow
  BY <1>1, Working
<1>3. PICK s \in Topology : s = tpg[r] BY <1>1 DEF TypeOK, Topology
<1>4. /\ tpg' = [tpg EXCEPT ![r] = s] /\ pc' = [pc EXCEPT ![a] = "idle"] /\ cur' = [cur EXCEPT ![a] = Nobody]
      /\ UNCHANGED <<queue, owned, destroyed, topologies, sleeping, graphVars>>
      /\ mutex' = [mutex EXCEPT ![flowOf[r]] = Nobody]
  BY <1>1, <1>2, <1>3 DEF Leave, Retired, Goto, Unlock, TypeOK
<1>5. TypeOK' /\ pc'[a] = "idle" /\ cur'[a] = Nobody /\ tpg'[r] = s /\ Acts(a, r)
  <2>1. mutex' \in [Flow -> Actor \cup {Nobody}] /\ "idle" \in ClientPC \cup WorkerPC
    BY <1>1, <1>4 DEF TypeOK, ClientPC
  <2>2. cur[a] \in {r, Nobody} /\ Nobody \in {r, Nobody} /\ Nobody \in Run \cup {Nobody} BY <1>2
  <2> QED BY <1>1, <1>4, <2>1, <2>2, TypeQuiet
<1>6. /\ \A q : Entered(q)' <=> Entered(q)
      /\ \A q : Queued(q)' <=> Queued(q)
      /\ \A q : Front(q)' <=> Front(q) BY <1>4, QueuesKept DEF graphVars
<1>7. RunOK(r)'
  <2>1. Size(r)' = Size(r) /\ Due(r)' = Due(r) /\ (Complete(r)' <=> Complete(r))
    BY <1>3, <1>4, <1>5 DEF Size, Due, Complete, graphVars
  <2>2. Busy(r)' = Busy(r) /\ Invoking(r)' = Invoking(r)
    BY <1>1, <1>5 DEF Busy, Invoking, Round, Acts, Actor
  <2>3. \A k : Budget(r, k) => Budget(r, k)'
    BY <1>3, <1>5, <2>1, <1>4 DEF Budget, graphVars, Size, Due
  <2>4. \A b \in Actor : cur[b] = r /\ pc[b] # "unlock" => cur'[b] = r /\ pc'[b] = pc[b]
    BY <1>1, <1>5 DEF Acts
  <2>5. /\ \A x \in Entry : x # "unlock"
        /\ \A c \in Client \cup Worker : c \in Actor BY DEF Entry, Actor
  <2>6. Fresh(r)' BY <1>2, <1>3, <1>4, <1>5, <1>6, <2>4, <2>5 DEF RunOK, Fresh, graphVars
  <2>7. Waiting(r)'
    <3>1. Budget(r, Size(r)) => Budget(r, Size(r))'
      BY <2>1, <1>3, <1>5, <1>4 DEF Budget, graphVars, Size, Due
    <3> QED BY <1>2, <1>3, <1>5, <1>6, <3>1 DEF RunOK, Waiting
  <2>8. InFront(r)'
    <3>1. Budget(r, tpg[r].ready + Cardinality(Invoking(r))) => Budget(r, tpg[r].ready + Cardinality(Invoking(r)))'
      BY <2>1, <2>2, <1>3, <1>5, <1>4 DEF Budget, graphVars, Size, Due
    <3> QED BY <1>2, <1>3, <1>5, <1>6, <2>2, <2>4, <2>5, <3>1 DEF RunOK, InFront
  <2>9. Over(r)' BY <1>2, <1>3, <1>5, <1>6, <2>4, <2>5 DEF RunOK, Over
  <2>10. PromiseTrue(r) => PromiseTrue(r)' BY <1>3, <1>5, <2>1 DEF PromiseTrue
  <2> QED BY <1>2, <1>3, <1>5, <1>6, <2>6, <2>7, <2>8, <2>9, <2>10 DEF RunOK
<1>8. ThreadOK(a)'
  <2>1. "idle" \in ClientPC /\ "idle" \in WorkerPC BY DEF ClientPC, WorkerPC
  <2> QED BY <1>5, <2>1 DEF ThreadOK
<1>9. \A b \in Actor \ {a} : cur[b] = r => PlaceOK(b, r)'
  <2>1. ASSUME NEW b \in Actor \ {a}, cur[b] = r PROVE PlaceOK(b, r)'
    <3>1. PlaceOK(b, r) /\ pc'[b] = pc[b] BY <1>5, <2>1 DEF Acts, IInv, Places
    <3>2. Len(queue[flowOf[r]])' = Len(queue[flowOf[r]]) /\ flowOf'[r] = flowOf[r] /\ repeat'[r] = repeat[r]
      BY <1>4 DEF graphVars
    <3> QED BY <1>3, <1>5, <1>6, <3>1, <3>2, PlaceKept
  <2> QED BY <2>1
<1>10. /\ \A g \in Flow : mutex'[g] # mutex[g] => g = flowOf[r] /\ mutex[g] \in {Nobody, a}
  <2>1. mutex[flowOf[r]] = a BY <1>1, <1>2 DEF IInv, Mutexes, Locking
  <2> QED BY <1>1, <1>4, <2>1 DEF TypeOK
<1>11. UNCHANGED <<queue, owned, destroyed, topologies, graphVars>> BY <1>4
<1>12. "unlock" \notin Entry /\ cur'[a] # r
       /\ (tpg[r].promise # "pending" => tpg'[r].promise # "pending") BY <1>1, <1>3, <1>5 DEF Entry
<1>13. a \in Client => (cur'[a] = r /\ pc'[a] \in Entry \ {"count"} <=>
                        cur[a] = r /\ pc[a] \in Entry \ {"count"}) BY <1>1, <1>12
<1>14. pc'[a] \in {"decrementNext", "unlockLast", "promiseLast", "decrementLast"} <=>
       pc[a] \in {"decrementNext", "unlockLast", "promiseLast", "decrementLast"} BY <1>1, <1>5
<1> QED BY <1>2, <1>5, <1>7, <1>8, <1>9, <1>10, <1>11, <1>12, <1>13, <1>14, LocalInvariant

-----------------------------------------------------------------------------
(* The number of runs.                                                       *)

\* A step of a client changes whether its run is counted, and nothing else.
LEMMA ClientCounts ==
    ASSUME IInv, NEW c \in Client, NEW r \in Run, Acts(c, r), \A q \in Run : Queued(q)' <=> Queued(q),
           NEW d \in Int, topologies' = topologies + d,
           d = Is(r \in CountedRuns') - Is(r \in CountedRuns)
    PROVE  TopologiesOK'
<1>1. /\ IsFiniteSet(CountedRuns) /\ IsFiniteSet(CountedWorkers)
      /\ topologies = Cardinality(CountedRuns) + Cardinality(CountedWorkers)
  BY DEF IInv, TopologiesOK
<1>2. c \in Actor /\ c \notin Worker /\ Nobody \notin Run /\ \A x \in Client \cup Worker : x \in Actor
  BY Types DEF IInv, Actor
<1>3. CountedWorkers' = CountedWorkers BY <1>2 DEF CountedWorkers, Acts
<1>4. \A q : q # r => (q \in CountedRuns <=> q \in CountedRuns')
  <2>1. \A e \in Client, q \in Run : q # r => (cur'[e] = q /\ pc'[e] \in Entry \ {"count"} <=>
                                              cur[e] = q /\ pc[e] \in Entry \ {"count"})
    BY <1>2 DEF Acts
  <2> QED BY <2>1 DEF CountedRuns
<1>5. PICK S, T : S = CountedRuns /\ T = CountedRuns' OBVIOUS
<1>6. IsFiniteSet(T) /\ Cardinality(T) + Is(r \in S) = Cardinality(S) + Is(r \in T)
      /\ Cardinality(S) \in Nat /\ Cardinality(T) \in Nat BY <1>1, <1>4, <1>5, OneMember
<1>7. Cardinality(CountedWorkers) \in Nat BY <1>1, FS_CardinalityType
<1>8. topologies' = Cardinality(T) + Cardinality(CountedWorkers) BY <1>1, <1>5, <1>6, <1>7 DEF Is
<1> QED BY <1>1, <1>3, <1>5, <1>6, <1>8 DEF TopologiesOK

\* A step of a worker changes whether the worker is counted, and nothing else.
LEMMA WorkerCounts ==
    ASSUME IInv, NEW w \in Worker, NEW r \in Run, Acts(w, r), \A q \in Run : Queued(q)' <=> Queued(q),
           NEW d \in Int, topologies' = topologies + d,
           d = Is(w \in CountedWorkers') - Is(w \in CountedWorkers)
    PROVE  TopologiesOK'
<1>1. /\ IsFiniteSet(CountedRuns) /\ IsFiniteSet(CountedWorkers)
      /\ topologies = Cardinality(CountedRuns) + Cardinality(CountedWorkers)
  BY DEF IInv, TopologiesOK
<1>2. w \in Actor /\ w \notin Client /\ Nobody \notin Run /\ \A x \in Client \cup Worker : x \in Actor
  BY Types DEF IInv, Actor
<1>3. CountedRuns' = CountedRuns BY <1>2 DEF CountedRuns, Acts
<1>4. \A v : v # w => (v \in CountedWorkers <=> v \in CountedWorkers')
  BY <1>2 DEF CountedWorkers, Acts
<1>5. PICK S, T : S = CountedWorkers /\ T = CountedWorkers' OBVIOUS
<1>6. IsFiniteSet(T) /\ Cardinality(T) + Is(w \in S) = Cardinality(S) + Is(w \in T)
      /\ Cardinality(S) \in Nat /\ Cardinality(T) \in Nat BY <1>1, <1>4, <1>5, OneMember
<1>7. Cardinality(CountedRuns) \in Nat BY <1>1, FS_CardinalityType
<1>8. topologies' = Cardinality(CountedRuns) + Cardinality(T) BY <1>1, <1>5, <1>6, <1>7 DEF Is
<1> QED BY <1>1, <1>3, <1>5, <1>6, <1>8 DEF TopologiesOK

\* What is counted is there to be discounted.
LEMMA Positive ==
    ASSUME IInv, (\E r : r \in CountedRuns) \/ (\E w : w \in CountedWorkers)
    PROVE  topologies - 1 \in Nat
<1>1. PICK S, T : S = CountedRuns /\ T = CountedWorkers OBVIOUS
<1>2. IsFiniteSet(S) /\ IsFiniteSet(T) /\ topologies = Cardinality(S) + Cardinality(T)
      /\ ((\E r : r \in S) \/ (\E w : w \in T)) BY <1>1 DEF IInv, TopologiesOK
<1>3. Cardinality(S) \in Nat /\ Cardinality(T) \in Nat /\ (Cardinality(S) # 0 \/ Cardinality(T) # 0)
  BY <1>2, FS_CardinalityType, FS_EmptySet
<1> QED BY <1>2, <1>3

\* The invariant is kept when a client counts its run.
LEMMA CountInvariant ==
    ASSUME IInv, NEW c \in Client, Count(c)
    PROVE  IInv'
<1>1. pc[c] = "count" /\ pc[c] \in Entry /\ TypeOK /\ c \in Actor /\ c \notin Worker
  BY Types DEF Count, Entry, IInv
<1>2. PICK r \in Run, s \in Topology :
         cur[c] = r /\ s = tpg[r] /\ EntryOK(c, r) /\ RunOK(r) /\ flowOf[r] \in Flow BY <1>1, Enters
<1>3. PICK l \in Entry : l = "check" BY DEF Entry
<1>4. /\ tpg' = [tpg EXCEPT ![r] = s] /\ pc' = [pc EXCEPT ![c] = l] /\ topologies' = topologies + 1
      /\ UNCHANGED <<queue, mutex, owned, destroyed, graphVars, cur>> /\ sleeping' = sleeping
  BY <1>1, <1>2, <1>3 DEF Count, Goto, IncrementTopology, TypeOK
<1>5. pc'[c] = l /\ tpg'[r] = s => EntryOK(c, r)'
  <2>1. Entered(r)' <=> Entered(r) BY <1>4, SameQueues
  <2> QED BY <1>1, <1>2, <1>3, <1>4, <2>1 DEF EntryOK, graphVars
<1>6. KeepsRun(s, s) /\ (pc'[c] = l /\ tpg'[r] = s /\ s.promise # s.promise => PromiseTrue(r)')
  BY DEF KeepsRun
<1>7. topologies' \in Nat /\ sleeping' \in SUBSET Client BY <1>1, <1>4 DEF TypeOK
<1>8. ASSUME pc'[c] = l, cur'[c] = r, Acts(c, r) PROVE TopologiesOK'
  <2>1. \A q \in Run : Queued(q)' <=> Queued(q) BY <1>4, SameQueues
  <2>2. r \notin CountedRuns
    <3>1. ~Queued(r) BY <1>1, <1>2, QueueFacts DEF EntryOK, IInv
    <3>2. ASSUME NEW e \in Client, cur[e] = r, pc[e] \in Entry \ {"count"} PROVE FALSE
      <4>1. Alone(c, e, r) /\ e \in Actor BY <1>1, Types DEF IInv, Alones
      <4> QED BY <1>1, <1>2, <3>2, <4>1 DEF Alone
    <3> QED BY <3>1, <3>2 DEF CountedRuns
  <2>3. r \in CountedRuns' BY <1>3, <1>8 DEF CountedRuns
  <2>4. Is(r \in CountedRuns') - Is(r \in CountedRuns) = 1 BY <2>2, <2>3 DEF Is
  <2> QED BY <1>2, <1>4, <1>8, <2>1, <2>4, ClientCounts
<1> QED BY <1>1, <1>2, <1>4, <1>5, <1>6, <1>7, <1>8, EntryStep

\* The invariant is kept when a client is done with a run that had nothing to do.
LEMMA DummyDecrementInvariant ==
    ASSUME IInv, NEW c \in Client, DummyDecrement(c)
    PROVE  IInv'
<1>1. pc[c] = "dummyDecrement" /\ pc[c] \in Entry /\ TypeOK /\ c \in Actor /\ c \notin Worker /\ Queues
      /\ Nobody \notin Run BY Types DEF DummyDecrement, Entry, IInv
<1>2. PICK r \in Run, s \in Topology :
         cur[c] = r /\ s = tpg[r] /\ EntryOK(c, r) /\ RunOK(r) /\ flowOf[r] \in Flow BY <1>1, Enters
<1>3. /\ ~Entered(r) /\ ~Queued(r) /\ ~Front(r) /\ Clean(s) /\ s.promise # "pending"
  BY <1>1, <1>2, QueueFacts DEF EntryOK
<1>4. r \in CountedRuns BY <1>1, <1>2 DEF CountedRuns
<1>5. topologies' = topologies - 1 /\ topologies' \in Nat /\ sleeping' \in SUBSET Client
  BY <1>1, <1>4, Positive DEF DummyDecrement, DecrementTopology, TypeOK
<1>6. /\ tpg' = [tpg EXCEPT ![r] = s] /\ pc' = [pc EXCEPT ![c] = "idle"] /\ cur' = [cur EXCEPT ![c] = Nobody]
      /\ UNCHANGED <<queue, mutex, owned, destroyed, graphVars>>
  BY <1>1, <1>2 DEF DummyDecrement, Retired, Goto, TypeOK
<1>7. TypeOK' /\ pc'[c] = "idle" /\ cur'[c] = Nobody /\ tpg'[r] = s /\ Acts(c, r)
  <2>1. /\ queue' \in [Flow -> Seq(Run)] /\ submitted' \in [Flow -> Seq(Run)]
        /\ mutex' \in [Flow -> Actor \cup {Nobody}] BY <1>1, <1>6 DEF TypeOK, graphVars
  <2>2. cur[c] \in {r, Nobody} /\ Nobody \in {r, Nobody} /\ Nobody \in Run \cup {Nobody}
        /\ "idle" \in ClientPC \cup WorkerPC BY <1>2 DEF ClientPC
  <2>3. UNCHANGED <<owned, destroyed, flowOf, repeat>> BY <1>6 DEF graphVars
  <2>4. PICK l \in ClientPC \cup WorkerPC, v \in Run \cup {Nobody} : l = "idle" /\ v = Nobody
    BY <2>2
  <2>5. /\ tpg' = [tpg EXCEPT ![r] = s] /\ pc' = [pc EXCEPT ![c] = l] /\ cur' = [cur EXCEPT ![c] = v]
        /\ v \in {r, Nobody} BY <1>6, <2>2, <2>4
  <2>6. TypeOK' /\ pc'[c] = l /\ cur'[c] = v /\ tpg'[r] = s
    BY <1>1, <1>5, <2>1, <2>3, <2>5, TypeStep
  <2>7. Acts(c, r) BY <1>1, <1>5, <2>1, <2>2, <2>3, <2>5, TypeStep
  <2> QED BY <2>4, <2>6, <2>7
<1>8. /\ \A q \in Run : Queued(q)' <=> Queued(q)
      /\ ~Entered(r)' /\ ~Queued(r)' /\ ~Front(r)' BY <1>3, <1>6, SameQueues
<1>9. RunOK(r)'
  <2>1. flowOf'[r] # Nobody BY <1>1, <1>2, <1>6, Types DEF graphVars
  <2>2. Fresh(r)' BY <1>3, <1>7, <2>1 DEF Fresh
  <2>3. PromiseTrue(r)'
    <3>1. PromiseTrue(r) BY <1>2, <1>3 DEF RunOK
    <3> QED BY <1>2, <1>6, <1>7, <3>1 DEF PromiseTrue, Complete, Due, Size, graphVars
  <2>4. ~s.raised BY <1>3 DEF Clean
  <2> QED BY <1>7, <1>8, <2>2, <2>3, <2>4 DEF RunOK, Waiting, InFront, Over
<1>10. ThreadOK(c)'
  <2>1. "idle" \in ClientPC BY DEF ClientPC
  <2> QED BY <1>1, <1>7, <2>1 DEF ThreadOK
<1>11. \A b \in Actor \ {c} : cur[b] # r BY <1>1, <1>2, <1>3, Companions
<1>12. TopologiesOK'
  <2>1. r \notin CountedRuns'
    <3>1. \A e \in Client : cur'[e] # r BY <1>1, <1>7, <1>11 DEF Acts, Actor
    <3> QED BY <1>8, <3>1 DEF CountedRuns
  <2>2. Is(r \in CountedRuns') - Is(r \in CountedRuns) = -1 /\ topologies' = topologies + (-1)
    BY <1>1, <1>4, <1>5, <2>1 DEF Is, TypeOK
  <2>3. -1 \in Int OBVIOUS
  <2> QED BY <1>7, <1>8, <2>2, <2>3, ClientCounts
<1>13. UNCHANGED <<queue, owned, destroyed, graphVars>> /\ (\A g \in Flow : mutex'[g] = mutex[g])
       /\ cur'[c] # r /\ (tpg[r].promise # "pending" => tpg'[r].promise # "pending")
  BY <1>1, <1>2, <1>6, <1>7
<1> QED BY <1>1, <1>2, <1>7, <1>9, <1>10, <1>11, <1>12, <1>13, LocalRest

\* The invariant is kept when a worker discounts its run and goes on with the next.
LEMMA DecrementNextInvariant ==
    ASSUME IInv, NEW w \in Worker, DecrementNext(w)
    PROVE  IInv'
<1>1. pc[w] = "decrementNext" /\ pc[w] \in Charge /\ TypeOK /\ w \in Actor /\ w \notin Client
  BY Types DEF DecrementNext, Charge, Leading, IInv
<1>2. PICK r \in Run, s \in Topology :
         cur[w] = r /\ s = tpg[r] /\ LeadOK(w, r) /\ RunOK(r) /\ flowOf[r] \in Flow BY <1>1, Leads
<1>3. PICK l \in Charge : l = "setUp" BY DEF Charge, Leading
<1>4. w \in CountedWorkers BY <1>1 DEF CountedWorkers
<1>5. topologies' = topologies - 1 /\ topologies' \in Nat /\ sleeping' \in SUBSET Client
  BY <1>1, <1>4, Positive DEF DecrementNext, DecrementTopology, TypeOK
<1>6. /\ tpg' = [tpg EXCEPT ![r] = s] /\ pc' = [pc EXCEPT ![w] = l]
      /\ UNCHANGED <<queue, mutex, owned, destroyed, graphVars, cur>>
  BY <1>1, <1>2, <1>3 DEF DecrementNext, Goto, TypeOK
<1>7. ASSUME pc'[w] = l, tpg'[r] = s PROVE LeadOK(w, r)'
  BY <1>1, <1>2, <1>3, <1>6, <1>7, WorkKept, SameQueues DEF LeadOK, Leading, Last
<1>8. LockStep(w, flowOf[r], l) /\ KeepsRun(s, s) /\ l \in WorkerPC
  BY <1>1, <1>3, <1>6 DEF LockStep, KeepsRun, Locking, WorkerPC
<1>9. ASSUME pc'[w] = l, cur'[w] = r, Acts(w, r) PROVE TopologiesOK'
  <2>1. \A q \in Run : Queued(q)' <=> Queued(q) BY <1>6, SameQueues
  <2>2. w \notin CountedWorkers' BY <1>3, <1>9 DEF CountedWorkers
  <2>3. Is(w \in CountedWorkers') - Is(w \in CountedWorkers) = -1 /\ topologies' = topologies + (-1)
    BY <1>1, <1>4, <1>5, <2>2 DEF Is, TypeOK
  <2>4. -1 \in Int OBVIOUS
  <2> QED BY <1>9, <2>1, <2>3, <2>4, WorkerCounts
<1>10. pc'[w] = l /\ tpg'[r] = s /\ s.promise # s.promise => PromiseTrue(r)' OBVIOUS
<1> QED BY <1>1, <1>2, <1>5, <1>6, <1>7, <1>8, <1>9, <1>10, LeadRest

\* The invariant is kept when a worker discounts the last run of a taskflow.
LEMMA DecrementLastInvariant ==
    ASSUME IInv, NEW w \in Worker, DecrementLast(w)
    PROVE  IInv'
<1>1. pc[w] = "decrementLast" /\ pc[w] \in Charge /\ TypeOK /\ w \in Actor /\ w \notin Client
  BY Types DEF DecrementLast, Charge, Last, IInv
<1>2. PICK r \in Run, s \in Topology :
         cur[w] = r /\ s = tpg[r] /\ LeadOK(w, r) /\ RunOK(r) /\ flowOf[r] \in Flow BY <1>1, Leads
<1>3. PICK l \in Charge : l = "erase" BY DEF Charge, Last
<1>4. w \in CountedWorkers BY <1>1 DEF CountedWorkers
<1>5. topologies' = topologies - 1 /\ topologies' \in Nat /\ sleeping' \in SUBSET Client
  BY <1>1, <1>4, Positive DEF DecrementLast, DecrementTopology, TypeOK
<1>6. /\ tpg' = [tpg EXCEPT ![r] = s] /\ pc' = [pc EXCEPT ![w] = l]
      /\ UNCHANGED <<queue, mutex, owned, destroyed, graphVars, cur>>
  BY <1>1, <1>2, <1>3 DEF DecrementLast, Goto, TypeOK
<1>7. ASSUME pc'[w] = l, tpg'[r] = s PROVE LeadOK(w, r)'
  BY <1>1, <1>2, <1>3, <1>6, <1>7, WorkKept, SameQueues DEF LeadOK, Leading, Last
<1>8. LockStep(w, flowOf[r], l) /\ KeepsRun(s, s) /\ l \in WorkerPC
  BY <1>1, <1>3, <1>6 DEF LockStep, KeepsRun, Locking, WorkerPC
<1>9. ASSUME pc'[w] = l, cur'[w] = r, Acts(w, r) PROVE TopologiesOK'
  <2>1. \A q \in Run : Queued(q)' <=> Queued(q) BY <1>6, SameQueues
  <2>2. w \notin CountedWorkers' BY <1>3, <1>9 DEF CountedWorkers
  <2>3. Is(w \in CountedWorkers') - Is(w \in CountedWorkers) = -1 /\ topologies' = topologies + (-1)
    BY <1>1, <1>4, <1>5, <2>2 DEF Is, TypeOK
  <2>4. -1 \in Int OBVIOUS
  <2> QED BY <1>9, <2>1, <2>3, <2>4, WorkerCounts
<1>10. pc'[w] = l /\ tpg'[r] = s /\ s.promise # s.promise => PromiseTrue(r)' OBVIOUS
<1> QED BY <1>1, <1>2, <1>5, <1>6, <1>7, <1>8, <1>9, <1>10, LeadRest

-----------------------------------------------------------------------------
(* Runs that leave the queue of their taskflow.                              *)

\* The tail of a queue without repetition.
LEMMA Tails ==
    ASSUME NEW s \in Seq(Run), s # <<>>
    PROVE  /\ Tail(s) \in Seq(Run) /\ Len(s) \in Nat /\ Len(s) > 0 /\ Len(Tail(s)) = Len(s) - 1
           /\ \A k \in 1 .. Len(Tail(s)) : k + 1 \in 1 .. Len(s) /\ Tail(s)[k] = s[k + 1]
           /\ \A k \in 1 .. Len(s) : k = 1 \/ k - 1 \in 1 .. Len(Tail(s))
           /\ Head(s) = s[1] /\ 1 \in 1 .. Len(s)
           /\ Tail(s) # <<>> <=> Len(s) > 1
           /\ Len(s) > 1 => Head(Tail(s)) = s[2] /\ s[2] \in Run /\ 2 \in 1 .. Len(s)
<1>1. PICK n \in Nat, t \in Seq(Run) : n = Len(s) /\ t = Tail(s)
  <2>1. Len(s) \in Nat OBVIOUS
  <2>2. Tail(s) \in Seq(Run) OBVIOUS
  <2> QED BY <2>1, <2>2
<1>2. n > 0 /\ Len(t) = n - 1 /\ Head(s) = s[1] BY <1>1
<1>3. \A k \in 1 .. n - 1 : t[k] = s[k + 1] BY <1>1
<1>4. /\ \A k \in 1 .. n - 1 : k + 1 \in 1 .. n
      /\ \A k \in 1 .. n : k = 1 \/ k - 1 \in 1 .. n - 1
      /\ 1 \in 1 .. n
      /\ n > 1 => 2 \in 1 .. n /\ 1 \in 1 .. n - 1 BY <1>2
<1>5. t # <<>> <=> n > 1 BY <1>1, <1>2
<1>6. n > 1 => Head(t) = t[1] /\ t[1] = s[2] /\ s[2] \in Run BY <1>1, <1>2, <1>3, <1>4, <1>5
<1> QED BY <1>1, <1>2, <1>3, <1>4, <1>5, <1>6

\* No run is twice in a queue.
LEMMA Distinct ==
    ASSUME TypeOK, Queues, NEW f \in Flow
    PROVE  /\ \A i, j \in 1 .. Len(queue[f]) : queue[f][i] = queue[f][j] => i = j
           /\ \A i \in 1 .. Len(queue[f]) : flowOf[queue[f][i]] = f
<1>1. PICK s \in Seq(Run), u \in Seq(Run) : s = queue[f] /\ u = submitted[f] BY Types
<1>2. PICK n \in Nat, m \in Nat : n = Len(s) /\ m = Len(u) /\ n <= m
  <2>1. Len(s) \in Nat /\ Len(u) \in Nat OBVIOUS
  <2>2. Len(s) <= Len(u) BY <1>1 DEF Queues, QueueOK
  <2> QED BY <2>1, <2>2
<1>3. \A k \in 1 .. n : s[k] = u[m - n + k] BY <1>1, <1>2 DEF Queues, QueueOK
<1>4. /\ \A i \in 1 .. m : flowOf[u[i]] = f
      /\ \A i, j \in 1 .. m : u[i] = u[j] => i = j BY <1>1, <1>2 DEF Queues, QueueOK
<1>5. \A k \in 1 .. n : m - n + k \in 1 .. m BY <1>2
<1>6. ASSUME NEW i \in 1 .. n, NEW j \in 1 .. n, s[i] = s[j] PROVE i = j
  <2>1. m - n + i = m - n + j BY <1>3, <1>4, <1>5, <1>6
  <2> QED BY <1>2, <2>1
<1>7. ASSUME NEW i \in 1 .. n PROVE flowOf[s[i]] = f
  <2>1. s[i] = u[m - n + i] /\ m - n + i \in 1 .. m BY <1>3, <1>5
  <2> QED BY <1>4, <2>1
<1> QED BY <1>1, <1>2, <1>6, <1>7

\* The front of a queue leaves it.
LEMMA Popped ==
    ASSUME TypeOK, Queues, NEW r \in Run, Front(r),
           queue' = [queue EXCEPT ![flowOf[r]] = Tail(@)], flowOf' = flowOf, submitted' = submitted
    PROVE  /\ queue' \in [Flow -> Seq(Run)] /\ Queues'
           /\ \A x \in Run : /\ Entered(x)' <=> Entered(x)
                             /\ Queued(x)' <=> Queued(x) /\ x # r
                             /\ flowOf[x] # flowOf[r] =>
                                  (Front(x)' <=> Front(x)) /\ Len(queue[flowOf[x]])' = Len(queue[flowOf[x]])
                             /\ flowOf[x] = flowOf[r] =>
                                  /\ Front(x)' <=> Len(queue[flowOf[r]]) > 1 /\ x = queue[flowOf[r]][2]
                                  /\ Front(x) <=> x = r
           /\ Len(queue[flowOf[r]]) > 1 =>
                /\ queue[flowOf[r]][2] \in Run \ {r} /\ Queued(queue[flowOf[r]][2])
                /\ flowOf[queue[flowOf[r]][2]] = flowOf[r]
                /\ Head(queue'[flowOf[r]]) = queue[flowOf[r]][2]
<1>1. PICK f \in Flow, s \in Seq(Run) : f = flowOf[r] /\ s = queue[f] /\ s # <<>> /\ Head(s) = r
  BY Types DEF Front
<1>2. PICK t \in Seq(Run) : t = Tail(s) BY <1>1, Tails
<1>3. queue' = [queue EXCEPT ![f] = t] /\ queue \in [Flow -> Seq(Run)] BY <1>1, <1>2 DEF TypeOK
<1>4. queue'[f] = t /\ \A g \in Flow : g # f => queue'[g] = queue[g] BY <1>3
<1>5. PICK n \in Nat : n = Len(s) /\ n > 0 /\ Len(t) = n - 1 BY <1>1, <1>2, Tails
<1>6. /\ \A k \in 1 .. n - 1 : k + 1 \in 1 .. n /\ t[k] = s[k + 1]
      /\ \A k \in 1 .. n : k = 1 \/ k - 1 \in 1 .. n - 1
      /\ r = s[1] /\ 1 \in 1 .. n
      /\ t # <<>> <=> n > 1
      /\ n > 1 => Head(t) = s[2] /\ s[2] \in Run /\ 2 \in 1 .. n
  BY SMTT(30), <1>1, <1>2, <1>5, Tails
<1>7. /\ \A i, j \in 1 .. n : s[i] = s[j] => i = j
      /\ \A i \in 1 .. n : flowOf[s[i]] = f BY <1>1, <1>5, Distinct
<1>8. \A x : In(t, x) <=> In(s, x) /\ x # r
  <2>1. ASSUME NEW x, In(t, x) PROVE In(s, x) /\ x # r
    <3>1. PICK k \in 1 .. n - 1 : t[k] = x BY <1>5, <2>1 DEF In
    <3>2. k + 1 \in 1 .. n /\ s[k + 1] = x /\ k + 1 # 1 BY <1>6, <3>1
    <3> QED BY <1>5, <1>6, <1>7, <3>2 DEF In
  <2>2. ASSUME NEW x, In(s, x), x # r PROVE In(t, x)
    <3>1. PICK k \in 1 .. n : s[k] = x BY <1>5, <2>2 DEF In
    <3>2. k - 1 \in 1 .. n - 1 /\ k - 1 + 1 = k BY <1>6, <2>2, <3>1
    <3>3. t[k - 1] = x BY <1>6, <3>1, <3>2
    <3> QED BY <1>5, <3>2, <3>3 DEF In
  <2> QED BY <2>1, <2>2
<1>9. ASSUME NEW x \in Run
      PROVE  /\ Entered(x)' <=> Entered(x)
             /\ Queued(x)' <=> Queued(x) /\ x # r
             /\ flowOf[x] # f => (Front(x)' <=> Front(x)) /\ Len(queue[flowOf[x]])' = Len(queue[flowOf[x]])
             /\ flowOf[x] = f => /\ Front(x)' <=> n > 1 /\ x = s[2]
                                 /\ Front(x) <=> x = r
  <2>1. flowOf[x] \in Flow \cup {Nobody} /\ Nobody \notin Flow BY Types
  <2>2. Entered(x)' <=> Entered(x) BY DEF Entered
  <2>3. CASE flowOf[x] = f
    <3>1. Queued(x)' <=> Queued(x) /\ x # r BY <1>1, <1>4, <1>8, <2>3 DEF Queued
    <3>2. Front(x)' <=> n > 1 /\ x = s[2] BY <1>4, <1>6, <2>3 DEF Front
    <3>3. Front(x) <=> x = r BY <1>1, <2>3 DEF Front
    <3> QED BY <2>2, <2>3, <3>1, <3>2, <3>3
  <2>4. CASE flowOf[x] # f
    <3>1. (Queued(x)' <=> Queued(x)) /\ (Front(x)' <=> Front(x)) /\ x # r
      BY <1>1, <1>4, <2>4 DEF Queued, Front
    <3>2. Len(queue[flowOf[x]])' = Len(queue[flowOf[x]])
      <4>1. CASE flowOf[x] \in Flow BY <1>4, <2>4, <4>1
      <4>2. CASE flowOf[x] \notin Flow BY <1>3, <4>2, <2>1, <2>4
      <4> QED BY <4>1, <4>2
    <3> QED BY <2>2, <2>4, <3>1, <3>2
  <2> QED BY <2>3, <2>4
<1>10. ASSUME n > 1 PROVE s[2] \in Run \ {r} /\ Queued(s[2]) /\ flowOf[s[2]] = f /\ Head(queue'[f]) = s[2]
  <2>1. s[2] \in Run /\ 2 \in 1 .. n /\ s[2] # r BY <1>6, <1>7, <1>10
  <2> QED BY <1>1, <1>4, <1>5, <1>6, <1>7, <1>10, <2>1 DEF Queued, In
<1>11. Queues'
  <2>1. ASSUME NEW g \in Flow PROVE QueueOK(g)'
    <3>1. QueueOK(g) BY DEF Queues
    <3>2. CASE g # f BY <1>4, <3>1, <3>2 DEF QueueOK
    <3>3. CASE g = f
      <4>1. PICK u \in Seq(Run), m \in Nat : u = submitted[f] /\ m = Len(u) BY Types
      <4>2. /\ n <= m
            /\ \A k \in 1 .. n : s[k] = u[m - n + k]
            /\ \A i \in 1 .. m : flowOf[u[i]] = f
            /\ \A i, j \in 1 .. m : u[i] = u[j] => i = j
        BY ZenonT(60), <1>1, <1>5, <3>1, <3>3, <4>1 DEF QueueOK
      <4>3. ASSUME NEW k \in 1 .. n - 1 PROVE t[k] = u[m - (n - 1) + k]
        <5>1. k + 1 \in 1 .. n /\ m - n + (k + 1) = m - (n - 1) + k BY SMTT(30)
        <5>2. t[k] = s[k + 1] BY SMTT(30), <1>6
        <5> QED BY SMTT(30), <4>2, <5>1, <5>2
      <4>4. n - 1 <= m BY <4>2
      <4>5. queue'[g] = t /\ submitted'[g] = u /\ flowOf' = flowOf /\ Len(t) = n - 1 /\ Len(u) = m
        BY <1>4, <1>5, <3>3, <4>1
      <4>6. Len(queue'[g]) = n - 1 /\ Len(submitted'[g]) = m BY <4>5
      <4>7. \A k \in 1 .. Len(queue'[g]) :
               queue'[g][k] = submitted'[g][Len(submitted'[g]) - Len(queue'[g]) + k]
        BY <4>3, <4>5, <4>6
      <4>8. \A i \in 1 .. Len(submitted'[g]) : flowOf'[submitted'[g][i]] = g
        BY <3>3, <4>2, <4>5, <4>6
      <4>9. \A i, j \in 1 .. Len(submitted'[g]) : submitted'[g][i] = submitted'[g][j] => i = j
        BY <4>2, <4>5, <4>6
      <4> QED BY <4>4, <4>6, <4>7, <4>8, <4>9 DEF QueueOK
    <3> QED BY <3>2, <3>3
  <2> QED BY <2>1 DEF Queues
<1>12. queue' \in [Flow -> Seq(Run)] BY <1>3
<1> QED BY <1>1, <1>5, <1>9, <1>10, <1>11, <1>12

\* When a run leaves a queue, the worker that took it out is counted instead.
LEMMA Exchanged ==
    ASSUME IInv, NEW w \in Worker, NEW r \in Run, topologies' = topologies,
           Queued(r), \A q \in Run : Queued(q)' <=> Queued(q) /\ q # r,
           \A b \in Actor \ {w} : pc'[b] = pc[b] /\ cur'[b] = cur[b] /\ cur[b] # r,
           w \notin CountedWorkers, w \in CountedWorkers'
    PROVE  TopologiesOK'
<1>1. /\ IsFiniteSet(CountedRuns) /\ IsFiniteSet(CountedWorkers)
      /\ topologies = Cardinality(CountedRuns) + Cardinality(CountedWorkers)
  BY DEF IInv, TopologiesOK
<1>2. PICK S, T, U, V : S = CountedRuns /\ T = CountedRuns' /\ U = CountedWorkers /\ V = CountedWorkers'
  OBVIOUS
<1>3. (\A c \in Client : c \in Actor \ {w}) /\ \A v \in Worker : v \in Actor BY Types DEF IInv
<1>4. \A c \in Client : pc'[c] = pc[c] /\ cur'[c] = cur[c] /\ cur[c] # r BY <1>3
<1>5. r \in S /\ r \notin T BY <1>2, <1>4 DEF CountedRuns
<1>6. T = S \ {r} BY <1>2, <1>4 DEF CountedRuns
<1>7. V = U \cup {w} BY <1>2, <1>3 DEF CountedWorkers
<1>8. IsFiniteSet(T) /\ Cardinality(T) = Cardinality(S) - 1 /\ Cardinality(S) \in Nat
  BY <1>1, <1>2, <1>5, <1>6, FS_RemoveElement, FS_CardinalityType
<1>9. IsFiniteSet(V) /\ Cardinality(V) = Cardinality(U) + 1 /\ Cardinality(U) \in Nat
  BY <1>1, <1>2, <1>7, FS_AddElement, FS_CardinalityType
<1>10. topologies' = Cardinality(T) + Cardinality(V) BY <1>1, <1>2, <1>8, <1>9
<1> QED BY <1>2, <1>8, <1>9, <1>10 DEF TopologiesOK

\* The invariant is kept when the last run of a taskflow leaves the queue.
LEMMA TearDownLast ==
    ASSUME IInv, NEW w \in Worker, TearDown(w), ~(Len(queue[flowOf[cur[w]]]) > 1)
    PROVE  IInv'
<1>1. /\ pc[w] = "lock" /\ pc[w] \in Charge /\ TypeOK /\ Queues /\ w \in Actor /\ w \notin Client
      /\ Nobody \notin Run /\ Nobody \notin Actor BY Types DEF TearDown, Charge, Leading, IInv
<1>2. PICK r \in Run, s \in Topology :
         cur[w] = r /\ s = tpg[r] /\ LeadOK(w, r) /\ RunOK(r) /\ flowOf[r] \in Flow BY <1>1, Leads
<1>3. PICK f \in Flow : f = flowOf[r] BY <1>2
<1>4. /\ Front(r) /\ Queued(r) /\ Entered(r) /\ s.calls = 1 /\ s.promise = "pending" /\ s.joinCounter = 0
      /\ Complete(r) /\ s.alive /\ (s.raised <=> s.exception) /\ (s.raised => s.cancelled)
  BY <1>1, <1>2, QueueFacts DEF LeadOK, Leading, RunOK
<1>5. PICK l \in Charge : l = "unlockLast" BY DEF Charge, Last
<1>6. /\ tpg' = [tpg EXCEPT ![r] = s] /\ pc' = [pc EXCEPT ![w] = l] /\ cur' = [cur EXCEPT ![w] = r]
      /\ UNCHANGED <<owned, destroyed, topologies, sleeping, graphVars>>
      /\ mutex[f] = Nobody /\ mutex' = [mutex EXCEPT ![f] = w]
      /\ queue' = [queue EXCEPT ![flowOf[r]] = Tail(@)]
  BY <1>1, <1>2, <1>3, <1>5 DEF TearDown, Goto, Lock, TypeOK
<1>7. flowOf' = flowOf /\ repeat' = repeat /\ submitted' = submitted BY <1>6 DEF graphVars
<1>8. /\ queue' \in [Flow -> Seq(Run)] /\ Queues'
      /\ \A x \in Run : /\ Entered(x)' <=> Entered(x)
                        /\ Queued(x)' <=> Queued(x) /\ x # r
                        /\ flowOf[x] # f => (Front(x)' <=> Front(x)) /\ Len(queue[flowOf[x]])' = Len(queue[flowOf[x]])
                        /\ flowOf[x] = f => ~Front(x)' /\ (Front(x) <=> x = r)
  <2>1. ~(Len(queue[flowOf[r]]) > 1) BY <1>2
  <2> QED BY ZenonT(60), <1>1, <1>3, <1>4, <1>6, <1>7, <2>1, Popped
<1>9. TypeOK' /\ pc'[w] = l /\ cur'[w] = r /\ tpg'[r] = s /\ Acts(w, r)
  <2>1. l \in ClientPC \cup WorkerPC /\ cur[w] \in {r, Nobody} /\ r \in {r, Nobody} /\ r \in Run \cup {Nobody}
    BY <1>2, <1>5 DEF WorkerPC
  <2>2. /\ mutex' \in [Flow -> Actor \cup {Nobody}] /\ topologies' \in Nat /\ sleeping' \in SUBSET Client
        /\ submitted' \in [Flow -> Seq(Run)] /\ UNCHANGED <<owned, destroyed, flowOf, repeat>>
        /\ queue' \in [Flow -> Seq(Run)]
        /\ tpg' = [tpg EXCEPT ![r] = s] /\ pc' = [pc EXCEPT ![w] = l] /\ cur' = [cur EXCEPT ![w] = r]
    BY <1>1, <1>6, <1>7, <1>8 DEF TypeOK
  <2>3. TypeOK' /\ pc'[w] = l /\ cur'[w] = r /\ tpg'[r] = s BY <1>1, <2>1, <2>2, TypeStep
  <2>4. Acts(w, r) BY <1>1, <2>1, <2>2, TypeStep
  <2> QED BY <2>3, <2>4
<1>10. \A b \in Actor \ {w} : cur[b] # r
  <2>1. ASSUME NEW b \in Actor \ {w}, cur[b] = r PROVE FALSE
    <3>1. pc[b] = "unlock" /\ "unlock" \in Locking BY <1>1, <1>2, <2>1, Companions DEF Locking
    <3>2. mutex[f] = b BY <1>3, <2>1, <3>1 DEF IInv, Mutexes
    <3> QED BY <1>1, <1>6, <3>2
  <2> QED BY <2>1
<1>11. Entered(r)' /\ ~Queued(r)' /\ ~Front(r)' BY <1>3, <1>4, <1>8
<1>12. LeadOK(w, r)'
  <2>1. Complete(r)' BY <1>2, <1>4, <1>7, <1>9 DEF Complete, Due, Size
  <2> QED BY <1>4, <1>5, <1>9, <1>11, <2>1 DEF LeadOK, Leading
<1>13. PlaceOK(w, r)' /\ ThreadOK(w)'
  <2>1. l \notin Entry /\ l \notin Round /\ l # "unlock" /\ l # "store" /\ l \in WorkerPC
    BY <1>5 DEF Entry, Round, WorkerPC
  <2>2. PlaceOK(w, r)' BY <1>2, <1>7, <1>9, <1>12, <2>1 DEF PlaceOK
  <2> QED BY <1>1, <1>5, <1>9, <2>1, <2>2 DEF ThreadOK
<1>14. RunOK(r)'
  <2>1. s.ready = 0 BY <1>2, <1>4, BusyFacts
  <2>2. Over(r)' BY <1>4, <1>5, <1>9, <2>1 DEF Over
  <2> QED BY <1>4, <1>9, <1>11, <2>2 DEF RunOK, Fresh, Waiting, InFront
<1>15. Threads' /\ Places' /\ Alones' /\ Runs'
  <2>1. ASSUME NEW q \in Run \ {r}
        PROVE  /\ tpg'[q] = tpg[q] /\ flowOf'[q] = flowOf[q] /\ repeat'[q] = repeat[q]
               /\ Entered(q)' <=> Entered(q)
               /\ Queued(q)' <=> Queued(q)
               /\ Front(q)' <=> Front(q)
               /\ Front(q) /\ Len(queue[flowOf[q]]) > 1 => Len(queue[flowOf[q]])' > 1
    BY <1>3, <1>7, <1>8, <1>9 DEF Acts
  <2>2. /\ cur[w] \in {r, Nobody} /\ cur'[w] \in {r, Nobody}
        /\ \A b \in Actor \ {w} : pc'[b] = pc[b] /\ cur'[b] = cur[b] BY <1>2, <1>9 DEF Acts
  <2> QED BY <1>1, <1>9, <1>10, <1>13, <1>14, <2>1, <2>2, LocalStep
<1>16. Mutexes'
  <2>1. /\ cur'[w] \in {r, Nobody}
        /\ \A b \in Actor \ {w} : pc'[b] = pc[b] /\ cur'[b] = cur[b]
        /\ \A g \in Flow : mutex'[g] # mutex[g] => g = flowOf[r] /\ mutex[g] \in {Nobody, w}
        /\ mutex'[flowOf[r]] = w BY <1>1, <1>3, <1>6, <1>9 DEF Acts, TypeOK
  <2> QED BY <1>1, <1>2, <1>7, <2>1, MutexKept
<1>17. Flows'
  <2>1. \A c \in Client, q \in Run : cur'[c] = q => cur[c] = q BY <1>1, <1>9, Types DEF Acts
  <2>2. \A q \in Run : tpg[q].promise # "pending" => tpg'[q].promise # "pending"
    BY <1>2, <1>9 DEF Acts
  <2> QED BY <1>6, <1>7, <2>1, <2>2, FlowsKept DEF IInv
<1>18. TopologiesOK'
  <2>1. w \notin CountedWorkers /\ w \in CountedWorkers' BY <1>1, <1>5, <1>9 DEF CountedWorkers
  <2>2. \A b \in Actor \ {w} : pc'[b] = pc[b] /\ cur'[b] = cur[b] /\ cur[b] # r
    BY <1>9, <1>10 DEF Acts
  <2> QED BY <1>4, <1>6, <1>8, <2>1, <2>2, Exchanged
<1> QED BY <1>8, <1>9, <1>15, <1>16, <1>17, <1>18 DEF IInv

\* The invariant is kept when a worker finds out whether its run is the last one.
LEMMA TearDownInvariant ==
    ASSUME IInv, NEW w \in Worker, TearDown(w)
    PROVE  IInv'
BY TearDownNext, TearDownLast

\* The invariant is kept when a run is destroyed and the worker turns to the next one.
LEMMA PopNextInvariant ==
    ASSUME IInv, NEW w \in Worker, PopNext(w)
    PROVE  IInv'
<1>1. /\ pc[w] = "popNext" /\ pc[w] \in Charge /\ TypeOK /\ Queues /\ w \in Actor /\ w \notin Client
      /\ Nobody \notin Run /\ Nobody \notin Actor BY Types DEF PopNext, Charge, Leading, IInv
<1>2. PICK r \in Run, s \in Topology :
         cur[w] = r /\ s = tpg[r] /\ LeadOK(w, r) /\ RunOK(r) /\ flowOf[r] \in Flow BY <1>1, Leads
<1>3. PICK f \in Flow : f = flowOf[r] BY <1>2
<1>4. /\ Front(r) /\ Queued(r) /\ Entered(r) /\ s.promise # "pending" /\ s.joinCounter = 0
      /\ Len(queue[f]) > 1 /\ Head(queue[f]) = r
  BY <1>1, <1>2, <1>3, QueueFacts DEF LeadOK, Leading, Front
<1>5. PICK q \in Run \ {r} : q = queue[f][2] BY <1>1, <1>3, <1>4, Types, Tails, Distinct
<1>6. PICK t \in Topology : t = [s EXCEPT !.alive = FALSE] BY DEF Topology
<1>7. /\ queue' = [queue EXCEPT ![flowOf[r]] = Tail(@)]
      /\ tpg' = [tpg EXCEPT ![r] = t] /\ pc' = [pc EXCEPT ![w] = "decrementNext"]
      /\ cur' = [cur EXCEPT ![w] = Head(queue'[f])]
      /\ UNCHANGED <<mutex, owned, destroyed, topologies, sleeping, graphVars>>
      /\ flowOf' = flowOf /\ repeat' = repeat /\ submitted' = submitted
  BY <1>1, <1>2, <1>3, <1>4, <1>6 DEF PopNext, Goto, graphVars
<1>8. /\ queue' \in [Flow -> Seq(Run)] /\ Queues' /\ Queued(q) /\ flowOf[q] = f /\ Head(queue'[f]) = q
      /\ \A x \in Run : /\ Entered(x)' <=> Entered(x)
                        /\ Queued(x)' <=> Queued(x) /\ x # r
                        /\ flowOf[x] # f => (Front(x)' <=> Front(x)) /\ Len(queue[flowOf[x]])' = Len(queue[flowOf[x]])
                        /\ flowOf[x] = f => /\ Front(x)' <=> x = q
                                            /\ Front(x) <=> x = r
  BY ZenonT(60), <1>1, <1>3, <1>4, <1>5, <1>7, Popped
<1>9. /\ TypeOK' /\ pc'[w] = "decrementNext" /\ cur'[w] = q /\ tpg'[r] = t
      /\ \A b \in Actor \ {w} : pc'[b] = pc[b] /\ cur'[b] = cur[b]
      /\ \A x \in Run \ {r} : tpg'[x] = tpg[x]
  <2>1. PICK l \in ClientPC \cup WorkerPC, v \in Run \cup {Nobody} : l = "decrementNext" /\ v = q
    BY DEF WorkerPC
  <2>2. /\ mutex' \in [Flow -> Actor \cup {Nobody}] /\ topologies' \in Nat /\ sleeping' \in SUBSET Client
        /\ submitted' \in [Flow -> Seq(Run)] /\ UNCHANGED <<owned, destroyed, flowOf, repeat>>
        /\ queue' \in [Flow -> Seq(Run)]
        /\ tpg' = [tpg EXCEPT ![r] = t] /\ pc' = [pc EXCEPT ![w] = l] /\ cur' = [cur EXCEPT ![w] = v]
    BY <1>1, <1>7, <1>8, <2>1 DEF TypeOK
  <2>3. TypeOK' /\ pc'[w] = l /\ cur'[w] = v /\ tpg'[r] = t BY <1>1, <2>2, TypeStep
  <2>4. /\ \A b \in Actor \ {w} : pc'[b] = pc[b] /\ cur'[b] = cur[b]
        /\ \A x \in Run \ {r} : tpg'[x] = tpg[x] BY <1>1, <2>2 DEF TypeOK
  <2> QED BY <2>1, <2>3, <2>4
<1>10. /\ t.ready = s.ready /\ t.joinCounter = s.joinCounter /\ t.pred = s.pred /\ t.calls = s.calls
       /\ t.ran = s.ran /\ t.cancelled = s.cancelled /\ t.raised = s.raised /\ t.exception = s.exception
       /\ t.promise = s.promise BY <1>6 DEF Topology
<1>11. mutex[f] = w BY <1>1, <1>2, <1>3 DEF IInv, Mutexes, Locking
<1>12. \A b \in Actor \ {w} : cur[b] # r BY <1>1, <1>2, Companions DEF Locking
<1>13. ~Front(q) /\ Entered(q) BY <1>1, <1>5, <1>8, QueueFacts
<1>14. \A b \in Actor \ {w} : cur[b] # q
  <2>1. ASSUME NEW b \in Actor \ {w}, cur[b] = q PROVE FALSE
    <3>1. PlaceOK(b, q) /\ ThreadOK(b) /\ pc[b] \in ClientPC \cup WorkerPC
      BY <1>1, <2>1, Types DEF IInv, Places, Threads
    <3>2. pc[b] \notin Entry /\ pc[b] \notin Round /\ pc[b] \notin Leading /\ pc[b] \notin Last
      BY <1>8, <1>13, <3>1 DEF PlaceOK, EntryOK, LeadOK, Charge
    <3>3. pc[b] = "unlock" BY <1>1, <2>1, <3>1, <3>2, PlacesApart DEF ThreadOK, Charge
    <3>4. mutex[f] = b BY <1>8, <2>1, <3>3 DEF IInv, Mutexes, Locking
    <3> QED BY <1>11, <3>4
  <2> QED BY <2>1
<1>15. RunOK(q) /\ tpg'[q] = tpg[q] /\ Queued(q)' /\ Front(q)' /\ Entered(q)'
  BY <1>5, <1>8, <1>9, <1>13 DEF IInv, Runs
<1>16. /\ tpg[q].ready = 0 /\ tpg[q].joinCounter = 0 /\ tpg[q].ran = 0 /\ tpg[q].calls = 0
       /\ tpg[q].promise = "pending" /\ ~tpg[q].raised /\ ~tpg[q].exception
       /\ Budget(q, Size(q)) /\ tpg[q].alive BY <1>8, <1>13, <1>15 DEF RunOK, Waiting
<1>17. Threads'
  <2>1. ASSUME NEW b \in Actor PROVE ThreadOK(b)'
    <3>1. ThreadOK(b) BY DEF IInv, Threads
    <3>2. "decrementNext" \in WorkerPC BY DEF WorkerPC
    <3> QED BY <1>1, <1>9, <3>1, <3>2 DEF ThreadOK
  <2> QED BY <2>1 DEF Threads
<1>18. PlaceOK(w, q)'
  <2>1. Budget(q, Size(q))' BY <1>7, <1>15, <1>16, WorkKept
  <2>2. LeadOK(w, q)' BY <1>9, <1>15, <1>16, <2>1 DEF LeadOK, Leading, Last
  <2> QED BY <1>7, <1>8, <1>9, <2>2 DEF PlaceOK, Entry, Round
<1>19. \A x \in Run : x # r /\ x # q => /\ Entered(x)' <=> Entered(x)
                                        /\ Queued(x)' <=> Queued(x)
                                        /\ Front(x)' <=> Front(x)
                                        /\ Front(x) /\ Len(queue[flowOf[x]]) > 1 => Len(queue[flowOf[x]])' > 1
  BY <1>8
<1>20. Places'
  <2>1. ASSUME NEW b \in Actor, NEW x \in Run, cur'[b] = x PROVE PlaceOK(b, x)'
    <3>1. CASE b = w BY <1>9, <1>18, <2>1, <3>1
    <3>2. CASE b # w
      <4>1. cur[b] = x /\ pc'[b] = pc[b] /\ x # r /\ x # q /\ PlaceOK(b, x)
        BY <1>9, <1>12, <1>14, <2>1, <3>2 DEF IInv, Places
      <4> QED BY <1>7, <1>9, <1>19, <4>1, PlaceKept
    <3> QED BY <3>1, <3>2
  <2> QED BY <2>1 DEF Places
<1>21. Alones'
  <2>1. ASSUME NEW b \in Actor, NEW d \in Actor, NEW x \in Run PROVE Alone(b, d, x)'
    <3>1. Alone(b, d, x) BY DEF IInv, Alones
    <3>2. CASE b # w /\ d # w BY <1>9, <3>1, <3>2 DEF Alone
    <3>3. CASE b = w \/ d = w BY <1>9, <1>14, <3>3 DEF Alone
    <3> QED BY <3>2, <3>3
  <2> QED BY <2>1 DEF Alones
<1>22. Mutexes'
  <2>1. ASSUME NEW b \in Actor, NEW x \in Run, cur'[b] = x, pc'[b] \in Locking
        PROVE  mutex'[flowOf'[x]] = b
    <3>1. CASE b = w BY <1>7, <1>8, <1>9, <1>11, <2>1, <3>1
    <3>2. CASE b # w
      <4>1. cur[b] = x /\ pc[b] \in Locking BY <1>9, <2>1, <3>2
      <4> QED BY <1>7, <4>1 DEF IInv, Mutexes
    <3> QED BY <3>1, <3>2
  <2> QED BY <2>1 DEF Mutexes, Locking
<1>23. RunOK(r)'
  <2>1. ~Queued(r)' /\ Entered(r)' /\ ~Front(r)' BY <1>3, <1>4, <1>5, <1>8
  <2>2. s.ready = 0 BY <1>2, <1>4, BusyFacts
  <2>3. PromiseTrue(r) /\ (s.raised => s.cancelled) BY <1>2, <1>4 DEF RunOK
  <2>4. PromiseTrue(r)' BY <1>2, <1>7, <1>9, <1>10, <2>3 DEF PromiseTrue, Complete, Due, Size
  <2>5. Over(r)' BY <1>4, <1>9, <1>10, <2>2, <2>4 DEF Over, PromiseTrue
  <2> QED BY <1>9, <1>10, <2>1, <2>3, <2>4, <2>5 DEF RunOK, Fresh, Waiting, InFront
<1>24. RunOK(q)'
  <2>1. \A v \in Worker : ~(cur'[v] = q /\ pc'[v] \in Round)
    <3>1. "decrementNext" \notin Round /\ \A v \in Worker : v \in Actor BY DEF Round, Actor
    <3> QED BY <1>9, <1>14, <3>1
  <2>2. Busy(q)' = {} BY <2>1 DEF Busy, Round
  <2>3. IsFiniteSet(Busy(q)') /\ Cardinality(Busy(q)') = 0 BY <2>2, FS_EmptySet
  <2>4. InFront(q)' BY <1>15, <1>16, <2>3 DEF InFront
  <2> QED BY <1>15, <1>16, <2>4 DEF RunOK, Fresh, Waiting, Over
<1>25. Runs'
  <2>1. ASSUME NEW x \in Run, x # r, x # q PROVE RunOK(x)'
    <3>1. RunOK(x) BY DEF IInv, Runs
    <3>2. \A b \in Actor : (cur'[b] = x <=> cur[b] = x) /\ (cur[b] = x => pc'[b] = pc[b])
      BY <1>2, <1>9, <2>1
    <3> QED BY <1>7, <1>9, <1>19, <2>1, <3>1, <3>2, RunKept
  <2> QED BY <1>23, <1>24, <2>1 DEF Runs
<1>26. Flows'
  <2>1. \A c \in Client, x \in Run : cur'[c] = x => cur[c] = x BY <1>1, <1>9, Types
  <2>2. \A x \in Run : tpg[x].promise # "pending" => tpg'[x].promise # "pending"
    BY <1>2, <1>9, <1>10
  <2> QED BY <1>7, <2>1, <2>2, FlowsKept DEF IInv
<1>27. TopologiesOK'
  <2>1. w \notin CountedWorkers /\ w \in CountedWorkers' BY <1>1, <1>9 DEF CountedWorkers
  <2>2. \A b \in Actor \ {w} : pc'[b] = pc[b] /\ cur'[b] = cur[b] /\ cur[b] # r BY <1>9, <1>12
  <2> QED BY <1>4, <1>7, <1>8, <2>1, <2>2, Exchanged
<1> QED BY <1>8, <1>9, <1>17, <1>20, <1>21, <1>22, <1>25, <1>26, <1>27 DEF IInv

-----------------------------------------------------------------------------
(* Runs that enter the queue of their taskflow.                              *)

\* A new run is appended to a queue and to what was submitted.
LEMMA Appended ==
    ASSUME TypeOK, Queues, NEW r \in Run, flowOf[r] \in Flow, ~Entered(r),
           queue' = [queue EXCEPT ![flowOf[r]] = Append(@, r)],
           submitted' = [submitted EXCEPT ![flowOf[r]] = Append(@, r)], flowOf' = flowOf
    PROVE  /\ queue' \in [Flow -> Seq(Run)] /\ submitted' \in [Flow -> Seq(Run)] /\ Queues'
           /\ Entered(r)' /\ Queued(r)'
           /\ Front(r)' <=> Len(queue'[flowOf[r]]) = 1
           /\ \A x \in Run \ {r} : /\ Entered(x)' <=> Entered(x)
                                   /\ Queued(x)' <=> Queued(x)
                                   /\ Front(x)' <=> Front(x)
                                   /\ Front(x) /\ Len(queue[flowOf[x]]) > 1 => Len(queue[flowOf[x]])' > 1
<1>1. PICK f \in Flow, s \in Seq(Run), u \in Seq(Run) : f = flowOf[r] /\ s = queue[f] /\ u = submitted[f]
  BY Types
<1>2. PICK n \in Nat, m \in Nat : n = Len(s) /\ m = Len(u)
  <2>1. Len(s) \in Nat /\ Len(u) \in Nat OBVIOUS
  <2> QED BY <2>1
<1>3. PICK t \in Seq(Run), v \in Seq(Run) : t = Append(s, r) /\ v = Append(u, r)
  <2>1. Append(s, r) \in Seq(Run) /\ Append(u, r) \in Seq(Run) OBVIOUS
  <2> QED BY <2>1
<1>4. /\ queue' = [queue EXCEPT ![f] = t] /\ queue \in [Flow -> Seq(Run)]
      /\ submitted' = [submitted EXCEPT ![f] = v] /\ submitted \in [Flow -> Seq(Run)]
  BY <1>1, <1>3 DEF TypeOK
<1>5. /\ queue'[f] = t /\ submitted'[f] = v
      /\ \A g \in Flow : g # f => queue'[g] = queue[g] /\ submitted'[g] = submitted[g] BY <1>4
<1>6. /\ Len(t) = n + 1 /\ t[n + 1] = r /\ \A k \in 1 .. n : t[k] = s[k]
      /\ Len(v) = m + 1 /\ v[m + 1] = r /\ \A k \in 1 .. m : v[k] = u[k] BY <1>2, <1>3
<1>7. /\ n <= m
      /\ \A k \in 1 .. n : s[k] = u[m - n + k]
      /\ \A i \in 1 .. m : flowOf[u[i]] = f
      /\ \A i, j \in 1 .. m : u[i] = u[j] => i = j
  <2>1. QueueOK(f) /\ queue[f] = s /\ submitted[f] = u BY <1>1 DEF Queues
  <2>2. /\ Len(s) <= Len(u)
        /\ \A k \in 1 .. Len(s) : s[k] = u[Len(u) - Len(s) + k]
        /\ \A i \in 1 .. Len(u) : flowOf[u[i]] = f
        /\ \A i, j \in 1 .. Len(u) : u[i] = u[j] => i = j BY <2>1 DEF QueueOK
  <2> QED BY <1>2, <2>2
<1>8. \A i \in 1 .. m : u[i] # r BY <1>1, <1>2 DEF Entered, In
<1>9. /\ \A k \in 1 .. n + 1 : k \in 1 .. n \/ k = n + 1
      /\ \A k \in 1 .. m + 1 : k \in 1 .. m \/ k = m + 1
      /\ \A k \in 1 .. n : k \in 1 .. n + 1
      /\ \A k \in 1 .. m : k \in 1 .. m + 1
      /\ n + 1 \in 1 .. n + 1 /\ m + 1 \in 1 .. m + 1
      /\ \A k \in 1 .. n : m - n + k \in 1 .. m /\ (m + 1) - (n + 1) + k = m - n + k
      /\ (m + 1) - (n + 1) + (n + 1) = m + 1 BY <1>7
<1>10. /\ \A x : In(t, x) <=> In(s, x) \/ x = r
       /\ \A x : In(v, x) <=> In(u, x) \/ x = r
  <2>1. \A x : In(t, x) <=> In(s, x) \/ x = r BY <1>2, <1>6, <1>9 DEF In
  <2>2. \A x : In(v, x) <=> In(u, x) \/ x = r BY <1>2, <1>6, <1>9 DEF In
  <2> QED BY <2>1, <2>2
<1>11. t # <<>> /\ (s # <<>> <=> n > 0) /\ Head(t) = (IF n > 0 THEN Head(s) ELSE r) BY <1>2, <1>3
<1>12. Queues'
  <2>1. ASSUME NEW g \in Flow PROVE QueueOK(g)'
    <3>1. QueueOK(g) BY DEF Queues
    <3>2. CASE g # f BY ZenonT(60), <1>5, <3>1, <3>2 DEF QueueOK
    <3>3. CASE g = f
      <4>1. queue'[g] = t /\ submitted'[g] = v /\ Len(t) = n + 1 /\ Len(v) = m + 1
        BY <1>5, <1>6, <3>3
      <4>2. ASSUME NEW k \in 1 .. n + 1 PROVE t[k] = v[(m + 1) - (n + 1) + k]
        <5>1. CASE k \in 1 .. n
          <6>1. (m + 1) - (n + 1) + k = m - n + k /\ m - n + k \in 1 .. m BY <1>9, <5>1
          <6>2. t[k] = s[k] /\ s[k] = u[m - n + k] BY <1>6, <1>7, <5>1
          <6>3. v[m - n + k] = u[m - n + k] BY <1>6, <6>1
          <6> QED BY <6>1, <6>2, <6>3
        <5>2. CASE k = n + 1
          <6>1. (m + 1) - (n + 1) + k = m + 1 BY <1>9, <5>2
          <6> QED BY <1>6, <5>2, <6>1
        <5> QED BY <1>9, <5>1, <5>2
      <4>3. ASSUME NEW i \in 1 .. m + 1 PROVE flowOf[v[i]] = f
        <5>1. CASE i \in 1 .. m
          <6>1. v[i] = u[i] BY <1>6, <5>1
          <6> QED BY <1>7, <5>1, <6>1
        <5>2. CASE i = m + 1 BY <1>1, <1>6, <5>2
        <5> QED BY <1>9, <5>1, <5>2
      <4>4. ASSUME NEW i \in 1 .. m + 1, NEW j \in 1 .. m + 1, v[i] = v[j] PROVE i = j
        <5>1. CASE i \in 1 .. m /\ j \in 1 .. m
          <6>1. u[i] = u[j] BY <1>6, <4>4, <5>1
          <6> QED BY <1>7, <5>1, <6>1
        <5>2. CASE i \in 1 .. m /\ j = m + 1
          <6>1. v[i] = u[i] /\ u[i] # r /\ v[j] = r BY <1>6, <1>8, <5>2
          <6> QED BY <4>4, <6>1
        <5>3. CASE i = m + 1 /\ j \in 1 .. m
          <6>1. v[j] = u[j] /\ u[j] # r /\ v[i] = r BY <1>6, <1>8, <5>3
          <6> QED BY <4>4, <6>1
        <5>4. CASE i = m + 1 /\ j = m + 1 BY <5>4
        <5>5. (i \in 1 .. m \/ i = m + 1) /\ (j \in 1 .. m \/ j = m + 1) BY <1>9
        <5> QED BY <5>1, <5>2, <5>3, <5>4, <5>5
      <4>5. Len(queue'[g]) = n + 1 /\ Len(submitted'[g]) = m + 1 /\ n + 1 <= m + 1
        <5>1. n <= m BY <1>7
        <5> QED BY SMTT(30), <4>1, <5>1
      <4>6. \A k \in 1 .. Len(queue'[g]) :
               queue'[g][k] = submitted'[g][Len(submitted'[g]) - Len(queue'[g]) + k]
        BY <4>1, <4>2, <4>5
      <4>7. \A i \in 1 .. Len(submitted'[g]) : flowOf'[submitted'[g][i]] = g
        BY <3>3, <4>1, <4>3, <4>5
      <4>8. \A i, j \in 1 .. Len(submitted'[g]) : submitted'[g][i] = submitted'[g][j] => i = j
        <5>1. submitted'[g] = v /\ Len(submitted'[g]) = m + 1 BY <4>1, <4>5
        <5>2. \A i, j \in 1 .. m + 1 : v[i] = v[j] => i = j BY <4>4
        <5> QED BY ZenonT(60), <5>1, <5>2
      <4> QED BY <4>5, <4>6, <4>7, <4>8 DEF QueueOK
    <3> QED BY <3>2, <3>3
  <2> QED BY <2>1 DEF Queues
<1>13. Entered(r)' /\ Queued(r)' BY <1>1, <1>5, <1>10 DEF Entered, Queued
<1>14. Front(r)' <=> Len(queue'[flowOf[r]]) = 1
  <2>1. n > 0 => Head(s) # r
    <3>1. n > 0 => 1 \in 1 .. n /\ Head(s) = s[1] /\ s[1] = u[m - n + 1] /\ m - n + 1 \in 1 .. m
      BY <1>2, <1>7
    <3> QED BY <1>8, <3>1
  <2>2. Front(r)' <=> n = 0 BY SMTT(30), <1>1, <1>5, <1>11, <2>1 DEF Front
  <2>3. Len(queue'[flowOf[r]]) = n + 1 BY <1>1, <1>5, <1>6
  <2>4. n + 1 = 1 <=> n = 0 OBVIOUS
  <2>5. Len(queue'[flowOf[r]]) = 1 <=> n = 0 BY <2>3, <2>4
  <2> QED BY <2>2, <2>5
<1>15. ASSUME NEW x \in Run \ {r}
       PROVE  /\ Entered(x)' <=> Entered(x)
              /\ Queued(x)' <=> Queued(x)
              /\ Front(x)' <=> Front(x)
              /\ Front(x) /\ Len(queue[flowOf[x]]) > 1 => Len(queue[flowOf[x]])' > 1
  <2>1. CASE flowOf[x] = f
    <3>1. (Entered(x)' <=> Entered(x)) /\ (Queued(x)' <=> Queued(x))
      BY <1>1, <1>5, <1>10, <2>1 DEF Entered, Queued
    <3>2. Front(x)' <=> Front(x) BY <1>1, <1>5, <1>11, <2>1 DEF Front
    <3>3. Len(queue[flowOf[x]]) > 1 => Len(queue[flowOf[x]])' > 1 BY <1>1, <1>2, <1>5, <1>6, <2>1
    <3> QED BY <3>1, <3>2, <3>3
  <2>2. CASE flowOf[x] # f BY <1>5, <2>2 DEF Entered, Queued, Front
  <2> QED BY <2>1, <2>2
<1>16. queue' \in [Flow -> Seq(Run)] /\ submitted' \in [Flow -> Seq(Run)] BY <1>4
<1> QED BY <1>12, <1>13, <1>14, <1>15, <1>16

\* The invariant is kept when a client queues its run.
LEMMA EnqueueInvariant ==
    ASSUME IInv, NEW c \in Client, Enqueue(c)
    PROVE  IInv'
<1>1. /\ pc[c] = "enqueue" /\ pc[c] \in Entry /\ TypeOK /\ Queues /\ c \in Actor /\ c \notin Worker
      /\ Nobody \notin Run /\ Nobody \notin Actor BY Types DEF Enqueue, Entry, IInv
<1>2. PICK r \in Run, s \in Topology :
         cur[c] = r /\ s = tpg[r] /\ EntryOK(c, r) /\ RunOK(r) /\ flowOf[r] \in Flow BY <1>1, Enters
<1>3. /\ ~Entered(r) /\ ~Queued(r) /\ Clean(s) /\ s.calls = 0 /\ s.promise = "pending" /\ Budget(r, Size(r))
  BY <1>1, <1>2, QueueFacts DEF EntryOK
<1>4. PICK t \in Topology : t = [s EXCEPT !.alive = TRUE] BY DEF Topology
<1>5. /\ t.ready = 0 /\ t.joinCounter = 0 /\ t.pred = s.pred /\ t.calls = 0
      /\ t.ran = 0 /\ t.cancelled = s.cancelled /\ ~t.raised /\ ~t.exception /\ t.alive
      /\ t.promise = "pending" /\ t.ran = s.ran BY <1>3, <1>4 DEF Topology, Clean
<1>6. PICK l \in {"setUp", "unlock"} : l = IF Len(queue'[flowOf[r]]) = 1 THEN "setUp" ELSE "unlock"
  OBVIOUS
<1>7. /\ tpg' = [tpg EXCEPT ![r] = t] /\ pc' = [pc EXCEPT ![c] = l] /\ cur' = [cur EXCEPT ![c] = r]
      /\ UNCHANGED <<owned, destroyed, topologies, sleeping, flowOf, repeat>>
      /\ mutex[flowOf[r]] = Nobody /\ mutex' = [mutex EXCEPT ![flowOf[r]] = c]
      /\ queue' = [queue EXCEPT ![flowOf[r]] = Append(@, r)]
      /\ submitted' = [submitted EXCEPT ![flowOf[r]] = Append(@, r)]
  BY <1>1, <1>2, <1>4, <1>6 DEF Enqueue, Goto, Lock, TypeOK
<1>8. /\ queue' \in [Flow -> Seq(Run)] /\ submitted' \in [Flow -> Seq(Run)] /\ Queues'
      /\ Entered(r)' /\ Queued(r)'
      /\ Front(r)' <=> Len(queue'[flowOf[r]]) = 1
      /\ \A x \in Run \ {r} : /\ Entered(x)' <=> Entered(x)
                              /\ Queued(x)' <=> Queued(x)
                              /\ Front(x)' <=> Front(x)
                              /\ Front(x) /\ Len(queue[flowOf[x]]) > 1 => Len(queue[flowOf[x]])' > 1
  BY <1>1, <1>2, <1>3, <1>7, Appended
<1>9. TypeOK' /\ pc'[c] = l /\ cur'[c] = r /\ tpg'[r] = t /\ Acts(c, r)
  <2>1. l \in ClientPC \cup WorkerPC /\ cur[c] \in {r, Nobody} /\ r \in {r, Nobody} /\ r \in Run \cup {Nobody}
    BY <1>2 DEF ClientPC
  <2>2. /\ mutex' \in [Flow -> Actor \cup {Nobody}] /\ topologies' \in Nat /\ sleeping' \in SUBSET Client
        /\ queue' \in [Flow -> Seq(Run)] /\ submitted' \in [Flow -> Seq(Run)]
        /\ UNCHANGED <<owned, destroyed, flowOf, repeat>>
        /\ tpg' = [tpg EXCEPT ![r] = t] /\ pc' = [pc EXCEPT ![c] = l] /\ cur' = [cur EXCEPT ![c] = r]
    BY <1>1, <1>7, <1>8 DEF TypeOK
  <2>3. TypeOK' /\ pc'[c] = l /\ cur'[c] = r /\ tpg'[r] = t BY <1>1, <2>1, <2>2, TypeStep
  <2>4. Acts(c, r) BY <1>1, <2>1, <2>2, TypeStep
  <2> QED BY <2>3, <2>4
<1>10. /\ Busy(r) = {} /\ \A b \in Actor \ {c} : cur[b] # r BY <1>1, <1>2, <1>3, Companions
<1>11. Budget(r, Size(r))' BY <1>2, <1>3, <1>5, <1>7, <1>9, WorkKept
<1>12. PlaceOK(c, r)' /\ ThreadOK(c)'
  <2>1. l = "setUp" => LeadOK(c, r)' BY <1>5, <1>6, <1>8, <1>9, <1>11 DEF LeadOK, Last
  <2>2. /\ l \notin Entry /\ l \notin Round /\ l # "store" /\ l \in ClientPC
        /\ l \in Charge => l = "setUp" BY DEF Entry, Round, ClientPC, Charge, Leading, Last
  <2>3. PlaceOK(c, r)' BY <1>2, <1>7, <1>8, <1>9, <2>1, <2>2 DEF PlaceOK
  <2> QED BY <1>1, <1>9, <2>2, <2>3 DEF ThreadOK
<1>13. RunOK(r)'
  <2>1. Busy(r)' = {} BY <1>1, <1>2, <1>9, <1>10, Types DEF Busy, Acts
  <2>2. IsFiniteSet(Busy(r)') /\ Cardinality(Busy(r)') = 0 BY <2>1, FS_EmptySet
  <2>3. InFront(r)' BY <1>5, <1>9, <2>2 DEF InFront
  <2>4. Waiting(r)' BY <1>5, <1>9, <1>11 DEF Waiting
  <2> QED BY <1>5, <1>8, <1>9, <2>3, <2>4 DEF RunOK, Fresh, Over
<1>14. /\ cur[c] \in {r, Nobody} /\ cur'[c] \in {r, Nobody}
       /\ \A b \in Actor \ {c} : pc'[b] = pc[b] /\ cur'[b] = cur[b] BY <1>2, <1>9 DEF Acts
<1>15. Threads' /\ Places' /\ Alones' /\ Runs'
  <2>1. ASSUME NEW q \in Run \ {r}
        PROVE  /\ tpg'[q] = tpg[q] /\ flowOf'[q] = flowOf[q] /\ repeat'[q] = repeat[q]
               /\ Entered(q)' <=> Entered(q)
               /\ Queued(q)' <=> Queued(q)
               /\ Front(q)' <=> Front(q)
               /\ Front(q) /\ Len(queue[flowOf[q]]) > 1 => Len(queue[flowOf[q]])' > 1
    BY <1>7, <1>8, <1>9 DEF Acts
  <2> QED BY <1>1, <1>9, <1>10, <1>12, <1>13, <1>14, <2>1, LocalStep
<1>16. Mutexes'
  <2>1. /\ \A g \in Flow : mutex'[g] # mutex[g] => g = flowOf[r] /\ mutex[g] \in {Nobody, c}
        /\ mutex'[flowOf[r]] = c BY <1>1, <1>2, <1>7 DEF TypeOK
  <2> QED BY <1>1, <1>2, <1>7, <1>14, <2>1, MutexKept
<1>17. Flows'
  <2>1. \A d \in Client, q \in Run : cur'[d] = q => cur[d] = q BY <1>1, <1>2, <1>9, Types DEF Acts
  <2>2. \A q \in Run : tpg[q].promise # "pending" => tpg'[q].promise # "pending"
    BY <1>2, <1>3, <1>9 DEF Acts
  <2> QED BY <1>7, <2>1, <2>2, FlowsKept DEF IInv
<1>18. TopologiesOK'
  <2>1. CountedWorkers' = CountedWorkers BY <1>1, <1>14, Types DEF CountedWorkers
  <2>2. r \in CountedRuns /\ r \in CountedRuns' BY <1>1, <1>2, <1>8 DEF CountedRuns
  <2>3. ASSUME NEW q \in Run \ {r} PROVE q \in CountedRuns <=> q \in CountedRuns'
    <3>1. \A d \in Client : cur'[d] = q /\ pc'[d] \in Entry \ {"count"} <=> cur[d] = q /\ pc[d] \in Entry \ {"count"}
      BY <1>1, <1>2, <1>9, <1>14, Types
    <3> QED BY <1>8, <3>1 DEF CountedRuns
  <2>4. CountedRuns' = CountedRuns BY <2>2, <2>3 DEF CountedRuns
  <2> QED BY <1>7, <2>1, <2>4 DEF IInv, TopologiesOK
<1> QED BY <1>8, <1>9, <1>15, <1>16, <1>17, <1>18 DEF IInv

\* The invariant is kept when a client submits a run.
LEMMA SubmitInvariant ==
    ASSUME IInv, NEW c \in Client, Submit(c)
    PROVE  IInv'
<1>1. /\ TypeOK /\ Queues /\ Flows /\ c \in Actor /\ c \notin Worker
      /\ Nobody \notin Run /\ Nobody \notin Flow /\ Nobody \notin Actor BY Types DEF IInv
<1>2. PICK r \in Run, f \in Flow \ destroyed, n \in Repeats :
         /\ pc[c] = "idle" /\ flowOf[r] = Nobody /\ f \notin owned
         /\ flowOf' = [flowOf EXCEPT ![r] = f]
         /\ repeat' = [repeat EXCEPT ![r] = n]
         /\ tpg' = [tpg EXCEPT ![r].pred = n]
         /\ owned' = owned \cup ({f} \cap Moved)
         /\ cur' = [cur EXCEPT ![c] = r]
         /\ pc' = [pc EXCEPT ![c] = "count"]
         /\ UNCHANGED <<queue, mutex, destroyed, topologies, sleeping, submitted>>
  BY DEF Submit, Own, Goto
<1>3. PICK s \in Topology : s = tpg[r] BY <1>1 DEF TypeOK, Topology
<1>4. n \in Nat /\ n \in Int BY TopologyAssumption
<1>5. PICK t \in Topology : t = [s EXCEPT !.pred = n] BY <1>4 DEF Topology
<1>6. /\ t.ready = s.ready /\ t.joinCounter = s.joinCounter /\ t.pred = n /\ t.calls = s.calls
      /\ t.ran = s.ran /\ t.cancelled = s.cancelled /\ t.raised = s.raised /\ t.exception = s.exception
      /\ t.alive = s.alive /\ t.promise = s.promise BY <1>5 DEF Topology
<1>7. /\ pc'[c] = "count" /\ cur'[c] = r /\ tpg'[r] = t /\ flowOf'[r] = f /\ repeat'[r] = n
      /\ \A b \in Actor \ {c} : pc'[b] = pc[b] /\ cur'[b] = cur[b]
      /\ \A q \in Run \ {r} : tpg'[q] = tpg[q] /\ flowOf'[q] = flowOf[q] /\ repeat'[q] = repeat[q]
  BY <1>1, <1>2, <1>3, <1>5 DEF TypeOK
<1>8. cur[c] = Nobody /\ \A b \in Actor : cur[b] # r
  <2>1. cur[c] = Nobody BY <1>1, <1>2 DEF IInv, Threads, ThreadOK
  <2>2. \A b \in Actor : cur[b] # r BY <1>1, <1>2 DEF IInv, Places, PlaceOK
  <2> QED BY <2>1, <2>2
<1>9. Clean(s) /\ s.promise = "pending" /\ s.calls = 0
  <2>1. ~Entered(r) /\ RunOK(r) BY <1>1, <1>2 DEF Entered, IInv, Runs
  <2> QED BY <1>2, <1>3, <2>1 DEF RunOK, Fresh
<1>10. TypeOK'
  <2>1. tpg' = [tpg EXCEPT ![r] = t] BY <1>1, <1>2, <1>3, <1>5 DEF TypeOK
  <2>2. tpg' \in [Run -> Topology] BY <1>1, <2>1 DEF TypeOK, Topology
  <2>3. pc' \in [Actor -> ClientPC \cup WorkerPC] /\ cur' \in [Actor -> Run \cup {Nobody}]
    BY <1>1, <1>2 DEF TypeOK, ClientPC
  <2>4. flowOf' \in [Run -> Flow \cup {Nobody}] /\ repeat' \in [Run -> Nat] /\ owned' \in SUBSET Moved
    BY <1>1, <1>2, <1>4 DEF TypeOK
  <2> QED BY <1>1, <1>2, <2>2, <2>3, <2>4 DEF TypeOK, Topology
<1>11. ~Entered(r)' /\ ~Queued(r)' /\ ~Front(r)'
  <2>1. \A i \in 1 .. Len(submitted[f]) : submitted[f][i] # r BY <1>1, <1>2 DEF Queues, QueueOK
  <2>2. \A i \in 1 .. Len(queue[f]) : queue[f][i] # r BY <1>1, <1>2, Distinct
  <2>3. queue[f] \in Seq(Run) BY <1>1, Types
  <2>4. queue[f] # <<>> => Head(queue[f]) # r BY <2>2, <2>3, Tails
  <2> QED BY <1>2, <1>7, <2>1, <2>2, <2>4 DEF Entered, Queued, Front, In
<1>12. ASSUME NEW q \in Run \ {r}
       PROVE  /\ tpg'[q] = tpg[q] /\ flowOf'[q] = flowOf[q] /\ repeat'[q] = repeat[q]
              /\ Entered(q)' <=> Entered(q)
              /\ Queued(q)' <=> Queued(q)
              /\ Front(q)' <=> Front(q)
              /\ Front(q) /\ Len(queue[flowOf[q]]) > 1 => Len(queue[flowOf[q]])' > 1
  BY <1>2, <1>7 DEF Entered, Queued, Front
<1>13. \A q \in Run : Queued(q)' <=> Queued(q) BY <1>1, <1>2, <1>11, <1>12 DEF Queued
<1>14. Queues'
  <2>1. ASSUME NEW g \in Flow PROVE QueueOK(g)'
    <3>1. QueueOK(g) /\ submitted[g] \in Seq(Run) BY <1>1, Types DEF Queues
    <3>2. \A i \in 1 .. Len(submitted[g]) : flowOf'[submitted[g][i]] = g
      BY <1>1, <1>2, <1>7, <3>1 DEF QueueOK
    <3> QED BY <1>2, <3>1, <3>2 DEF QueueOK
  <2> QED BY <2>1 DEF Queues
<1>15. PlaceOK(c, r)' /\ ThreadOK(c)'
  <2>1. EntryOK(c, r)' BY <1>6, <1>7, <1>9, <1>11 DEF EntryOK, Clean
  <2>2. "count" \notin Charge /\ "count" \notin Round /\ "count" \in ClientPC
    BY DEF Charge, Leading, Last, Round, ClientPC
  <2>3. PlaceOK(c, r)' BY <1>2, <1>7, <2>1, <2>2 DEF PlaceOK
  <2> QED BY <1>1, <1>7, <2>2, <2>3 DEF ThreadOK
<1>16. RunOK(r)'
  <2>1. Clean(t) BY <1>6, <1>9 DEF Clean
  <2>2. cur'[c] = r /\ pc'[c] \in Entry \ {"dummyDecrement"} BY <1>7 DEF Entry
  <2>3. Fresh(r)' BY <1>1, <1>7, <2>1, <2>2 DEF Fresh
  <2>4. Waiting(r)' /\ InFront(r)' /\ Over(r)' BY <1>11 DEF Waiting, InFront, Over
  <2> QED BY <1>6, <1>7, <1>9, <1>11, <2>1, <2>3, <2>4 DEF RunOK, Clean
<1>17. Threads' /\ Places' /\ Alones' /\ Runs'
  <2>1. cur[c] \in {r, Nobody} /\ cur'[c] \in {r, Nobody} BY <1>7, <1>8
  <2> QED BY <1>1, <1>7, <1>8, <1>10, <1>12, <1>15, <1>16, <2>1, LocalStep
<1>18. Mutexes'
  <2>1. ASSUME NEW a \in Actor, NEW q \in Run, cur'[a] = q, pc'[a] \in Locking PROVE mutex'[flowOf'[q]] = a
    <3>1. a # c BY <1>7, <2>1 DEF Locking
    <3>2. cur[a] = q /\ pc[a] \in Locking /\ q # r BY <1>7, <1>8, <2>1, <3>1
    <3> QED BY <1>2, <1>7, <3>2 DEF IInv, Mutexes
  <2> QED BY <2>1 DEF Mutexes
<1>19. Flows'
  <2>1. ASSUME NEW g \in Flow PROVE FlowOK(g)'
    <3>1. FlowOK(g) BY <1>1 DEF Flows
    <3>2. CASE g # f
      <4>1. ASSUME NEW q \in Run, flowOf'[q] = g PROVE q # r /\ flowOf[q] = g /\ tpg'[q] = tpg[q]
        BY <1>7, <3>2, <4>1
      <4>2. ASSUME NEW d \in Client, NEW q \in Run, cur'[d] = q, flowOf'[q] = g PROVE cur[d] = q
        BY <1>7, <4>1, <4>2 DEF Actor
      <4>3. destroyed' = destroyed /\ owned \subseteq owned' BY <1>2
      <4> QED BY <3>1, <4>1, <4>2, <4>3 DEF FlowOK
    <3>3. CASE g = f
      <4>1. f \notin destroyed /\ f \notin destroyed' BY <1>2
      <4>2. CASE f \in Moved
        <5>1. f \in owned' BY <1>2, <4>2
        <5>2. \A q \in Run : flowOf[q] # f BY <1>2, <3>1, <3>3, <4>2 DEF FlowOK
        <5>3. \A q \in Run : flowOf'[q] = f => q = r BY <1>7, <5>2
        <5> QED BY <3>3, <4>1, <5>1, <5>3 DEF FlowOK
      <4>3. CASE f \notin Moved BY <3>3, <4>1, <4>3 DEF FlowOK
      <4> QED BY <4>2, <4>3
    <3> QED BY <3>2, <3>3
  <2> QED BY <2>1 DEF Flows
<1>20. TopologiesOK'
  <2>1. ASSUME NEW d \in Client, NEW q \in Run
        PROVE  cur'[d] = q /\ pc'[d] \in Entry \ {"count"} <=> cur[d] = q /\ pc[d] \in Entry \ {"count"}
    <3>1. CASE d = c BY <1>1, <1>7, <1>8, <3>1
    <3>2. CASE d # c BY <1>7, <3>2 DEF Actor
    <3> QED BY <3>1, <3>2
  <2>2. ASSUME NEW w \in Worker PROVE pc'[w] = pc[w] BY <1>1, <1>7 DEF Actor
  <2> QED BY <1>2, <1>13, <2>1, <2>2, CountedKept DEF IInv
<1> QED BY <1>10, <1>14, <1>17, <1>18, <1>19, <1>20 DEF IInv

-----------------------------------------------------------------------------
(* Runs and taskflows that end.                                              *)

\* The invariant is kept when a worker destroys the topology and a taskflow that it owns.
LEMMA EraseInvariant ==
    ASSUME IInv, NEW w \in Worker, Erase(w)
    PROVE  IInv'
<1>1. /\ pc[w] = "erase" /\ pc[w] \in Charge /\ TypeOK /\ w \in Actor /\ w \notin Client /\ Nobody \notin Run
      /\ Nobody # w /\ Flows BY Types DEF Erase, Charge, Last, IInv
<1>2. PICK r \in Run, s \in Topology :
         cur[w] = r /\ s = tpg[r] /\ LeadOK(w, r) /\ RunOK(r) /\ flowOf[r] \in Flow BY <1>1, Leads
<1>3. PICK f \in Flow : f = flowOf[r] BY <1>2
<1>4. /\ Entered(r) /\ ~Queued(r) /\ ~Front(r) /\ s.joinCounter = 0 /\ s.ready = 0 /\ s.promise # "pending"
  <2>1. Entered(r) /\ ~Queued(r) /\ s.joinCounter = 0 /\ s.promise # "pending"
    BY <1>1, <1>2 DEF LeadOK, Last
  <2> QED BY <1>1, <1>2, <2>1, QueueFacts DEF RunOK, Over, IInv
<1>5. \A b \in Actor \ {w} : cur[b] # r BY <1>1, <1>2, <1>4, Companions
<1>6. PICK t \in Topology : t = [s EXCEPT !.alive = FALSE] BY DEF Topology
<1>7. /\ t.ready = s.ready /\ t.joinCounter = s.joinCounter /\ t.pred = s.pred /\ t.calls = s.calls
      /\ t.ran = s.ran /\ t.cancelled = s.cancelled /\ t.raised = s.raised /\ t.exception = s.exception
      /\ t.promise = s.promise BY <1>6 DEF Topology
<1>8. /\ tpg' = [tpg EXCEPT ![r] = t] /\ pc' = [pc EXCEPT ![w] = "idle"] /\ cur' = [cur EXCEPT ![w] = Nobody]
      /\ UNCHANGED <<queue, mutex, topologies, sleeping, flowOf, repeat, submitted>>
      /\ owned' = owned \ {f} /\ destroyed' = destroyed \cup ({f} \cap Moved)
  BY <1>1, <1>2, <1>3, <1>6 DEF Erase, Retired, Goto, TypeOK, graphVars
<1>9. /\ pc'[w] = "idle" /\ cur'[w] = Nobody /\ tpg'[r] = t
      /\ \A b \in Actor \ {w} : pc'[b] = pc[b] /\ cur'[b] = cur[b]
      /\ \A q \in Run \ {r} : tpg'[q] = tpg[q] BY <1>1, <1>2, <1>8 DEF TypeOK
<1>10. TypeOK'
  <2>1. tpg' \in [Run -> Topology] BY <1>1, <1>8 DEF TypeOK, Topology
  <2>2. pc' \in [Actor -> ClientPC \cup WorkerPC] /\ cur' \in [Actor -> Run \cup {Nobody}]
    BY <1>1, <1>8 DEF TypeOK, ClientPC
  <2>3. owned' \in SUBSET Moved /\ destroyed' \in SUBSET Flow BY <1>1, <1>8 DEF TypeOK
  <2> QED BY <1>1, <1>8, <2>1, <2>2, <2>3 DEF TypeOK, Topology
<1>11. /\ \A q : /\ Entered(q)' <=> Entered(q)
                 /\ Queued(q)' <=> Queued(q)
                 /\ Front(q)' <=> Front(q)
                 /\ Len(queue[flowOf[q]])' = Len(queue[flowOf[q]])
       /\ Queues' BY <1>8, QueuesKept DEF IInv
<1>12. RunOK(r)'
  <2>1. PromiseTrue(r)'
    <3>1. Complete(r) <=> Complete(r)' BY <1>2, <1>7, <1>8, <1>9, WorkKept
    <3> QED BY <1>2, <1>4, <1>7, <1>9, <3>1 DEF RunOK, PromiseTrue
  <2>2. tpg[r].calls = 1 BY <1>2, <1>4 DEF RunOK, Over
  <2>3. Fresh(r)' /\ Waiting(r)' /\ InFront(r)' /\ Over(r)'
    BY <1>2, <1>4, <1>7, <1>9, <1>11, <2>2 DEF Fresh, Waiting, InFront, Over
  <2> QED BY <1>2, <1>4, <1>7, <1>9, <1>11, <2>1, <2>3 DEF RunOK
<1>13. ThreadOK(w)'
  <2>1. "idle" \in WorkerPC BY DEF WorkerPC
  <2> QED BY <1>1, <1>9, <2>1 DEF ThreadOK
<1>14. Threads' /\ Places' /\ Alones' /\ Runs'
  <2>1. cur[w] \in {r, Nobody} /\ cur'[w] \in {r, Nobody} /\ cur'[w] # r BY <1>1, <1>2, <1>9
  <2>2. ASSUME NEW q \in Run \ {r}
        PROVE  /\ tpg'[q] = tpg[q] /\ flowOf'[q] = flowOf[q] /\ repeat'[q] = repeat[q]
               /\ Entered(q)' <=> Entered(q)
               /\ Queued(q)' <=> Queued(q)
               /\ Front(q)' <=> Front(q)
               /\ Front(q) /\ Len(queue[flowOf[q]]) > 1 => Len(queue[flowOf[q]])' > 1
    BY <1>8, <1>9, <1>11
  <2> QED BY <1>1, <1>5, <1>9, <1>10, <1>12, <1>13, <2>1, <2>2, LocalStep
<1>15. Mutexes'
  <2>1. \A g \in Flow : mutex'[g] # mutex[g] => g = flowOf[r] /\ mutex[g] \in {Nobody, w} BY <1>8
  <2>2. cur'[w] # r /\ cur'[w] \in {r, Nobody} /\ flowOf' = flowOf BY <1>1, <1>8, <1>9
  <2> QED BY <1>1, <1>2, <1>9, <2>1, <2>2, MutexKept
<1>16. Flows'
  <2>1. ASSUME NEW g \in Flow PROVE FlowOK(g)'
    <3>1. FlowOK(g) BY <1>1 DEF Flows
    <3>2. \A q \in Run : tpg'[q].promise = tpg[q].promise /\ flowOf'[q] = flowOf[q]
      BY <1>2, <1>7, <1>8, <1>9
    <3>3. ASSUME NEW d \in Client PROVE cur'[d] = cur[d] /\ cur[d] # r BY <1>1, <1>5, <1>9 DEF Actor
    <3>4. CASE g # f \/ g \notin Moved
      <4>1. (g \in destroyed' <=> g \in destroyed) /\ (g \in Moved /\ g \in owned => g \in owned')
        BY <1>8, <3>4
      <4> QED BY <3>1, <3>2, <3>3, <4>1 DEF FlowOK
    <3>5. CASE g = f /\ g \in Moved
      <4>1. g \in destroyed' BY <1>8, <3>5
      <4>2. \A q \in Run : flowOf[q] = g => q = r BY <1>2, <1>3, <3>1, <3>5 DEF FlowOK
      <4> QED BY <1>2, <1>4, <3>2, <3>3, <4>1, <4>2 DEF FlowOK
    <3> QED BY <3>4, <3>5
  <2> QED BY <2>1 DEF Flows
<1>17. TopologiesOK'
  <2>1. ASSUME NEW d \in Client PROVE cur'[d] = cur[d] /\ pc'[d] = pc[d] BY <1>1, <1>9 DEF Actor
  <2>2. ASSUME NEW v \in Worker
        PROVE  pc'[v] \in {"decrementNext", "unlockLast", "promiseLast", "decrementLast"} <=>
               pc[v] \in {"decrementNext", "unlockLast", "promiseLast", "decrementLast"}
    BY <1>1, <1>9 DEF Actor
  <2> QED BY <1>8, <1>11, <2>1, <2>2, CountedKept DEF IInv
<1> QED BY <1>10, <1>11, <1>14, <1>15, <1>16, <1>17 DEF IInv

\* The invariant is kept when a run is cancelled: its tasks are not due any more.
LEMMA CancelInvariant ==
    ASSUME IInv, NEW r \in Run, CancelRun(r)
    PROVE  IInv'
<1>1. TypeOK /\ RunOK(r) BY DEF IInv, Runs
<1>2. PICK s \in Topology : s = tpg[r] BY <1>1 DEF TypeOK, Topology
<1>3. PICK t \in Topology : t = [s EXCEPT !.cancelled = TRUE] BY DEF Topology
<1>4. /\ t.ready = s.ready /\ t.joinCounter = s.joinCounter /\ t.pred = s.pred /\ t.calls = s.calls
      /\ t.ran = s.ran /\ t.cancelled /\ t.raised = s.raised /\ t.exception = s.exception
      /\ t.alive = s.alive /\ t.promise = s.promise BY <1>3 DEF Topology
<1>5. /\ tpg' = [tpg EXCEPT ![r] = t] /\ tpg'[r] = t /\ s.alive
      /\ \A q \in Run \ {r} : tpg'[q] = tpg[q]
      /\ UNCHANGED <<queue, mutex, owned, destroyed, topologies, sleeping, flowOf, repeat, submitted, pc, cur>>
  BY <1>1, <1>2, <1>3 DEF CancelRun, TypeOK, graphVars
<1>6. TypeOK'
  <2>1. tpg' \in [Run -> Topology] BY <1>1, <1>5 DEF TypeOK, Topology
  <2> QED BY <1>1, <1>5, <2>1 DEF TypeOK, Topology
<1>7. /\ \A q : /\ Entered(q)' <=> Entered(q)
                /\ Queued(q)' <=> Queued(q)
                /\ Front(q)' <=> Front(q)
                /\ Len(queue[flowOf[q]])' = Len(queue[flowOf[q]])
      /\ Queues' BY <1>5, QueuesKept DEF IInv
<1>8. Entered(r) BY <1>1, <1>2, <1>5 DEF RunOK, Fresh, Clean
<1>9. Size(r)' = Size(r) /\ Due(r)' = Due(r) /\ (Complete(r) => Complete(r)')
  BY <1>2, <1>4, <1>5 DEF Size, Due, Complete
<1>10. \A k : Budget(r, k) => /\ tpg'[r].pred >= 0
                              /\ tpg'[r].ran + k + tpg'[r].pred * Size(r)' <= Due(r)'
                              /\ tpg'[r].cancelled BY <1>2, <1>4, <1>5, <1>9 DEF Budget
<1>11. (Budget(r, 0) => Budget(r, 0)') /\ (Budget(r, Size(r)) => Budget(r, Size(r))')
  BY <1>9, <1>10 DEF Budget
<1>12. Budget(r, tpg[r].ready + Cardinality(Invoking(r))) =>
       Budget(r, tpg[r].ready + Cardinality(Invoking(r)))'
  <2>1. Invoking(r)' = Invoking(r) /\ tpg'[r].ready = tpg[r].ready BY <1>2, <1>4, <1>5 DEF Invoking
  <2> QED BY <1>10, <2>1 DEF Budget
<1>13. ASSUME NEW a \in Actor, cur[a] = r PROVE PlaceOK(a, r)'
  <2>1. PlaceOK(a, r) BY <1>13 DEF IInv, Places
  <2>2. pc[a] \notin Entry BY <1>8, <2>1 DEF PlaceOK, EntryOK
  <2>3. LeadOK(a, r) => LeadOK(a, r)' BY <1>2, <1>4, <1>5, <1>7, <1>9, <1>11 DEF LeadOK
  <2> QED BY <1>2, <1>4, <1>5, <1>7, <2>1, <2>2, <2>3 DEF PlaceOK
<1>14. RunOK(r)'
  <2>1. Fresh(r)' BY <1>7, <1>8 DEF Fresh
  <2>2. Waiting(r)' BY <1>1, <1>2, <1>4, <1>5, <1>7, <1>11 DEF RunOK, Waiting
  <2>3. InFront(r)'
    <3>1. Busy(r)' = Busy(r) BY <1>5 DEF Busy
    <3> QED BY <1>1, <1>2, <1>4, <1>5, <1>7, <1>12, <3>1 DEF RunOK, InFront
  <2>4. Over(r)' BY <1>1, <1>2, <1>4, <1>5, <1>7 DEF RunOK, Over
  <2>5. PromiseTrue(r) => PromiseTrue(r)' BY <1>2, <1>4, <1>5, <1>9 DEF PromiseTrue
  <2> QED BY <1>1, <1>2, <1>4, <1>5, <1>7, <2>1, <2>2, <2>3, <2>4, <2>5 DEF RunOK
<1>15. Places'
  <2>1. ASSUME NEW a \in Actor, NEW q \in Run, cur'[a] = q PROVE PlaceOK(a, q)'
    <3>1. CASE q = r BY <1>5, <1>13, <2>1, <3>1
    <3>2. CASE q # r
      <4>1. PlaceOK(a, q) BY <1>5, <2>1 DEF IInv, Places
      <4>2. tpg'[q] = tpg[q] /\ pc'[a] = pc[a] /\ flowOf'[q] = flowOf[q] /\ repeat'[q] = repeat[q]
        BY <1>5, <3>2
      <4> QED BY <1>7, <4>1, <4>2, PlaceKept
    <3> QED BY <3>1, <3>2
  <2> QED BY <2>1 DEF Places
<1>16. Runs'
  <2>1. ASSUME NEW q \in Run \ {r} PROVE RunOK(q)'
    <3>1. RunOK(q) /\ tpg'[q] = tpg[q] /\ flowOf'[q] = flowOf[q] /\ repeat'[q] = repeat[q]
      BY <1>5 DEF IInv, Runs
    <3>2. \A a \in Actor : (cur'[a] = q <=> cur[a] = q) /\ (cur[a] = q => pc'[a] = pc[a]) BY <1>5
    <3> QED BY <1>7, <3>1, <3>2, RunKept
  <2> QED BY <1>14, <2>1 DEF Runs
<1>17. Threads' /\ Alones' /\ Mutexes' BY <1>5 DEF IInv, Threads, ThreadOK, Alones, Alone, Mutexes
<1>18. Flows'
  <2>1. \A q \in Run : tpg[q].promise # "pending" => tpg'[q].promise # "pending" BY <1>2, <1>4, <1>5
  <2> QED BY <1>5, <2>1, FlowsKept DEF IInv
<1>19. TopologiesOK' BY <1>5, <1>7, CountedKept DEF IInv
<1> QED BY <1>6, <1>7, <1>15, <1>16, <1>17, <1>18, <1>19 DEF IInv

-----------------------------------------------------------------------------
(* Steps that leave the runs alone.                                          *)

\* The runs, and the threads that work for them, stay as they are.
LEMMA Quiet ==
    ASSUME IInv, TypeOK', Flows', UNCHANGED <<queue, mutex, topologies, tpg, graphVars, cur>>,
           \A a \in Actor : \/ pc'[a] = pc[a]
                            \/ a \in Client /\ {pc[a], pc'[a]} \subseteq {"idle", "waitForAll"}
    PROVE  IInv'
<1>1. /\ queue' = queue /\ mutex' = mutex /\ topologies' = topologies /\ tpg' = tpg /\ cur' = cur
      /\ flowOf' = flowOf /\ repeat' = repeat /\ submitted' = submitted BY DEF graphVars
<1>2. /\ \A q : /\ Entered(q)' <=> Entered(q)
                /\ Queued(q)' <=> Queued(q)
                /\ Front(q)' <=> Front(q)
                /\ Len(queue[flowOf[q]])' = Len(queue[flowOf[q]])
      /\ Queues' BY <1>1, QueuesKept DEF IInv
<1>3. TypeOK /\ Nobody \notin Run /\ \A w \in Worker : w \in Actor /\ w \notin Client
  BY Types DEF IInv
<1>4. \A a \in Actor, r \in Run : cur[a] = r => pc'[a] = pc[a] BY <1>3 DEF IInv, Threads, ThreadOK
<1>5. Threads'
  <2>1. ASSUME NEW a \in Actor PROVE ThreadOK(a)'
    <3>1. ThreadOK(a) /\ {"idle", "waitForAll"} \subseteq ClientPC BY DEF IInv, Threads, ClientPC
    <3>2. CASE pc'[a] = pc[a] BY <1>1, <3>1, <3>2 DEF ThreadOK
    <3>3. CASE a \in Client /\ {pc[a], pc'[a]} \subseteq {"idle", "waitForAll"}
      BY <1>1, <1>3, <3>1, <3>3 DEF ThreadOK
    <3> QED BY <3>2, <3>3
  <2> QED BY <2>1 DEF Threads
<1>6. Places'
  <2>1. ASSUME NEW a \in Actor, NEW r \in Run, cur[a] = r PROVE PlaceOK(a, r)'
    <3>1. PlaceOK(a, r) /\ pc'[a] = pc[a] BY <1>4, <2>1 DEF IInv, Places
    <3> QED BY <1>1, <1>2, <3>1, PlaceKept
  <2> QED BY <1>1, <2>1 DEF Places
<1>7. Runs'
  <2>1. ASSUME NEW r \in Run PROVE RunOK(r)'
    <3>1. RunOK(r) BY DEF IInv, Runs
    <3>2. \A a \in Actor : (cur'[a] = r <=> cur[a] = r) /\ (cur[a] = r => pc'[a] = pc[a])
      BY <1>1, <1>4
    <3> QED BY <1>1, <1>2, <3>1, <3>2, RunKept
  <2> QED BY <2>1 DEF Runs
<1>8. Alones' /\ Mutexes' BY <1>1, <1>4 DEF IInv, Alones, Alone, Mutexes
<1>9. TopologiesOK'
  <2>1. \A c \in Client, r \in Run : cur'[c] = r /\ pc'[c] \in Entry \ {"count"} <=>
                                     cur[c] = r /\ pc[c] \in Entry \ {"count"}
    BY <1>1, <1>4 DEF Actor
  <2>2. \A w \in Worker : pc'[w] = pc[w] BY <1>3
  <2> QED BY <1>1, <1>2, <2>1, <2>2, CountedKept DEF IInv
<1> QED BY <1>2, <1>5, <1>6, <1>7, <1>8, <1>9 DEF IInv

\* The invariant is kept when a client waits for all runs, or wakes up.
LEMMA WaitInvariant ==
    ASSUME IInv, NEW c \in Client, WaitForAll(c) \/ WakeFromWait(c)
    PROVE  IInv'
<1>1. TypeOK /\ Flows /\ c \in Actor BY Types DEF IInv
<1>2. /\ queue' = queue /\ mutex' = mutex /\ topologies' = topologies /\ tpg' = tpg /\ cur' = cur
      /\ UNCHANGED graphVars /\ owned' = owned /\ destroyed' = destroyed
      /\ flowOf' = flowOf /\ repeat' = repeat /\ submitted' = submitted
  BY DEF WaitForAll, WakeFromWait, graphVars
<1>3. /\ pc[c] \in {"idle", "waitForAll"}
      /\ \/ pc' = pc
         \/ pc' = [pc EXCEPT ![c] = "idle"]
         \/ pc' = [pc EXCEPT ![c] = "waitForAll"]
      /\ sleeping' \in SUBSET Client BY <1>1 DEF WaitForAll, WakeFromWait, Goto, TypeOK
<1>4. pc' \in [Actor -> ClientPC \cup WorkerPC] BY <1>1, <1>3 DEF TypeOK, ClientPC
<1>5. TypeOK' BY <1>1, <1>2, <1>3, <1>4 DEF TypeOK
<1>6. Flows' BY <1>1, <1>2, FlowsKept
<1>7. \A a \in Actor : \/ pc'[a] = pc[a]
                       \/ a \in Client /\ {pc[a], pc'[a]} \subseteq {"idle", "waitForAll"}
  BY <1>1, <1>3 DEF TypeOK
<1> QED BY <1>2, <1>5, <1>6, <1>7, Quiet

\* The invariant is kept when the owner of a taskflow ends its lifetime.
LEMMA DestroyInvariant ==
    ASSUME IInv, NEW f \in Flow, Destroy(f)
    PROVE  IInv'
<1>1. TypeOK /\ Flows /\ Nobody \notin Run BY Types DEF IInv
<1>2. /\ UNCHANGED <<queue, mutex, owned, topologies, sleeping, tpg, graphVars, pc, cur>>
      /\ queue' = queue /\ mutex' = mutex /\ topologies' = topologies /\ tpg' = tpg /\ cur' = cur
      /\ owned' = owned /\ pc' = pc /\ sleeping' = sleeping
      /\ flowOf' = flowOf /\ repeat' = repeat /\ submitted' = submitted
      /\ destroyed' = destroyed \cup {f} BY DEF Destroy, graphVars
<1>3. TypeOK' BY <1>1, <1>2 DEF TypeOK
<1>4. Flows'
  <2>1. ASSUME NEW g \in Flow PROVE FlowOK(g)'
    <3>1. FlowOK(g) BY <1>1 DEF Flows
    <3>2. CASE g # f BY <1>2, <3>1, <3>2 DEF FlowOK
    <3>3. CASE g = f BY <1>1, <1>2, <3>1, <3>3 DEF FlowOK, Destroy
    <3> QED BY <3>2, <3>3
  <2> QED BY <2>1 DEF Flows
<1> QED BY <1>2, <1>3, <1>4, Quiet

-----------------------------------------------------------------------------
(* The inductive invariant.                                                  *)

\* The invariant holds at the start: nothing was submitted.
LEMMA InitInvariant == Init => IInv
<1> SUFFICES ASSUME Init PROVE IInv OBVIOUS
<1>1. /\ Nobody \notin Flow /\ Nobody \notin Run /\ Nobody \notin Actor
      /\ \A c \in Client : c \in Actor /\ c \notin Worker
      /\ \A w \in Worker : w \in Actor /\ w \notin Client BY TopologyAssumption DEF Actor
<1>2. TypeOK BY DEF Init, TypeOK, ClientPC
<1>3. \A a \in Actor : pc[a] = "idle" /\ cur[a] = Nobody BY DEF Init
<1>4. \A r \in Run : /\ flowOf[r] = Nobody /\ Clean(tpg[r]) /\ tpg[r].promise = "pending" /\ tpg[r].calls = 0
  BY DEF Init, Clean
<1>5. \A r \in Run : ~Entered(r) /\ ~Queued(r) /\ ~Front(r) BY <1>1, <1>4 DEF Entered, Queued, Front
<1>6. Threads BY <1>3 DEF Threads, ThreadOK, ClientPC, WorkerPC
<1>7. Places /\ Alones /\ Mutexes BY <1>1, <1>3 DEF Places, Alones, Alone, Mutexes
<1>8. Queues BY DEF Init, Queues, QueueOK
<1>9. Runs
  <2>1. ASSUME NEW r \in Run PROVE RunOK(r)
    <3>1. Fresh(r) /\ Waiting(r) /\ InFront(r) /\ Over(r)
      BY <1>1, <1>4, <1>5 DEF Fresh, Waiting, InFront, Over
    <3> QED BY <1>4, <1>5, <3>1 DEF RunOK, Clean
  <2> QED BY <2>1 DEF Runs
<1>10. Flows BY <1>1, <1>4 DEF Init, Flows, FlowOK
<1>11. TopologiesOK
  <2>1. CountedRuns = {} /\ CountedWorkers = {} BY <1>1, <1>3, <1>5 DEF CountedRuns, CountedWorkers
  <2>2. IsFiniteSet(CountedRuns) /\ IsFiniteSet(CountedWorkers)
        /\ Cardinality(CountedRuns) = 0 /\ Cardinality(CountedWorkers) = 0 BY <2>1, FS_EmptySet
  <2> QED BY <2>2 DEF Init, TopologiesOK
<1> QED BY <1>2, <1>6, <1>7, <1>8, <1>9, <1>10, <1>11 DEF IInv

\* Every step keeps the invariant.
LEMMA NextInvariant == IInv /\ [Next]_vars => IInv'
<1> SUFFICES ASSUME IInv, [Next]_vars PROVE IInv' OBVIOUS
<1>1. ASSUME NEW c \in Client, Submit(c) \/ WaitForAll(c) \/ ClientStep(c) PROVE IInv'
  BY <1>1, SubmitInvariant, WaitInvariant, CountInvariant, CheckInvariant, DummyCallInvariant,
     DummyDecrementInvariant, EnqueueInvariant DEF ClientStep
<1>2. ASSUME NEW w \in Worker, WorkerStep(w) PROVE IInv'
  BY <1>2, InvokeInvariant, ExecuteInvariant, StoreInvariant, RetireInvariant, DecideInvariant,
     RunAgainInvariant, CallbackInvariant, TearDownInvariant, PromiseNextInvariant, PopNextInvariant,
     DecrementNextInvariant, UnlockLastInvariant, PromiseLastInvariant, DecrementLastInvariant,
     EraseInvariant DEF WorkerStep
<1>3. ASSUME NEW a \in Actor, LockedStep(a) PROVE IInv'
  BY <1>3, SetUpInvariant, LeaveInvariant DEF LockedStep
<1>4. ASSUME NEW r \in Run, CancelRun(r) PROVE IInv' BY <1>4, CancelInvariant
<1>5. ASSUME NEW f \in Flow, Destroy(f) PROVE IInv' BY <1>5, DestroyInvariant
<1>6. CASE UNCHANGED vars
  <2>1. /\ UNCHANGED <<queue, mutex, topologies, tpg, graphVars, cur>>
        /\ owned' = owned /\ destroyed' = destroyed /\ flowOf' = flowOf /\ pc' = pc /\ sleeping' = sleeping
        /\ repeat' = repeat /\ submitted' = submitted /\ cur' = cur /\ tpg' = tpg
        /\ queue' = queue /\ mutex' = mutex /\ topologies' = topologies BY <1>6 DEF vars, graphVars
  <2>2. TypeOK' BY <2>1 DEF IInv, TypeOK
  <2>3. Flows' BY <2>1, FlowsKept DEF IInv
  <2> QED BY <2>1, <2>2, <2>3, Quiet
<1> QED BY <1>1, <1>2, <1>3, <1>4, <1>5, <1>6 DEF Next

\* So the invariant holds always.
LEMMA InvariantAlways == Spec => []IInv
BY InitInvariant, NextInvariant, PTL DEF Spec

-----------------------------------------------------------------------------
(* What the invariant says of taskflows and topologies in use.               *)

\* A run whose round is in progress has not answered yet; neither has one that waits for its turn.
LEMMA Unanswered ==
    ASSUME IInv, NEW r \in Run,
           tpg[r].joinCounter > 0 \/ (Queued(r) /\ ~Front(r))
    PROVE  tpg[r].promise = "pending"
<1>1. CASE tpg[r].joinCounter > 0
  <2>1. Front(r) /\ \A b \in Worker : cur[b] = r => pc[b] # "popNext"
    BY <1>1, RoundCompanions DEF Round, Actor
  <2> QED BY <2>1 DEF IInv, Runs, RunOK, InFront
<1>2. CASE Queued(r) /\ ~Front(r) BY <1>2 DEF IInv, Runs, RunOK, Waiting
<1> QED BY <1>1, <1>2

\* A taskflow that was destroyed is out of every thread's hands.
LEMMA FlowUnused ==
    ASSUME IInv, NEW a \in Actor, UsesFlow(a)
    PROVE  flowOf[cur[a]] \notin destroyed
<1>1. TypeOK /\ Queues /\ Nobody \notin Run BY Types DEF IInv
<1>2. PICK r \in Run : cur[a] = r BY <1>1 DEF TypeOK, UsesFlow
<1>3. PICK f \in Flow : f = flowOf[r] /\ PlaceOK(a, r) /\ FlowOK(f) /\ ThreadOK(a) /\ RunOK(r)
  BY <1>2 DEF IInv, Places, PlaceOK, Flows, Threads, Runs
<1>4. pc[a] \notin {"promiseLast", "decrementLast", "erase", "idle", "waitForAll"}
  BY <1>1, <1>2, <1>3 DEF UsesFlow, ThreadOK
<1> SUFFICES ASSUME f \in destroyed PROVE FALSE BY <1>2, <1>3
<1>5. a \in Worker /\ \A q \in Run : flowOf[q] = f => tpg[q].promise # "pending"
  BY <1>2, <1>3 DEF FlowOK, Actor
<1>6. pc[a] \in Charge \cup Round \cup {"unlock"} BY <1>3, <1>4, <1>5, PlacesApart DEF ThreadOK
<1>7. CASE pc[a] \in Round
  <2>1. a \in Busy(r) BY <1>2, <1>5, <1>7 DEF Busy
  <2>2. tpg[r].joinCounter > 0 BY <2>1, BusyFacts
  <2> QED BY <1>3, <1>5, <2>2, Unanswered
<1>8. CASE pc[a] = "unlock"
  <2>1. Queued(r) /\ Front(r) BY <1>3, <1>5, <1>8, Unanswered DEF PlaceOK
  <2>2. PICK b \in Worker : cur[b] = r /\ pc[b] = "popNext" BY <1>3, <1>5, <2>1 DEF RunOK, InFront
  <2>3. mutex[f] = a /\ mutex[f] = b BY <1>2, <1>3, <1>8, <2>2 DEF IInv, Mutexes, Locking, Actor
  <2> QED BY <1>8, <2>2, <2>3
<1>9. CASE pc[a] \in Charge
  <2>1. LeadOK(a, r) /\ tpg[r].promise # "pending" BY <1>3, <1>5, <1>9 DEF PlaceOK
  <2>2. pc[a] = "popNext" /\ Front(r) /\ Len(queue[f]) > 1 BY <1>3, <1>4, <2>1 DEF LeadOK, Leading
  <2>3. queue[f] \in Seq(Run) /\ queue[f] # <<>> /\ Head(queue[f]) = r
    BY <1>1, <1>3, <2>2, Types DEF Front
  <2>4. PICK q \in Run : q = queue[f][2] /\ 2 \in 1 .. Len(queue[f]) /\ 1 \in 1 .. Len(queue[f]) /\ queue[f][1] = r
    BY <2>2, <2>3, Tails
  <2>5. q # r /\ flowOf[q] = f BY <1>1, <2>4, Distinct
  <2>6. Queued(q) /\ ~Front(q) BY <2>3, <2>4, <2>5 DEF Queued, In, Front
  <2> QED BY <1>5, <2>5, <2>6, Unanswered
<1> QED BY <1>6, <1>7, <1>8, <1>9

\* What is destroyed is not in use any more.
LEMMA NothingFreed == IInv => NothingFreedInUse
<1> SUFFICES ASSUME IInv PROVE NothingFreedInUse OBVIOUS
<1>1. TypeOK /\ Queues /\ Nobody \notin Run BY Types DEF IInv
<1>2. \A r \in Run : Queued(r) => tpg[r].alive BY DEF IInv, Runs, RunOK
<1>3. ASSUME NEW a \in Worker, cur[a] # Nobody PROVE tpg[cur[a]].alive
  <2>1. PICK r \in Run : cur[a] = r /\ a \in Actor BY <1>1, <1>3 DEF TypeOK, Actor
  <2>2. PlaceOK(a, r) /\ pc[a] \in WorkerPC /\ pc[a] \notin {"idle", "waitForAll"}
    BY <1>3, <2>1 DEF IInv, Places, Threads, ThreadOK
  <2>3. pc[a] \in Charge \cup Round \cup {"unlock"} BY <2>2, PlacesApart
  <2>4. Queued(r) \/ tpg[r].alive BY <1>1, <2>2, <2>3, QueueFacts DEF PlaceOK, LeadOK, Charge
  <2> QED BY <1>2, <2>1, <2>4
<1>4. ASSUME NEW r \in Run, tpg[r].joinCounter > 0 PROVE tpg[r].alive /\ flowOf[r] \notin destroyed
  <2>1. Queued(r) /\ flowOf[r] \in Flow BY <1>4, RoundCompanions
  <2>2. tpg[r].promise = "pending" BY <1>4, Unanswered
  <2>3. flowOf[r] \notin destroyed BY <2>1, <2>2 DEF IInv, Flows, FlowOK
  <2> QED BY <1>2, <2>1, <2>3
<1> QED BY <1>3, <1>4, FlowUnused DEF NothingFreedInUse, UsesTopology

-----------------------------------------------------------------------------
(* What it says of the order of the runs, and of what they answer.           *)

\* A run that started has only runs before it whose callbacks were invoked.
LEMMA InOrder == IInv => RunsInOrder
<1> SUFFICES ASSUME IInv, NEW f \in Flow, NEW i \in 1 .. Len(submitted[f]), NEW j \in 1 .. Len(submitted[f]),
                    i < j, Started(submitted[f][j])
             PROVE  tpg[submitted[f][i]].calls = 1 BY DEF RunsInOrder
<1>1. TypeOK /\ Queues /\ QueueOK(f) /\ queue[f] \in Seq(Run) /\ submitted[f] \in Seq(Run)
  BY Types DEF IInv, Queues
<1>2. PICK n \in Nat, m \in Nat : n = Len(queue[f]) /\ m = Len(submitted[f]) /\ n <= m
  <2>1. Len(queue[f]) \in Nat /\ Len(submitted[f]) \in Nat BY <1>1
  <2> QED BY <1>1, <2>1 DEF QueueOK
<1>3. PICK q \in Run, r \in Run : q = submitted[f][i] /\ r = submitted[f][j] BY <1>1
<1>4. Entered(q) /\ flowOf[q] = f /\ flowOf[r] = f BY <1>1, <1>3 DEF QueueOK, Entered, In
<1>5. ASSUME Queued(q) PROVE FALSE
  <2>1. PICK k \in 1 .. n : queue[f][k] = q BY <1>2, <1>4, <1>5 DEF Queued, In
  <2>2. queue[f][k] = submitted[f][m - n + k] BY <1>1, <1>2, <2>1 DEF QueueOK
  <2>3. m - n + k \in 1 .. m /\ i \in 1 .. m
    <3>1. \A x, y \in Nat : x <= y => \A z \in 1 .. x : y - x + z \in 1 .. y OBVIOUS
    <3> QED BY <1>2, <2>1, <3>1
  <2>4. \A x, y \in 1 .. m : submitted[f][x] = submitted[f][y] => x = y BY <1>1, <1>2 DEF QueueOK
  <2>5. i = m - n + k BY <1>3, <2>1, <2>2, <2>3, <2>4
  <2>6. PICK p \in 1 .. n : p = k + (j - i) /\ p > 1 /\ m - n + p = j
    <3>1. i \in 1 .. m /\ j \in 1 .. m /\ i < j BY <1>2
    <3>2. k + (j - i) \in 1 .. n /\ k + (j - i) > 1 /\ m - n + (k + (j - i)) = j
      <4>1. i \in Nat /\ j \in Nat /\ j <= m BY <3>1
      <4>2. k \in Nat /\ 1 <= k /\ i = m - n + k BY <2>1, <2>5
      <4> QED BY ONLY n \in Nat, m \in Nat, <3>1, <4>1, <4>2
    <3> QED BY <3>2
  <2>7. queue[f][p] = r BY <1>1, <1>2, <1>3, <2>6 DEF QueueOK
  <2>8. Queued(r) BY <1>2, <1>4, <2>6, <2>7 DEF Queued, In
  <2>9. ~Front(r)
    <3>1. queue[f] # <<>> => Head(queue[f]) = queue[f][1] BY <1>1
    <3>2. queue[f][1] # r BY SMTT(30), <1>1, <1>2, <2>6, <2>7, Distinct
    <3> QED BY <1>4, <3>1, <3>2 DEF Front
  <2>10. tpg[r].joinCounter = 0 /\ tpg[r].ran = 0 BY <2>8, <2>9 DEF IInv, Runs, RunOK, Waiting
  <2> QED BY <1>3, <2>10 DEF Started
<1> QED BY <1>3, <1>4, <1>5 DEF IInv, Runs, RunOK, Over

\* When no run is counted any more, every run that was counted has answered.
LEMMA NoneMissed == IInv => NoneMissing
<1> SUFFICES ASSUME IInv, topologies = 0, NEW r \in Run, Counted(r)
             PROVE  tpg[r].promise # "pending" BY DEF NoneMissing
<1>1. TypeOK /\ RunOK(r) /\ flowOf[r] \in Flow BY Types DEF IInv, Runs, Counted
<1>2. CountedRuns = {} /\ CountedWorkers = {}
  <2>1. /\ IsFiniteSet(CountedRuns) /\ IsFiniteSet(CountedWorkers)
        /\ Cardinality(CountedRuns) + Cardinality(CountedWorkers) = 0 BY DEF IInv, TopologiesOK
  <2>2. Cardinality(CountedRuns) \in Nat /\ Cardinality(CountedWorkers) \in Nat
    BY <2>1, FS_CardinalityType
  <2>3. Cardinality(CountedRuns) = 0 /\ Cardinality(CountedWorkers) = 0 BY <2>1, <2>2
  <2> QED BY <2>1, <2>3, FS_EmptySet
<1> SUFFICES ASSUME tpg[r].promise = "pending" PROVE FALSE OBVIOUS
<1>3. CASE ~Entered(r)
  <2>1. PICK c \in Client : cur[c] = r /\ pc[c] \in Entry \ {"dummyDecrement"}
    BY <1>1, <1>3 DEF RunOK, Fresh
  <2>2. r \in CountedRuns BY <2>1 DEF Counted, CountedRuns
  <2> QED BY <1>2, <2>2
<1>4. CASE Queued(r) BY <1>2, <1>4 DEF CountedRuns
<1>5. CASE Entered(r) /\ ~Queued(r)
  <2>1. PICK w \in Worker : cur[w] = r /\ pc[w] \in {"unlockLast", "promiseLast"}
    BY <1>1, <1>5 DEF RunOK, Over
  <2>2. w \in CountedWorkers BY <2>1 DEF CountedWorkers
  <2> QED BY <1>2, <2>2
<1> QED BY <1>3, <1>4, <1>5

\* No task runs more often than it is due.
Modest == \A r \in Run : flowOf[r] # Nobody => tpg[r].ran <= Due(r)

\* Only a task of a run adds to what the run did; what is due is settled when it is submitted.
LEMMA RanKept ==
    ASSUME TypeOK, Next, NEW r \in Run
    PROVE  \/ /\ tpg'[r].ran = tpg[r].ran
              /\ flowOf[r] # Nobody => flowOf'[r] = flowOf[r] /\ repeat'[r] = repeat[r]
           \/ \E w \in Worker : Execute(w) /\ cur[w] = r /\ tpg'[r].ran = tpg[r].ran + 1
                                /\ flowOf'[r] = flowOf[r] /\ repeat'[r] = repeat[r]
<1> DEFINE Ran  == tpg'[r].ran = tpg[r].ran
           Same == Ran /\ (flowOf[r] # Nobody => flowOf'[r] = flowOf[r] /\ repeat'[r] = repeat[r])
<1>1. ASSUME NEW c \in Client, Submit(c) PROVE Same BY <1>1 DEF Submit, TypeOK
<1>2. ASSUME NEW c \in Client, WaitForAll(c) \/ ClientStep(c) PROVE Same
  <2>1. CASE Enqueue(c)
    <3>1. tpg' = [tpg EXCEPT ![cur[c]].alive = TRUE] /\ flowOf' = flowOf /\ repeat' = repeat
      BY <2>1 DEF Enqueue
    <3> QED BY <3>1 DEF TypeOK
  <2>2. CASE Check(c)
    <3>1. /\ \/ tpg' = tpg
             \/ tpg' = [tpg EXCEPT ![cur[c]].pred = tpg[cur[c]].pred - 1]
          /\ flowOf' = flowOf /\ repeat' = repeat BY <2>2 DEF Check, PredSays, graphVars
    <3>2. CASE tpg' = [tpg EXCEPT ![cur[c]].pred = tpg[cur[c]].pred - 1] BY <3>1, <3>2 DEF TypeOK
    <3> QED BY <3>1, <3>2
  <2>3. CASE DummyCall(c)
    <3>1. /\ tpg' = [tpg EXCEPT ![cur[c]].calls = @ + 1, ![cur[c]].promise = "value"]
          /\ flowOf' = flowOf /\ repeat' = repeat BY <2>3 DEF DummyCall, graphVars
    <3> QED BY <3>1 DEF TypeOK
  <2>4. CASE WaitForAll(c) \/ WakeFromWait(c) \/ Count(c) \/ DummyDecrement(c)
    <3>1. tpg' = tpg /\ flowOf' = flowOf /\ repeat' = repeat
      BY <2>4 DEF WaitForAll, WakeFromWait, Count, DummyDecrement, graphVars
    <3> QED BY <3>1
  <2> QED BY <1>2, <2>1, <2>2, <2>3, <2>4 DEF ClientStep
<1>3. ASSUME NEW w \in Worker, ~Execute(w), WorkerStep(w) PROVE Same
  <2>1. flowOf' = flowOf /\ repeat' = repeat
    BY <1>3 DEF WorkerStep, Invoke, StoreException, Retire, Decide, RunAgain, Callback, PromiseNext,
       PromiseLast, TearDown, PopNext, DecrementNext, UnlockLast, DecrementLast, Erase, graphVars
  <2>2. CASE StoreException(w) \/ Retire(w) \/ Callback(w)
    <3>1. \/ tpg' = [tpg EXCEPT ![cur[w]].exception = TRUE]
          \/ tpg' = [tpg EXCEPT ![cur[w]].joinCounter = @ - 1]
          \/ tpg' = [tpg EXCEPT ![cur[w]].calls = @ + 1]
      BY <2>2 DEF StoreException, Retire, Callback
    <3>2. CASE tpg' = [tpg EXCEPT ![cur[w]].exception = TRUE] BY <2>1, <3>2 DEF TypeOK
    <3>3. CASE tpg' = [tpg EXCEPT ![cur[w]].joinCounter = @ - 1] BY <2>1, <3>3 DEF TypeOK
    <3>4. CASE tpg' = [tpg EXCEPT ![cur[w]].calls = @ + 1] BY <2>1, <3>4 DEF TypeOK
    <3> QED BY <3>1, <3>2, <3>3, <3>4
  <2>3. CASE Decide(w)
    <3>1. \/ tpg' = tpg
          \/ tpg' = [tpg EXCEPT ![cur[w]].pred = tpg[cur[w]].pred - 1] BY <2>3 DEF Decide, PredSays
    <3>2. CASE tpg' = [tpg EXCEPT ![cur[w]].pred = tpg[cur[w]].pred - 1] BY <2>1, <3>2 DEF TypeOK
    <3> QED BY <2>1, <3>1, <3>2
  <2>4. CASE PromiseNext(w) \/ PromiseLast(w)
    <3>1. tpg' = [tpg EXCEPT ![cur[w]] = Fulfilled(tpg[cur[w]])]
      BY <2>4 DEF PromiseNext, PromiseLast, CarryOutPromise
    <3>2. Fulfilled(tpg[r]).ran = tpg[r].ran BY DEF TypeOK, Fulfilled
    <3> QED BY <2>1, <3>1, <3>2 DEF TypeOK
  <2>5. CASE \E q \in Run : Invoke(w, q)
    <3>1. PICK q \in Run : tpg' = [tpg EXCEPT ![q].ready = @ - 1] BY <2>5 DEF Invoke
    <3> QED BY <2>1, <3>1 DEF TypeOK
  <2>6. CASE PopNext(w) \/ Erase(w)
    <3>1. \E q : tpg' = [tpg EXCEPT ![q].alive = FALSE] BY <2>6 DEF PopNext, Erase
    <3> QED BY <2>1, <3>1 DEF TypeOK
  <2>7. CASE RunAgain(w) \/ TearDown(w) \/ DecrementNext(w) \/ UnlockLast(w) \/ DecrementLast(w)
    <3>1. tpg' = tpg BY <2>7 DEF RunAgain, TearDown, DecrementNext, UnlockLast, DecrementLast
    <3> QED BY <2>1, <3>1
  <2> QED BY <1>3, <2>2, <2>3, <2>4, <2>5, <2>6, <2>7 DEF WorkerStep
<1>4. ASSUME NEW w \in Worker, Execute(w)
      PROVE  \/ Same
             \/ cur[w] = r /\ tpg'[r].ran = tpg[r].ran + 1 /\ flowOf'[r] = flowOf[r] /\ repeat'[r] = repeat[r]
  <2>1. /\ \/ tpg' = [tpg EXCEPT ![cur[w]].ran = @ + 1]
           \/ tpg' = [tpg EXCEPT ![cur[w]].ran = @ + 1, ![cur[w]].raised = TRUE, ![cur[w]].cancelled = TRUE]
        /\ flowOf' = flowOf /\ repeat' = repeat BY <1>4 DEF Execute, graphVars
  <2>2. CASE tpg' = [tpg EXCEPT ![cur[w]].ran = @ + 1] BY <2>1, <2>2 DEF TypeOK
  <2>3. CASE tpg' = [tpg EXCEPT ![cur[w]].ran = @ + 1, ![cur[w]].raised = TRUE, ![cur[w]].cancelled = TRUE]
    BY <2>1, <2>3 DEF TypeOK
  <2> QED BY <2>1, <2>2, <2>3
<1>5. ASSUME NEW a \in Actor, LockedStep(a) PROVE Same
  <2>1. /\ \/ tpg' = tpg
           \/ tpg' = [tpg EXCEPT ![cur[a]].ready = FlowSize[flowOf[cur[a]]],
                                 ![cur[a]].joinCounter = FlowSize[flowOf[cur[a]]]]
        /\ flowOf' = flowOf /\ repeat' = repeat
    BY <1>5 DEF LockedStep, SetUpTopology, SetUp, Leave, graphVars
  <2>2. CASE tpg' = tpg BY <2>1, <2>2
  <2>3. CASE tpg' = [tpg EXCEPT ![cur[a]].ready = FlowSize[flowOf[cur[a]]],
                                ![cur[a]].joinCounter = FlowSize[flowOf[cur[a]]]]
    BY <2>1, <2>3 DEF TypeOK
  <2> QED BY <2>1, <2>2, <2>3
<1>6. ASSUME NEW q \in Run, CancelRun(q) PROVE Same BY <1>6 DEF CancelRun, TypeOK, graphVars
<1>7. ASSUME NEW f \in Flow, Destroy(f) PROVE Same BY <1>7 DEF Destroy, graphVars
<1> QED BY <1>1, <1>2, <1>3, <1>4, <1>5, <1>6, <1>7 DEF Next

\* A task that is executed was still due.
LEMMA TaskDue ==
    ASSUME IInv, NEW w \in Worker, NEW r \in Run, cur[w] = r, pc[w] = "invoke"
    PROVE  tpg[r].ran + 1 <= Due(r)
<1>1. w \in Busy(r) /\ w \in Invoking(r) /\ TypeOK BY DEF Busy, Invoking, Round, IInv
<1>2. tpg[r].joinCounter > 0 /\ Front(r) /\ flowOf[r] \in Flow BY <1>1, BusyFacts DEF Front
<1>3. PICK k \in Nat : k = Cardinality(Invoking(r)) /\ k > 0
  <2>1. IsFiniteSet(Invoking(r)) /\ Cardinality(Invoking(r)) \in Nat BY <1>2, BusyFacts
  <2>2. Cardinality(Invoking(r)) # 0 BY <1>1, <2>1, FS_EmptySet
  <2> QED BY <2>1, <2>2
<1>4. Budget(r, tpg[r].ready + k) BY <1>2, <1>3 DEF IInv, Runs, RunOK, InFront
<1>5. PICK n \in Nat, p \in Int, d \in Nat, x \in Nat, y \in Nat :
         n = Size(r) /\ p = tpg[r].pred /\ d = Due(r) /\ x = tpg[r].ran /\ y = tpg[r].ready
  BY <1>1, <1>2, Sizes, Types
<1>6. p >= 0 /\ x + (y + k) + p * n <= d /\ p * n >= 0 /\ p * n \in Int
  BY <1>4, <1>5, Times DEF Budget
<1>7. x + 1 <= d BY <1>3, <1>5, <1>6
<1> QED BY <1>5, <1>7

\* Modest holds at the start: no task ran.
LEMMA ModestInit == Init => Modest
BY DEF Init, Modest

\* Modest is kept by every step: a task that is executed was due.
LEMMA ModestNext == IInv /\ Modest /\ [Next]_vars => Modest'
<1> SUFFICES ASSUME IInv, Modest, [Next]_vars, NEW r \in Run, flowOf'[r] # Nobody PROVE tpg'[r].ran <= Due(r)'
  BY DEF Modest
<1>1. TypeOK BY DEF IInv
<1>2. CASE UNCHANGED vars BY <1>2 DEF vars, graphVars, Modest, Due, Size
<1>3. CASE Next
  <2>1. CASE /\ tpg'[r].ran = tpg[r].ran
             /\ flowOf[r] # Nobody => flowOf'[r] = flowOf[r] /\ repeat'[r] = repeat[r]
    <3>1. CASE flowOf[r] # Nobody BY <2>1, <3>1 DEF Modest, Due, Size
    <3>2. CASE flowOf[r] = Nobody
      <4>1. tpg'[r].ran = 0 BY <1>1, <2>1, <3>2, Types DEF IInv, Runs, RunOK, Fresh, Clean, Entered
      <4>2. TypeOK' BY <1>3, NextInvariant DEF IInv
      <4>3. flowOf'[r] \in Flow /\ FlowSize[flowOf'[r]] \in Nat /\ repeat'[r] \in Nat
        BY <4>2, TopologyAssumption DEF TypeOK
      <4>4. repeat'[r] * FlowSize[flowOf'[r]] >= 0 BY <4>3, Times
      <4> QED BY <4>1, <4>4 DEF Due, Size
    <3> QED BY <3>1, <3>2
  <2>2. CASE \E w \in Worker : Execute(w) /\ cur[w] = r /\ tpg'[r].ran = tpg[r].ran + 1
                               /\ flowOf'[r] = flowOf[r] /\ repeat'[r] = repeat[r]
    <3>1. PICK w \in Worker : pc[w] = "invoke" /\ cur[w] = r BY <2>2 DEF Execute
    <3>2. tpg[r].ran + 1 <= Due(r) BY <3>1, TaskDue
    <3> QED BY <2>2, <3>2 DEF Due, Size
  <2> QED BY <1>1, <1>3, <2>1, <2>2, RanKept
<1> QED BY <1>2, <1>3

\* Promises tell the truth.
LEMMA Truthful == IInv /\ Modest => PromiseExact
<1> SUFFICES ASSUME IInv, Modest PROVE EachPromiseExact BY NoneMissed DEF PromiseExact
<1>1. ASSUME NEW r \in Run, flowOf[r] # Nobody
      PROVE  LET due == repeat[r] * FlowSize[flowOf[r]] IN
             /\ tpg[r].ran <= due
             /\ tpg[r].promise # "pending" =>
                  /\ tpg[r].calls = 1
                  /\ tpg[r].promise = "exception" <=> tpg[r].raised
                  /\ ~tpg[r].cancelled => tpg[r].ran = due
  <2>1. tpg[r].ran <= Due(r) BY <1>1 DEF Modest
  <2>2. tpg[r].promise # "pending" => PromiseTrue(r) BY DEF IInv, Runs, RunOK
  <2> QED BY <2>1, <2>2 DEF PromiseTrue, Complete, Due, Size
<1> QED BY <1>1 DEF EachPromiseExact

-----------------------------------------------------------------------------
(* Theorems *)

\* No thread uses a taskflow or a topology that was destroyed, however the owners of
\* taskflows, the workers and the runs that are queued behind each other interleave
\* (_tear_down_topology, Future, executor.h:2322).
THEOREM TopologyConsistent == Spec => []Consistent
<1>1. IInv => Consistent BY NothingFreed DEF IInv, Consistent
<1> QED BY <1>1, InvariantAlways, PTL

\* The runs of a taskflow are executed one after the other, in the order in which they
\* entered its queue (run_until, _tear_down_topology).
THEOREM TopologyRunsInOrder == Spec => []RunsInOrder
BY InvariantAlways, InOrder, PTL

\* No task runs more often than the run was asked to repeat it, the promise of a run tells
\* what became of it, and when _num_topologies is zero no run that was counted is
\* without an answer (_carry_out_promise, wait_for_all).
THEOREM TopologyPromiseExact == Spec => []PromiseExact
<1>1. Spec => []Modest BY InvariantAlways, ModestInit, ModestNext, PTL DEF Spec
<1> QED BY <1>1, InvariantAlways, Truthful, PTL

-----------------------------------------------------------------------------
(* The instance that is model-checked: a taskflow that several clients run, one of *)
(* one task that is moved into the executor, and an empty one that is moved too.   *)

CONSTANTS shared, moved, empty

MCFlowSize == shared :> 2 @@ moved :> 1 @@ empty :> 0
MCSymmetry == Permutations(Client) \cup Permutations(Worker)
=============================================================================
