# xthread: a TLA+ model of the library

xthread is a task-parallel runtime for C++ (a descendant of Taskflow): users build graphs of
tasks, or start asynchronous tasks, and an executor runs them with a pool of work-stealing
threads. This directory holds TLA+ modules of the executor, of the algorithms that run on it and
of the parts of the library around it, the configurations that check them with TLC, and proofs
that TLAPS checks for any number of threads, tasks and items.

Every definition is written from the sources under `src/xthread`; `PROJECT.json` maps each one
to the lines it stands for. The README goes through the parts of the system (1), the modules and
how they correspond to the code (2), the runs and their bounds (3), fairness (4), the proofs (5),
statements of the sources that the code does not keep (6), further observations (7), what is left
out (8), and the plan (9).

## 1. The system and its parts

    user threads                              executor threads (Worker)
    ------------                              -------------------------
    FlowBuilder, Task: FlowGraph              worker loop: pop, explore, wait
    Executor::run*, Future                       |  WorkStealing
      -> TopologyQueue                           |     uses TaskQueue (own queue, buffers)
    Executor::async, dependent_async             |     uses EventCount (the notifier)
      -> Runtime, DependentAsync                 v
    AsyncTask handles                         _invoke(node): TaskGraph, Subflow, Runtime,
      -> DependentAsync                         DependentAsync, Pipeline, the algorithms
    wait_for_all, ~Executor                      |
      -> TopologyQueue, WorkStealing             v
    Taskflow::dump: GraphDump                 on_entry, on_exit: Observers

| part (files under `src/xthread`) | state | operations | interacts with | hard because |
|---|---|---|---|---|
| Notifiers (`core/nonblocking_notifier.h`, `atomic_notifier.h`) | a packed word of epoch, counts and stack top; a waiter's link, epoch, state, mutex and condition variable | `prepare_wait`, `commit_wait`, `cancel_wait`, `notify_one/_all/_n` | the worker loop waits, whoever schedules notifies | compare-and-swap loops, ABA on the stack, a waiter that wakes while it is being unlinked, epochs that wrap |
| Work-stealing scheduler (`core/executor.h`, `worker.h`, `freelist.h`) | the workers' queues, the shared buffers, preferred victims, done flags | `_spawn` loop (`_exploit_task`, `_explore_task`, `_wait_for_task`), `_schedule`, `_shutdown` | queues, notifier, every kind of task | a task queued between a worker's last look and its sleep; shutdown against sleep |
| Task queues (`core/tsq.h`) | `_top`, `_bottom`, a circular array, old arrays kept as garbage | owner: `push`, `pop`; thieves: `steal`; anyone: `empty`, `size` | scheduler | owner and thieves race for the last item; arrays are replaced under the thieves |
| Task graphs (`core/graph.h`, `executor.h`, `semaphore.h`) | join counters, exception and cancellation flags, the stored exception, semaphores with waiters | `_set_up_graph`, `_invoke` and its kinds of task, `_process_exception`, `_tear_down_nonasync`, `acquire/release` | scheduler, topology | cycles through condition tasks, modules that are entered twice, failures while others run |
| Subflows and corun (`core/flow_builder.h`, `executor.h`) | the subflow's flags, its graph, the anchor on a worker's stack | `join`, return of the callable, `retain`, `Executor::corun` | task graphs; a worker that joins invokes other tasks | a join that throws in the middle, a graph that is cleared while others use it |
| Topologies and taskflows (`core/topology.h`, `taskflow.h`, `executor.h`) | queue of runs of each taskflow, list of moved taskflows, number of running topologies, promises | `run`, `run_n`, `run_until`, `Future::cancel/wait/get`, `wait_for_all` | graph execution, users who may destroy a taskflow as soon as its future is ready | handing the queue over between runs, objects that die while they are used |
| Dependent asynchronous tasks (`core/async.h`, `async_task.h`) | use counts, three-state lock of a node, edges, join counters | `silent_dependent_async`, `dependent_async`, handle copy, move and reset | scheduler, users' handles | edges are added while the predecessor finishes; nodes are freed by the last reference |
| Runtime and asynchronous tasks (`core/runtime.h`, `async.h`) | preempted flag, join counter, anchors, exceptions, promises | `async`, `silent_async`, `Runtime::async`, `corun`, return of the callable | scheduler; a worker in `corun` invokes other tasks | the parent returns while its last child finishes; nested stacks of corun |
| Pipelines (`algorithm/pipeline.h`, `data_pipeline.h`) | a counter for each cell of lines and pipes, one pipeflow and data buffer a line, number of tokens | line task, `stop`, `reset` | run as a module task | cells are counted down by different lines, tasks are scheduled twice at a time |
| Parallel algorithms (`algorithm/*.h`) | shared atomic index, chunk sizes, results under a mutex; blocks' sums; the array that is sorted | the loops of the four partitioners, reductions, scans, quicksort | a runtime task and its asynchronous tasks | overshoot of the index, barriers whose waiters run other tasks on top of their stacks, scans without a bounds check |
| Flow builder and task handles (`core/flow_builder.h`, `task.h`, `taskflow.h`) | nodes with one array of neighbours each | `emplace`, `precede`, `succeed`, `linearize`, `erase`, `remove_*`, `composed_of`, `dump` | task graphs | two kinds of edges in one array, which is edited while it is walked; modules that refer to each other |
| Observers (`core/observer.h`) | a stack of entry times and lists of segments per worker | `on_entry`, `on_exit`, `dump`, `summary`, `clear` | `_observer_prologue/_epilogue` of the executor | tasks inside of tasks, observers that come and go |
| Object pool (`utility/object_pool.h`) | a heap per thread and a global one; blocks in bins by how full they are | `animate`, `recycle` | dependent tasks and topologies, when built with it | a block changes its heap while another thread gives an object back to it |
| Ring buffer (`utility/mpmc.h`) | two counters, cells with sequence numbers | `try_enqueue`, `enqueue`, `try_dequeue` | users | a producer that is overtaken by a whole round |
| Small vector, serializer, numbers, index ranges (`utility/*.h`) | memory cells, a stream of bytes | containers' operations, save and load, arithmetic | used everywhere | objects in raw memory, an argument inside of the container, words at their limits |
| Threads and latches (`simple_thread.h`, `latch.h`, `thread_atexit.h`) | flags of a thread object, a counter, callbacks | `start`, `join`, `count_down`, `wait`, `push`, `cancel` | users | wait against count-down, callbacks that register callbacks |
| CUDA (`cuda/`) | device buffers, graphs, executable graphs, streams | kernels of the algorithms, capture, update, launch, ownership | the CUDA runtime (external) | tiles at the end of a range, barriers, fewest possible events, one owner for each native object |
| Strings, traits, DSL, CUDA's one-line wrappers | | stateless or compile-time | | not modelled (section 8) |

What makes each part correct is stated by its properties, named in section 3.

## 2. The modules

    EventCount            <- implemented by NonblockingNotifierV2
        ^ extended by
    WorkStealing                                           WorkStealingProofs: theorems of both
    TicketCount           <- implemented by NonblockingNotifierV1
    AtomicNotifier                                         NotifierProofs: theorems of all three
    TaskDeque             <- implemented by TaskQueue
    MPMC                                                   QueueProofs: theorems of both
    TopologyQueue            many topologies, taskflows    TopologyQueueProofs: theorems
    DependentAsync           tasks on other tasks          AsyncProofs: theorems
    TaskGraph                one topology and its graph    TaskGraphProofs: theorems
    Runtime                  tasks that spawn tasks        AsyncProofs: theorems
    Subflow                  tasks that build graphs       SubflowProofs: theorems
    TokenFlow             <- implemented by Pipeline       PipelineProofs: theorems
    ParallelLoops, Scan, Sort, CudaKernels                 the algorithms
    IndexRanges, Numbers                                   what they compute with
    GraphEdits            <- implemented by FlowGraph
    GraphDump, Observers, Serializer, SmallVector, ObjectPool, Threads
    CudaGraph, CudaHandles, CudaCapture

The composition follows the code's layers: WorkStealing extends EventCount, so the notifier
inside the executor is that specification and not a copy; the algorithm that implements it is
checked against the same module. The modules of task kinds, Pipeline and the algorithms take
from WorkStealing that a scheduled task is invoked by exactly one worker, at any time and in any
order, and keep the scheduled tasks in a bag. IndexRanges takes any parts of a range, as ParallelLoops
gives them to tasks, and maps them to indices.

`MC*` modules give TLC its instances. MCNotifier, QueueProofs, AsyncProofs, MCAlgorithms and MCLibrary
hold several modules: the initial state chooses which of them makes steps (`kind`, `part`), and
the variables of the others stay `<<>>`. Such a run checks several small systems side by side,
not a product of them. The instance of TopologyQueue is at the end of TopologyQueueProofs.

Faulty variants of some operations stand before the operations they vary (`A faulty ...`); each
is what a plausible mistake in that code would be, and makes the property that `PROJECT.json`
names with it fail. No specification uses them.

### The executor

**EventCount.** Every operation is one step. `phase[w]` is where a waiter is in its two-phase
wait, `signals` the wake-ups left for announced waiters. A notification leaves a signal while
there are more announced waiters than signals, and otherwise wakes one sleeper, as `_notify`
does; `cancel_wait` takes a signal with it exactly when all announced waiters have one.

**NonblockingNotifierV2.** The algorithm, one access to shared memory a step: `state` is the
packed word as a record, `next`, `epoch` and `wstate` the members of a waiter; a
compare-exchange compares with the word the thread loaded. `Park`, `SpuriousWakeup` and `Wake`
are the mutex and condition variable of `_park` and `_unpark`. The refinement maps a waiter to
`woken` when it is off the stack and not yet returned.

**NonblockingNotifierV1, TicketCount.** The older algorithm with the same steps. A waiter's ticket
is a number in the epoch of the word, and it spins in `commit_wait` and `cancel_wait` until the
epoch gets there; epochs wrap at `EpochSize`, and differences are signed. TicketCount, its
abstract specification, is stronger than EventCount: announced waiters are served in line.

**AtomicNotifier.** One word of a count and an epoch. As it has no list of sleepers, the module
closes the system with users that make work known and notify, and with waiters that check for
work between the two phases; what the notifier promises is that no work is left to sleepers.

**WorkStealing.** A worker's `pc` runs through `explore`, `prepare`, `check` (one queue or flag
a step, in the order of `_wait_for_task`), `cancel`, `quit`, `commit`, `sleep`, `invoke`,
`notify`, `pop` and `exited`. Victims and the moment a worker gives up exploring are arbitrary.
A task may schedule others and may go on with one directly (the cache of `_invoke`). Clients
push one task or several and then notify; `WaitForAll` and `Shutdown` are the destructor.

**TaskQueue, TaskDeque.** `bounded` chooses between the queue of a worker, which refuses when it
is full, and the growing buffer. Owner and thieves have program counters; indexes, arrays and
slots are explicit, and a thief reads the slot of the array it loaded, old or new. The abstract
deque takes at the bottom, steals at the top, and may refuse a thief that lost a race.

**TaskGraph.** One topology with its graph: kinds of tasks, successors, parents, semaphores.
`join` is the counter of every node and of the topology; a worker runs `_invoke` step by step:
cancellation, semaphores (one at a time, with the roll-back of `_acquire_all`), the work,
exceptions, release, reset of the counter, one successor a step, tear-down. A module task sets
its graph up, is preempted, and is resumed by whoever counts its counter down. `Raise` marks
the chain of ancestors and the topology in one step (Runtime takes it apart).

**Subflow.** A stack of invocations for each worker. A callable emplaces tasks, joins them by hand
or leaves that to its return, catches what a join throws or not, and coruns other graphs on an
anchor; a subflow that was left is preempted, entered again by its last child, and then cleared
unless it is retained. The outermost task is run several times by its topology. The graphs are
sets of independent tasks and nested subflows. The ancestors of a task are the least set that holds
it and the parents of its members, which is what `_process_exception` and a clear walk through.

**TopologyQueue.** Clients run taskflows they own or move, with a number of rounds, cancel,
wait, and destroy a taskflow when nothing legal prevents it; the last worker of a round decides,
locks the taskflow, sets the promise, pops, starts the next run or unlocks, and erases moved
taskflows, each as the separate step it is in `_tear_down_topology`. A round is a number of
independent tasks.

**DependentAsync.** Clients create tasks on predecessors that their handles refer to; creation
counts one predecessor at a time, through the three-state lock of its node, while workers
finish nodes, walk their edges and release them. Handles are copied, moved and reset. The life of
a node is its use count; recycled nodes may not be touched.

**Runtime.** Trees of tasks under roots started by a client or as tasks of a graph. A worker has
a stack, since `corun` invokes other tasks inside of one. The callable of a runtime task,
preemption, re-entry and the return are separate steps; `_process_exception` climbs to the
anchor one ancestor a step; promises end as a value, an exception, or broken.

**Pipeline, TokenFlow.** The line task's loop, one counter operation a step, and the data buffer of
DataPipeline. The number of lines and the types of pipes are state, since
`ScalablePipeline::reset` changes them. TokenFlow says what callables may rely on: each token
through all pipes in order, a serial pipe admits one token at a time and in order, a token starts
when the token that many lines before it has left. The buffers' part in it is in `Consistent`.

### The algorithms

**ParallelLoops.** A job is an algorithm, a partitioner, a chunk size, a number of workers and of
elements. `parent` is the loop that makes the tasks; a task's `pc` runs through `ready` (before
it has begun its sum), `load`, `decide` and `claim` (the accesses of a partitioner's loop to
`next`), `call` (one chunk) and `merge` (under the mutex). `beg` and `prev` are the iterator and
`prev_e` of the closures: what a chunk reads is computed from them, as the code advances the
iterator from the previous chunk, and not from the chunk. A value is the set of the elements
combined into it. The random partitioner's chunk is any in its range.

**Scan.** `stack[t]` is what a thread runs: the runtime task or a block's task, with those that it
took in `corun` or `corun_until` on top. A value is the sequence of the operands combined into it,
so that order and multiplicity are seen. A block's own scan is one step, since nobody else writes
its part of the range and its sum; the arrival, the scan of the sums, the release and the final
addition are steps of their own.

**Sort.** A step is one round of a task's loop: choice of the pivot, partition (branching or
branchless, with its blocks of offsets), the shuffles after a bad one, the limited insertion sort
after a good one, heap sort at the end of patience. `strayed` records a scan without a bounds
check that left its range. The thresholds are constants, so that short arrays reach every branch.

**CudaKernels.** A step is a kernel over all its blocks. Between two barriers the threads of a
block run one after the other, up or down, so that a missing barrier shows. Tiles, partial tiles,
the buffers of `reduce` and `scan` with their levels, and merge paths are computed as the code does.

**IndexRanges, Numbers.** Ranges of integers of a few bits, with their validity and distance, in
parts as `for_each_index` and the `by_index` forms walk them; and the functions of `math.h`, with
the compare-exchange loops of `atomic_max` and `atomic_min` as steps of two threads.

### The library around it

**FlowGraph, GraphEdits.** A node has one array: successors, then predecessors, and a number
that divides them. Every operation edits arrays as the code does, swaps and compactions
included; GraphEdits is a list of successors per node, without the second copy of an edge.

**GraphDump.** The stack of graphs that are still to be written, the numbers that were given to
taskflows, and the clusters that were written, for any graphs that refer to each other.

**Observers.** Workers enter and leave nested tasks while observers are made, removed, dumped and
cleared. `told` is the truth, kept by the calls alone; reports are computed from the segments.

**Serializer.** Values of nested types, bytes of `Base` values; loading goes into a variable that
holds another value of the type, and the containers' own clearing and inserting is modelled.

**SmallVector.** Memory as cells that are raw, hold an object, or one that was moved from; every
operation of the class, with `good` for the rules of objects in raw memory and `contents` for
the vector that should be there.

**ObjectPool.** Threads animate and recycle; a step is a critical section up to the next lock.
Blocks move between the heaps of threads and the global one; a thread that recycles reads the
block's heap without a lock and looks again under it.

**MPMC.** One access to shared memory a step; `sent` records which item was enqueued at each
position. Sequence numbers grow without bound, as 64 bits do not wrap in practice.

**Threads.** A thread object, the latch it counts down, and the callbacks at the end of the thread,
with clients that start, join, wait and destroy when that is legal.

**CudaGraph, CudaHandles, CudaCapture.** Nodes with native parameters, edges, executable copies,
updates and launches; the owners of native objects, moves and self-moves, nested device scopes;
and the three optimizers that turn a graph into streams and events. The CUDA runtime is external:
it runs nodes in any order that their edges allow, and a captured operation depends on what
precedes it in its stream and on the events the stream waits for.

## 3. The runs

All runs finish in under five minutes with two TLC workers. `CHECK_DEADLOCK FALSE` is given
where the bounds let the system stop when all its work is done; what must not stop there is an
invariant or a liveness property of its own. `work_stealing`, `task_queue` and `algorithms` check
deadlock (with a step `Stop` at the end of an algorithm).

| run | instance | properties |
|---|---|---|
| `notifier` | 2 waiters, 2 notifiers; V2 with 2 sleeps a waiter, V1 with 3 waits and epochs modulo 8, the atomic one with 3 pieces of work | `NotifiersConsistent`: the counters of the words equal the threads in that phase, a stack has every sleeper once, a waiter off it has exactly one waker; nobody sleeps beside work. `NotifiersImplement`: V2 is an event count, V1 a ticket count |
| `work_stealing` | 2 workers, 1 buffer, queues of 1 slot, 1 client, 3 tasks | `NoLostWakeup`, `InOnePlace`, `CleanExit`, `EveryTaskFinishes`, `ShutdownTerminates` |
| `task_queue` | capacity 2, indexes up to 4, 2 items, 2 thieves, bounded and growing; a ring of 2 cells with 3 positions, 2 producers of which one spins, 2 consumers | `DequeHonest`: no live slot is overwritten, and a queue that a worker about to sleep calls empty is empty, or its owner is popping and will search itself. `ImplementsDeque`. `FifoExact`: items leave the ring in order, once each |
| `async` | dependent tasks: 2 clients, 2 handles, 3 tasks, 2 workers; runtime tasks: trees of 3 tasks of every kind, 2 workers, 1 corun a task; subflows: 3 tasks, 2 workers, 2 rounds, 1 join or corun a task | `NodesConsistent`: join counters exact, one place, parents outlive children. `DependentOrder` and `DependentOwnership`: a dependent task runs after its predecessors, once; no use after recycle, no leak. `JoinsOnce`, `FailureReported`, `FuturesAnswered`, `NothingStuck` |
| `topology` | 2 clients, 2 workers, 2 runs of 0, 1 or 2 rounds of a shared, a moved, an empty taskflow | `Consistent` (nothing freed is used), `PromiseExact`: the promise is set once, to what happened, after the asked number of rounds, and when no topology is counted, the promise of every counted run is set. `RunsInOrder`, `NothingStuck` |
| `task_graph` | 39 graphs of up to 5 nodes, 2 workers, 2 rounds, 3 semaphores | `Consistent` (one place, counters and units of semaphores exact, workers never all wait for a semaphore), `RunsAfterPredecessors`, `NothingSkipped`, `ExceptionKept`, `CancelStops`, `Finishes` |
| `pipeline` | 3 workers, 1 to 3 lines, 3 pipes of all types, 4 tokens, 2 runs and the resets between them | `Consistent` (one carrier a line, token and data exact), `ImplementsTokenFlow`, `RunEnds` (and undisturbed runs end with all tokens through) |
| `algorithms` | loops: 6 algorithms, 4 partitioners, chunk sizes 0 to 3, 1 to 3 workers, up to 4 elements, 10 for the coarse part of the guided loop, 5 and 8 for strides; scans of up to 5 elements in 4 blocks by 1 to 3 threads; sorts of all arrays up to 9 elements of few values and chosen longer ones; kernels of 8 threads with 3 elements each, up to 600 elements; ranges of 3 bits, numbers of 8 | `TasksConsistent`: no element is read twice or out of range, nobody uses a frame that is gone. `ResultsExact`: reductions combine every element once, in no particular order, find_if has the first hit, min a least element (which of equal ones is left open, see section 7), scans, merges and sorts give the sequential result. `AlgorithmsEnd` |
| `library` | graphs of 3 nodes and 4 edges; all dumps of 3 taskflows and a subflow; 2 values saved at a time; vectors of up to 4 elements with room for 2; 2 workers with 3 observed tasks; 2 threads with 3 blocks of 3 objects; 3 clients of a thread; captures of all acyclic graphs of 4 nodes on up to 3 streams; CUDA graphs of 2 nodes, 1 update, 2 launches; 3 handles | `GraphsExact`, `GraphsImplement`, `RoundTrip`, `VectorExact`, `ProfilesExact`, `ThreadsExact`, `CudaExact` |
| `semaphore_rollback_returns`, `async_exception_dropped`, `cancellation_completes` | the smallest that show it | one statement of the sources each, which the code does not keep (section 6) |

Why the bounds are enough for the interesting cases:

- *notifier*: two waiters give stacks of two and every order of push and pop; two notifiers
  interfere with each other; a waiter sleeps twice, so that links and epochs are reused and an
  ABA would show (without epochs in the word it does). `MaxEpoch`, `MaxWaits` and `MaxWork` bound
  the waits; `EpochSize` is small enough for the sign of differences to matter.
- *work_stealing*: one worker announces itself while the other queues; one slot makes queues
  overflow; three tasks are one that runs, one queued and one in the buffer. `MaxSteals`
  bounds the attempts of one exploration.
- *task_queue*: every slot is reused and the buffer grows; two thieves race with each other and
  with the owner. `MaxIndex` bounds the indexes. In the ring a position comes round (`MaxPos`)
  while the thread of the round before still holds the cell.
- *async*: three tasks are the least with a chain, a join and a fork, or a parent with two children
  of which one is stolen into a corun of the other; two clients lock one node; handles are fewer
  than tasks, so that nodes are dropped while linked. `MaxCoruns` and `MaxJoins` bound the calls of
  a callable, `MaxRounds` the runs of the topology: the second meets what the first left.
- *topology*: two runs of one taskflow make a hand-over, and two of different taskflows
  independence. More repetitions repeat the same loop.
- *task_graph*: the acyclic graphs on four tasks include diamonds and joins; every kind of task
  occurs inside and outside of a cycle; a second round starts from the counters the first left.
  `MaxJumps` bounds how often a condition task takes one successor, `Rounds` the rounds.
- *pipeline*: four tokens on three lines wrap around the grid; one line makes a cell its own
  successor; a second run follows a stopped, failed or cancelled one, with a reset or without.
- *algorithms*: ranges are shorter than, equal to and longer than what the tasks claim at a time,
  with rests of one; fewer elements than blocks; arrays sit around the ends of warps, blocks and
  tiles; with one thread every wait is on top of another. The longer arrays of the sort
  reach the ninther with its nine places apart and the heap sort; `Insertion`, `Cutoff`, `PartialLimit` and `SortBlock` stand for the
  thresholds of the code. All words of `NumberBits` bits are tried.
- *library*: a task with two successors and two predecessors has every boundary in its array; two
  blocks of a pool in one heap and one in another make all movements; the vector grows out of its
  inline room; observed tasks nest three deep.

Symmetry is used for threads, clients, handles and items whose actions the module does not tell
apart, never in a run with a liveness property.

## 4. Fairness

`WorkStealing` assumes weak fairness of each worker's step, each client inside a call, and the
thread in the destructor: the operating system runs every thread that can run, and no loop of
the library holds a lock across a step. Submitting work and destroying the executor have no
fairness: a user need not do either. `EventCount` steps happen inside of these. `TaskGraph` and
`Pipeline` assume weak fairness of each worker (callables return), `Pipeline` also of `End`, the
module task's completion, which is a worker's step too. In `algorithms` each thread of a scan
is weakly fair, and of the loops only the next-state relation as a whole: some task goes on,
which is enough, as its tasks do not wait for each other. No strong fairness is used anywhere.

`Finishes` of `task_graph` is `<>(Finished \/ Crossed)`: tasks that take two semaphores in opposite
orders may give way to each other for ever, and weak fairness cannot exclude that.

In the other modules every call and every task takes finitely many steps, so that a run that goes
on must come to rest. Instead of liveness they state what rest looks like: `NothingStuck` says
that when no thread of the library can take a step, nobody waits for it. (Spinning, in
`DependentAsync` on a node's lock, is a disabled step there.)

## 5. The proofs

Assumptions: `WaitersAssumption` (the waiters are a finite set), `SchedulerAssumption` (at least
one worker and one buffer, workers are numbered as the waiters are, no task is the null node,
`Capacity` and `MaxSteals` are natural numbers), `TaskAssumption` (finitely many tasks),
`MPMCAssumption` (there are items, at least two cells, and nobody is on both sides),
`PipelineAssumption` (there is a line and a pipe, the bounds are natural numbers, `NoLine` is no
line), `NotifierAssumption` of the notifiers (finitely many waiters, none of whom is a
notifier or the null waiter; in the first version the epochs take more than twice as many values as
a waiter waits) and `WorkAssumed` of the C++20 one (finitely many notifiers), `GraphAssumption` (finitely many tasks, the topology and the null node are no tasks, semaphores
have a positive maximum, graphs are of the right type), `TopologyAssumption` (sizes, repetitions and runs are natural numbers, no client is a worker,
`Nobody` is none of the values it is compared with); and, stated as hypotheses of the theorems or
assumed by the module that instantiates, `QueueAssumption` (the first buffer has a slot, the owner
is no thief), `AsyncAssumption` (finitely many handles and tasks, tasks are numbers, the null
node is no task) and `RuntimeAssumption` (finitely many tasks, which are numbers, the null node is
none of them, kinds are those of the code) and `SubflowAssumption` (a finite, nonempty set of tasks,
which are numbers, the null node is none of them, there is a round). Nothing else is assumed of the constants, and no fairness.

`WorkStealingProofs` begins with the event count: `SignalsBoundedAlways`, the assertion of `_check_state`, by the inductive
invariant `ECInv` (types and the bound itself) and lemmas on how one announcement changes the
number of announced waiters.

And of the scheduler, for any number of workers, buffers, clients and tasks:

- `ImplementsEventCount`: every step of the scheduler is an operation of the event count or
  leaves it alone, so that `SignalsBounded` carries over.
- `TypeCorrect`, `NoLostWakeupAlways`, `InOnePlaceAlways`, `OwnQueueEmptyAlways` and
  `CleanExitAlways`, from one inductive invariant `IInv`.

`NoLostWakeup` is not inductive alone. Its weak spot is a worker that is announced: it has passed
some queues and will not look at them again, so a task pushed there must leave a signal or a
woken worker, and `cancel_wait` by another worker may take that signal away. The invariant
therefore has `WaitProtocol` (a worker's place in its loop and in the two-phase wait agree, hence
a notification that finds an announced worker finds one between `check` and `commit`),
`SignalsBounded` (a signal implies such a worker), `OwnQueueEmptyWhileWaiting` (the queue a
worker skips is its own and is empty), `ClosedWhenStopping` (the done flags rise when nothing is
queued, so a worker that leaves abandons nothing) and `InOnePlace` (nothing finished is queued).
A cancelling worker goes back to exploring and so replaces the signal it took by itself. Each
conjunct has a lemma of its own, `ProtocolNext`, `OwnQueueNext`, `ClosedNext`, `OnePlaceNext`,
`WakeupNext`, with a step for every action; `StealFacts`, `PushFacts` and `PopFacts` say once
what an operation on a queue does.

`QueueProofs`, of the work-stealing queues, for any number of thieves, any items and any size of the
first buffer, bounded or growing:

- `QueueImplementsDeque`: every step of the queue is one of the abstract deque or none.
- `QueueHonestAlways`: the variables keep their types, the buffer holds all that is in the queue,
  and `empty()` is honest.

`DequeHonestAlways` and `ImplementsDequeAlways` carry both over to the run's own specification, in
which queue and ring lie side by side.

The inductive invariant `IInv` says of the indexes that the buffer has room for what lies between
them (`Indexes`), of the owner that its copy of `_top` is out of date in the harmless direction only
(`OwnerKnows`), and of a thief what it knows *as long as `_top` is what it has read* (`ThiefKnows`):
there is an item at that index, and the array it holds, however old, and the item it has read agree
with the current array there. Once `_top` has moved, nothing is known and nothing is needed, as the
compare-exchange fails (`ThievesBehind`); `_top` never comes back, so there is no ABA. That a store
overwrites none of these slots is arithmetic: fewer consecutive indexes than slots have a slot each
(`SlotsDiffer`). `ItemsPush`, `ItemsPop` and `ItemsSteal` turn a slot that changes into the operation
of the deque, and `PutFacts` and `ResizeFacts` say what happens to the items of a buffer.

And of the ring buffer: `FifoExactAlways`, the run property `FifoExact` for any number of producers,
consumers and cells. The sequence number of a cell decides everything: `p + 1` can be in the cell of position
`p` only if `p` was enqueued, and `p` itself only if the item one round before was claimed by a
consumer. Neighbouring numbers fall into different cells, which is why the numbers of the two
sides cannot be mistaken for each other, and why the ring must have at least two.

`PipelineProofs`, for any number of workers, lines, pipes of any type, tokens and runs:
`PipelineConsistent` and `PipelineImplementsTokenFlow`. The inductive invariant goes by tokens, not
by cells. For a token and a pipe it says what the cell still waits for (the token's own earlier
pipe; at a serial pipe the token before; at the first pipe the token that left the line free) and
that the cell's counter is that number (`Exacts`), or in a run that was cancelled or threw at least
that number (`Counts`); that a counter at zero has a carrier, queued or a worker (`HeadsOK`), and a
line no second one (`Alones`); and that a serial pipe was left by all earlier tokens before the next
is in it (`Orders`). At the end of a run the least token that is not through would have a cell that
waits for nothing, hence a carrier, and there is none (`LeastNumber`, `TokensThrough`). In the
refinement a worker that takes up a cell enters the pipe, the return of the callable leaves it, a
`stop` or an exception withdraws the token, and a reset starts over; all counter operations stutter.

`TopologyQueueProofs`, for any number of clients, workers, taskflows and runs: `TopologyConsistent`,
`TopologyRunsInOrder` and `TopologyPromiseExact`. The invariant says which thread is in charge of a
run and what it knows at its place in the code (`Places`, `Alones`), who holds a taskflow's mutex
(`Mutexes`), that a queue is what is left of the runs submitted to its taskflow, in their order and
each once (`Queues`), how far a run got: fresh, waiting, in front or over (`Runs`), with an account
of its tasks: those run, those with workers and those due are what was asked; which runs and
workers `_num_topologies` counts (`Flows`, `TopologiesOK`).

`AsyncProofs`, of dependent tasks, for any number of clients, handles, workers and tasks:
`AsyncInvariant`, `AsyncConsistent`, `AsyncRunsAfterPredecessors` and `AsyncOwnership`, which
`RunsAfterPredecessorsAlways` and `OwnershipAlways` carry over to the run's specification. A
predecessor of a task is in
the list of handles that the creator has still to go through, or in the edges of a node that was not
torn down that far, or finished; the join counter counts the first two (`Joins`, `Preds`). It is
zero only when all are finished, one thread alone takes it there, and that thread schedules the task
(`Ready`). A use count is the number of handles, of a handle about to be returned, and of the
executor's own reference (`Owners`, `Counts`). TLC checked this invariant on the run's instance
before it was proved.

And of runtime and asynchronous tasks, for any number of workers and tasks: `RuntimeTasksConsistent`
and `FuturesAnsweredAlways`. A place is a worker and a depth in its stack of invocations; the
invariant `RunInv` says that a task that was created and not recycled is queued and has not run, or
is at one place, or was left before its children (`Located`), what an invocation at each place of
the code knows of its task (`Invokes`: between the first invocation and its return the join counter
is the number of children and one), that a parent is a runtime task that is not recycled (`Family`),
and when a promise may be pending or broken (`Promises`). A counter that reaches zero so has no
other holder, which is why the last child may recycle or resume its parent. The ancestors of a task
are, in `Runtime`, the least set that holds it and the parents of its members. With what
`SubflowProofs` shows, `NodesConsistentAlways` states `NodesConsistent` of all three parts of the run.

`SubflowProofs`, for any number of workers and tasks, any depth of nesting, and any number of rounds,
joins and coruns: `SubflowConsistent` and `SubflowJoinsOnce`, which `NodesConsistentAlways` and
`JoinsOnceAlways` of `AsyncProofs` state in the run's specification. A task is in hand (`Held`) when it
is queued, at a place of some stack, or was left before its graph. `Placed` says that no task is in
two of these ways in hand, that a join counter is the number of tasks of the graph in hand (`Flight`),
and that a task with such a graph waits: at a join on a stack, or left with the mark `PREEMPTED`. So
parents of what is in hand are in hand (`HeldClosed`), and below a task that waits for nothing there
is nothing in hand (`NothingBelow`): when a subflow is called again, cleared, or run anew by the
topology, or a corun returns, the nodes that go can be taken out of the forest at once, whatever
their number and depth, and no frame of any worker names one of them. `Stacked` keeps the order of a
worker's stack (joins and callables that corun below the topmost frame), on which the return of a
join or corun depends. For `JoinsOnce` the invariant `Once` adds what each place of the code knows:
a task that is queued or begins has not run, a frame past its callable has, a subflow that is
not marked `JOINED` has a graph of tasks that have not run until it joins it or leaves, and while it
joins every task has run or is in hand. A join that fails leaves the mark unset and the
graph done; that the graph is not run once more is because the exception cancelled it, which the
tasks see when they begin: `Fresh` and `Done` are both true of a cancelled task. `OnceKept`
says what a step must show of the few nodes it touches, and one lemma for each action shows it. TLC
checked both invariants on the run's instance before they were proved.

`NotifierProofs`, for any number of waiters and notifiers: `NotifiersAreConsistent` and
`NotifiersImplementCounts` in the run's specification, and each notifier by itself. In both
nonblocking notifiers a waiter is on a list that others read while it changes. The invariant cuts
the sleepers that are not woken yet into disjoint lists that end, the stack and what each
`notify_all` or `notify_one` has taken from it (`Lists`, over the ends and links of `Partition`);
pushing, popping and taking all keep that. A pop compares a word and not the list, and is right by
what the invariant says of a word that a thread has read (`Reads`): while `state` is that word, what
was read beside it is still true. In the second version the reason is the epoch in the word, which
is the one that the top stored when it was pushed; in the first, that no waiter is decided about
while the epoch stays. There the announced waiters that nothing was decided about have the tickets
from the epoch on, each its own (`Tickets`), so that whoever goes ahead is the first of the line. Of
the C++20 notifier `Covered` says that while a sleeper has seen the present epoch there is for every
piece of work a notification that will still change it, and that other sleepers are covered by a
notification that has passed them or by threads that are up. What follows from a waiter along the
links (`Reach`, `Chain`) is stated as a least closed set, which is what the loops of the code walk
through.

`TaskGraphProofs`, for any number of tasks, workers, semaphores and rounds. `CancelStopsAlways` holds of
every graph: a worker that finished a task after the cancellation is past the only place where it
could start another (`CancelInv`). The other four are about plain graphs,
`Plain(g)`: no condition tasks, an edge stays within one graph, and graphs are nested in module
tasks, to any finite depth. The graph of a behaviour never changes, so `Plain(g)` selects behaviours
and not moments, also when `Shapes` has other graphs.

- `OnePlaceAlways`: a task is at one place, and the counter of a topology or of a running module is
  the number of tasks of its graph in flight, which is what `InOnePlace` and `RootCounterExact` add
  up place by place.
- `RunsAfterPredecessorsAlways`, `NothingSkippedAlways`, `ExceptionKeptAlways`.

`RunsAfterPredecessors` says nothing of the counters, which is what it depends on. The invariant
reads them back (`Joins`): the join counter of a task is the number of edges to it that were not
counted off, `Left`, plus, from the moment its own worker restored it, the number of all of them.
Hence who counts it to zero counts off the last edge, a task in flight has none left (`Befores`), and
a predecessor with an edge that is left has not run or is still with its worker. `Counted` says the
same of the counters of topologies and modules and the tasks in flight; a module is resumed, or a
round ended, only when nothing of its graph is. That nothing inside of a module is in flight
either when the topology's counter is down to its last task is shown from the depth of the nesting
(`LastTask`). `Skips` is the converse that `NothingSkipped` needs: what has no edge left is in flight
or was run, unless the run was cancelled. The proof first sorts the actions into eight kinds of
steps by what they do to these notions (`StepKinds`), with the places of tasks (`Placed`), and then
goes through the kinds. TLC checked both layers on the run's plain graphs before they were proved. With condition
tasks `Joins` is false, since a condition schedules a task whatever its counter says; these graphs are
model-checked.

Proved by name, in the specification that the run checks: `NoLostWakeup`, `InOnePlace` and
`CleanExit` of `work_stealing`; `DequeHonest`, `ImplementsDeque` and `FifoExact` of `task_queue`;
`Consistent` and `ImplementsTokenFlow` of `pipeline`; `Consistent`, `RunsInOrder` and `PromiseExact`
of `topology`; `NotifiersConsistent` and `NotifiersImplement` of `notifier`; `DependentOrder`,
`DependentOwnership`, `NodesConsistent`, `JoinsOnce` and `FuturesAnswered` of `async`; `CancelStops` of `task_graph`, and
for plain graphs `RunsAfterPredecessors`, `NothingSkipped` and `ExceptionKept`.

Only model-checked: the refinement of GraphEdits; `Consistent` of
`task_graph`, whose sums over workers and semaphores are recursive, and all of its graphs with
conditions; `FailureReported` of Runtime and Subflow; the algorithms and the library; `NothingStuck`, which is
stated with `ENABLED`, and all liveness. Liveness and `ENABLED` are beyond the proof system's reach,
and so is induction over recursive definitions, which no proof uses.

## 6. Statements the code does not keep

Each has a run that TLC must find violated, with the statement quoted in `PROJECT.json`.

- `semaphore_rollback_returns` (graph.h:609). A task that fails on its second semaphore is put
  among that semaphore's waiters before the first is given back; another worker may wake it, run
  it and finish the topology while the first is still in the loop over the node's semaphores,
  although the executor promises no lifetime beyond the promise (executor.h:2322).
- `async_exception_dropped` (graph.h:643). The first corun of an async task takes away the anchor it
  was created with; the exception of a later child is dropped and the future gets a value.
- `cancellation_completes` (executor.h:1647). A cancelled task is torn down without the release of
  its semaphores. If it was to release what an earlier task acquired, as
  tests/test_semaphores.cc:396-397 does, a task that waits is never scheduled again and the cancelled
  run does not complete, although taskflow.h:644 says that one can wait for it.

## 7. Further observations

Read from the code or met while modelling, without a run of their own.

Executor:

- When the task that throws is itself the anchor and a child's exception came first, executor.h:1880
  assigns the exception of the very node that keeps the child's, against the comment at 1862 that
  the first is taken; the child's worker assigns it at 1864 after its own `fetch_or`, so that the
  two assignments may also race.
- After a caught corun or join exception the EXCEPTION and CANCELLED flags stay, so that children
  spawned later are skipped (graph.h:594), also those of a subflow that a condition task enters
  again. A child that throws just before its parent anchors in corun is reported past it.
- The notifier does not make the scheduler work-conserving: a notification may be absorbed by an
  announced worker that has already decided to cancel (executor.h:1464, 1475), so that two tasks may
  briefly be served by one awake worker. Nothing claims otherwise, and no task is lost.
- `Freelist` has floor(log2 N) buckets (freelist.h:60-63): one for two and for three workers.
- Copy-assigning an `AsyncTask` handle to itself drops the last reference before taking it again
  (async_task.h:233); the model's clients do not.
- `Future::cancel` may answer true after the promise is set, as the last worker still holds the
  topology (taskflow.h:683, executor.h:2316-2324).
- An empty or zero-times moved taskflow stays on the list that `num_taskflows` counts until the
  executor goes (executor.h:2121-2127, 2154). That count reads the list without its lock.
- Futures of successive runs of one taskflow may become ready out of order.
- A pipeline's loop does not look at cancellation between pipes, and a cancelled or failed pipeline
  needs `reset` before it runs again.
- `num_workers` of the profile that TFProfObserver dumps counts workers whose segments were cleared.

Algorithms and utilities:

- `min_element` and `max_element` merge tasks in the order in which they end, and `find.h:225` prefers
  the second of two equal elements, so that among equal ones they may return any, where the loop that
  flow_builder.h:1126-1140 calls equivalent returns the first. So does the loop that
  cuda/algorithm/find.h:219-230 gives for `cuda_min_element`, while find.h:110-112 takes the second of
  two equal elements and combines them in the order of strided loads. `ResultsExact` accepts any.
- The loops that flow_builder.h:572-578 gives for `reduce` apply the operator from left to right; the
  tasks merge their sums as they end, so that only an associative and commutative operator gives the
  same. `ResultsExact` compares which elements were combined, not their order.
- When the operation of a scan throws in a block, the block never arrives at the counter: the others
  stay in `corun_until`, and if it is the parent's own block, its frame goes while they use it.
- A range with step 0 whose ends are equal passes `is_index_range_invalid`, and `distance` divides by
  zero. `distance` adds the step before it divides, which overflows near the limits of the type: for
  an unsigned type the range 0 to its maximum by 2 has no iterations. The forms by range also need
  `begin + N * step` to fit. `next_pow2` of a number above the largest power of two is 0.
- Self-assignment by move of a `cudaDeviceVector` forgets its memory. A `cudaScopedDevice` on the
  device that is already current puts nothing back, also if the device is changed inside of it.

## 8. What is left out, and why

Relaxed memory orders: all modules are sequentially consistent; the fences of the code
(nonblocking_notifier.h:373-376, 494; tsq.h:228, 254) are what justifies it for the accesses that
matter. Spurious failures of a weak compare-exchange, which repeat a step, are in MPMC only.

- *Executor*: `steal_with_hint`, which is `steal` with a counter for statistics; `Runtime::schedule`,
  dependent children of a Runtime, a callable that blocks on a child's future (it may deadlock by
  design); `Semaphore::reset`; graphs with task races or without sources, which the documentation
  excludes; moved-from pipelines.
- *Algorithms*: callables that throw; `parallel_3wqsort`, which nothing calls.
- *Flow builder, observers*: names, data pointers, layout of text and times; TFProfManager, which
  writes the dumps one after the other when the program ends.
- *Utilities*: truncated streams and `vector<bool>` in the serializer (whose fold operands are taken
  to be evaluated left to right); empty ranges of non-trivial elements and an argument inside of the
  vector that must grow in SmallVector; the destructor of ObjectPool; a std::thread that cannot be
  made and a derived object that is destroyed while its thread runs; strings, UUIDs, traits, `os.h`:
  stateless. DSL: compile-time syntax over the flow builder.
- *CUDA*: operators are taken as commutative with a neutral `T()`, as the strided loads require;
  matmul and transpose, one element per thread; the class of graphs that the optimizers take, which
  is no longer in the repository; the remaining wrappers, each one call of the CUDA runtime.

## 9. Plan

Done: all modules of section 2, checked; EventCount, WorkStealing, TaskQueue, MPMC, Pipeline,
TopologyQueue, the three notifiers, DependentAsync, Runtime and Subflow (but for `FailureReported`)
and, for graphs without conditions, TaskGraph also proved.

Next proofs, in order of what they would say:

1. TaskGraph: the units of semaphores; `RunsAfterPredecessors` for graphs with condition tasks, where
   a counter is below the number of edges left by the jumps to its task.
2. `FailureReported` of Runtime and Subflow: what was thrown is stored, or with a worker, or with a
   node that a join, a corun or a topology will look at.
3. ParallelLoops: no element twice, for any range, number of workers and chunk size.

Next models: throwing callables inside of the algorithms; dependent children of a Runtime; tasks
with dependencies inside of a subflow (TaskGraph and Subflow in one module).
