----------------------------- MODULE MCLibrary ------------------------------
(* Small instances for TLC of the modules that do not interact: the initial    *)
(* state chooses which of them is checked, and the variables of the others     *)
(* stay <<>>.                                                                  *)
EXTENDS Integers, Sequences, FiniteSets, TLC

CONSTANTS
    Node, MaxEdges,                                     \* FlowGraph
    Base, SizeWidth, MaxPending,                        \* Serializer
    Value, Raw, Moved, Inline, MaxSize,                 \* SmallVector
    Worker, Type, MaxTasks, Ticks,                      \* Observers
    t1, t2, h1, h2, Block, M, F, K, None,               \* ObjectPool
    Clients, LatchCount, MaxIds,                        \* Threads
    MaxStreams,                                         \* CudaCapture
    nt, vt, MaxNodes, MaxUpdates, MaxLaunches,          \* CudaGraph
    MaxNatives, MaxScopes                               \* CudaHandles

VARIABLES
    part,       \* the module that is checked
    tasks, edges, num, kind,
    shape, stack, visited, clusters,
    stream, pending, loaded,
    pod, vec, contents,
    clock, entered, running, observers, stacks, segments, told,
    heap, used, first, free, lists, glist, total, mutex, pc, mem, seen,
    moving, held,
    life, handle, body, count, at, woken, callbacks, nextId, called,
    cancelled,
    succ, mode, streams, todo, idx, event, ops, after,
    nodes, arcs, exec, launches, memory, before, updates, launched,
    objects, natives, loose, current, scopes

-----------------------------------------------------------------------------
\* GraphDump: three taskflows, with modules of each other and of themselves,
\* and one graph of a subflow.
SeqsUpTo(S, n) == UNION {[1 .. k -> S] : k \in 0 .. n}
PlainNode == [kind |-> "plain", graph |-> 0]
ModuleNodes == [kind : {"module"}, graph : 1 .. 3]
SubflowNode == [kind |-> "subflow", graph |-> 4]
AnyNode == {PlainNode, SubflowNode} \cup ModuleNodes
Shapes == {s \in {<<a, b, c, d>> : a \in SeqsUpTo(AnyNode, 2), b \in SeqsUpTo(AnyNode, 1),
                                   c \in SeqsUpTo(AnyNode, 1),
                                   d \in SeqsUpTo({PlainNode} \cup ModuleNodes, 1)} :
              Cardinality({<<g, i>> \in (1 .. 4) \X (1 .. 2) :
                             i \in DOMAIN s[g] /\ s[g][i] = SubflowNode}) <= 1}

\* Serializer: values of nested types, the empty and the longest ones among them.
Num(w)     == [kind |-> "number", width |-> w]
Str        == [kind |-> "string", element |-> Num(1)]
Vec(T)     == [kind |-> "vector", element |-> T]
MapOf(k, T) == [kind |-> "map", key |-> k, mapped |-> T]
SetOf(T)   == [kind |-> "set", element |-> T]
Opt(T)     == [kind |-> "optional", element |-> T]
Var(Ts)    == [kind |-> "variant", elements |-> Ts]
Tup(Ts)    == [kind |-> "tuple", elements |-> Ts]
Arr(T, n)  == [kind |-> "array", element |-> T, size |-> n]
Of(T, values) == {[type |-> T, value |-> v] : v \in values}
Items ==
    Of(Num(2), {0, 2, 5, 8})
    \cup Of(Vec(Str), {<<>>, << <<1>> >>, << <<>>, <<0, 2>> >>})
    \cup Of(SetOf(Str), {{}, {<<1>>}, {<<1>>, <<0, 2>>}})
    \cup Of(MapOf(Num(1), Opt(Num(2))), {{}, {<<0, <<>> >>, <<2, <<7>> >>}, {<<0, <<4>> >>}})
    \cup Of(Var(<<Num(1), Str, SetOf(Num(1))>>),
            {<<1, 2>>, <<2, <<1, 1>> >>, <<2, <<>> >>, <<3, {0, 1}>>})
    \cup Of(Tup(<<Opt(Str), Arr(Num(1), 2)>>),
            {<< <<>>, <<1, 2>> >>, << << <<2>> >>, <<0, 0>> >>, << << <<>> >>, <<0, 1>> >>})

\* ObjectPool: two threads, each with a local heap of its own.
Thread == {t1, t2}
Heap   == {h1, h2}
HeapOf == t1 :> h1 @@ t2 :> h2

\* CudaCapture: every acyclic graph of four nodes, its nodes in any order.
Upward == {g \in [1 .. 4 -> SUBSET (2 .. 4)] : \A v \in 1 .. 4 : \A w \in g[v] : w > v}
Graphs == {[v \in 1 .. 4 |-> {p[w] : w \in g[CHOOSE u \in 1 .. 4 : p[u] = v]}] :
              g \in Upward, p \in Permutations(1 .. 4)}

\* CudaGraph: requests that write to places in common, of elements of one byte
\* and of two, over one block or two.
Initial == [a \in 0 .. 4 |-> IF a \in {0, 3} THEN 1 ELSE 0]
Request(op, dst, src, size, value, n) ==
    [op |-> op, dst |-> dst, src |-> src, size |-> size, value |-> value, count |-> n]
Requests ==
    {Request("noop", 0, 0, 1, 0, 0), Request("host", 4, 0, 1, 0, 1),
     Request("single_task", 2, 0, 2, 0, 1), Request("memset", 1, 0, 1, 1, 3),
     Request("zero", 0, 0, 2, 0, 2), Request("fill", 0, 0, 2, 2, 2),
     Request("memcpy", 3, 0, 1, 0, 2), Request("copy", 0, 2, 2, 0, 1),
     Request("for_each", 0, 0, 1, 0, 3), Request("for_each_index", 1, 0, 2, 0, 2),
     Request("transform", 3, 0, 1, 0, 2)}

Flow    == INSTANCE FlowGraph
Dump    == INSTANCE GraphDump
Archive == INSTANCE Serializer
Vector  == INSTANCE SmallVector
Profile == INSTANCE Observers
Pool    == INSTANCE ObjectPool
Threads == INSTANCE Threads
Capture == INSTANCE CudaCapture
Device  == INSTANCE CudaGraph WITH Base <- 2, edges <- arcs
Handles == INSTANCE CudaHandles WITH Slot <- Node, Devices <- {0, 1}

ASSUME Pool!PoolAssumption

\* The nodes, the blocks and the clients are the same model values.
Symmetry == Permutations(Block)

-----------------------------------------------------------------------------
FlowOff    == tasks = <<>> /\ edges = <<>> /\ num = <<>> /\ kind = <<>>
DumpOff    == shape = <<>> /\ stack = <<>> /\ visited = <<>> /\ clusters = <<>>
ArchiveOff == stream = <<>> /\ pending = <<>> /\ loaded = <<>>
VectorOff  == pod = <<>> /\ vec = <<>> /\ contents = <<>>
ProfileOff == /\ clock = <<>> /\ entered = <<>> /\ running = <<>> /\ observers = <<>>
              /\ stacks = <<>> /\ segments = <<>> /\ told = <<>>
PoolOff    == /\ heap = <<>> /\ used = <<>> /\ first = <<>> /\ free = <<>> /\ lists = <<>>
              /\ glist = <<>> /\ total = <<>> /\ mutex = <<>> /\ pc = <<>> /\ mem = <<>>
              /\ seen = <<>> /\ moving = <<>> /\ held = <<>>
ThreadsOff == /\ life = <<>> /\ handle = <<>> /\ body = <<>> /\ count = <<>> /\ at = <<>>
              /\ woken = <<>> /\ callbacks = <<>> /\ nextId = <<>> /\ called = <<>>
              /\ cancelled = <<>>
CaptureOff == /\ succ = <<>> /\ mode = <<>> /\ streams = <<>> /\ todo = <<>> /\ idx = <<>>
              /\ event = <<>> /\ ops = <<>> /\ after = <<>>
DeviceOff  == /\ nodes = <<>> /\ arcs = <<>> /\ exec = <<>> /\ launches = <<>>
              /\ memory = <<>> /\ before = <<>> /\ updates = <<>> /\ launched = <<>>
HandlesOff == objects = <<>> /\ natives = <<>> /\ loose = <<>> /\ current = <<>> /\ scopes = <<>>

Parts == {"flow", "dump", "archive", "vector", "profile", "pool", "threads", "capture",
          "device", "handles"}

MCInit ==
    /\ part \in Parts
    /\ IF part = "flow"    THEN Flow!Init    ELSE FlowOff
    /\ IF part = "dump"    THEN Dump!Init    ELSE DumpOff
    /\ IF part = "archive" THEN Archive!Init ELSE ArchiveOff
    /\ IF part = "vector"  THEN Vector!Init  ELSE VectorOff
    /\ IF part = "profile" THEN Profile!Init ELSE ProfileOff
    /\ IF part = "pool"    THEN Pool!Init    ELSE PoolOff
    /\ IF part = "threads" THEN Threads!Init ELSE ThreadsOff
    /\ IF part = "capture" THEN Capture!Init ELSE CaptureOff
    /\ IF part = "device"  THEN Device!Init  ELSE DeviceOff
    /\ IF part = "handles" THEN Handles!Init ELSE HandlesOff

\* The parts stay as they are, but for the one of the step.
Still(parts) ==
    /\ UNCHANGED part
    /\ "flow" \in parts    => UNCHANGED <<tasks, edges, num, kind>>
    /\ "dump" \in parts    => UNCHANGED <<shape, stack, visited, clusters>>
    /\ "archive" \in parts => UNCHANGED <<stream, pending, loaded>>
    /\ "vector" \in parts  => UNCHANGED <<pod, vec, contents>>
    /\ "profile" \in parts =>
          UNCHANGED <<clock, entered, running, observers, stacks, segments, told>>
    /\ "pool" \in parts    =>
          UNCHANGED <<heap, used, first, free, lists, glist, total, mutex, pc, mem, seen,
                      moving, held>>
    /\ "threads" \in parts =>
          UNCHANGED <<life, handle, body, count, at, woken, callbacks, nextId, called,
                      cancelled>>
    /\ "capture" \in parts => UNCHANGED <<succ, mode, streams, todo, idx, event, ops, after>>
    /\ "device" \in parts  =>
          UNCHANGED <<nodes, arcs, exec, launches, memory, before, updates, launched>>
    /\ "handles" \in parts => UNCHANGED <<objects, natives, loose, current, scopes>>

MCNext ==
    \/ part = "flow"    /\ Flow!Next    /\ Still(Parts \ {"flow"})
    \/ part = "dump"    /\ Dump!Next    /\ Still(Parts \ {"dump"})
    \/ part = "archive" /\ Archive!Next /\ Still(Parts \ {"archive"})
    \/ part = "vector"  /\ Vector!Next  /\ Still(Parts \ {"vector"})
    \/ part = "profile" /\ Profile!Next /\ Still(Parts \ {"profile"})
    \/ part = "pool"    /\ Pool!Next    /\ Still(Parts \ {"pool"})
    \/ part = "threads" /\ Threads!Next /\ Still(Parts \ {"threads"})
    \/ part = "capture" /\ Capture!Next /\ Still(Parts \ {"capture"})
    \/ part = "device"  /\ Device!Next  /\ Still(Parts \ {"device"})
    \/ part = "handles" /\ Handles!Next /\ Still(Parts \ {"handles"})

mcVars == <<part, tasks, edges, num, kind, shape, stack, visited, clusters, stream, pending,
            loaded, pod, vec, contents, clock, entered, running, observers, stacks, segments,
            told, heap, used, first, free, lists, glist, total, mutex, pc, mem, seen, moving,
            held, life, handle, body, count, at, woken, callbacks, nextId, called, cancelled,
            succ, mode, streams, todo, idx, event, ops, after, nodes, arcs, exec, launches,
            memory, before, updates, launched, objects, natives, loose, current, scopes>>

MCSpec == MCInit /\ [][MCNext]_mcVars
-----------------------------------------------------------------------------
\* Every edge stands in the arrays of both its tasks, no array refers to a task
\* that is gone, and join counters start with the number of strong edges (precede,
\* remove_*, erase).  A dump names every graph that can be reached once, under the
\* number that the boxes of its modules show (Taskflow::dump).
GraphsExact ==
    CASE part = "flow" -> Flow!EdgesAgree
      [] part = "dump" -> Dump!DumpComplete
      [] OTHER -> TRUE

\* The one array of a node keeps its successors, which a condition's number counts,
\* in the order in which they were added, whatever is removed (_precede, erase).
GraphsImplement ==
    /\ part = "flow" => Flow!G!GInit
    /\ [][part = "flow" => Flow!G!GNext \/ UNCHANGED Flow!G!editVars]_mcVars

\* What is loaded is what was saved, whatever the container held before, and both
\* sides count the same bytes (Serializer::_save, Deserializer::_load).
RoundTrip == part = "archive" => Archive!RoundTrip

\* A vector holds what a std::vector would after the same calls, in cells of its
\* own, and leaves no object without an owner (small_vector.h).  Own elements are not
\* inserted while it grows, and no empty range of non-PODs is erased: see Operate.
VectorExact == part = "vector" => Vector!VectorExact

\* Observers see the tasks nested as workers ran them, and their reports count each
\* task once, at its level (_observer_prologue, on_entry, on_exit, summary).
ProfilesExact == part = "profile" => Profile!ProfilesExact

\* Objects, blocks and heaps agree whatever threads animate and recycle at once
\* (object_pool.h).  A thread object is started, runs and is joined once, the latch
\* opens at zero, and callbacks run once, last first (simple_thread.h, latch.h).
ThreadsExact ==
    CASE part = "pool" -> Pool!PoolExact
      [] part = "threads" -> Threads!ThreadsExact
      [] OTHER -> TRUE

\* Captured into few streams, a node still runs after all that it depends on, and
\* the first stream after everything (cuda_optimizer.h).  A CUDA graph runs as it
\* was instantiated and updated before the launch (cuda_graph.h, cuda_graph_exec.h).
\* What the runtime made is freed once by its one owner, and scopes put devices back.
CudaExact ==
    CASE part = "capture" -> Capture!CaptureOrdered
      [] part = "device" -> Device!RunsAsAsked
      [] part = "handles" -> Handles!HandlesExact
      [] OTHER -> TRUE
=============================================================================
