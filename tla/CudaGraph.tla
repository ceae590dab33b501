------------------------------ MODULE CudaGraph -----------------------------
(***************************************************************************)
(* CUDA graphs and the executable graphs made of them (cuda/cuda_graph.h,  *)
(* cuda_graph_exec.h, cuda_stream.h).  A request of the user (zero or fill *)
(* some elements, copy, apply a callable to each) becomes a node with the  *)
(* native parameters of its type.  An executable graph is a copy: later    *)
(* tasks and edges are not in it, its tasks are updated one by one, and    *)
(* what was launched before an update does not change.                     *)
(*                                                                         *)
(* The CUDA runtime is external: it runs the nodes of a launch in an order *)
(* that the edges allow, and the launches of a stream one after the other. *)
(***************************************************************************)
EXTENDS Integers, Sequences, FiniteSets, SequencesExt

CONSTANTS
    Base,           \* the values of a byte
    Initial,        \* the bytes of the memory
    Requests,       \* what may be asked: see Request
    nt, vt,         \* cudaExecutionPolicy
    MaxNodes,       \* bound on the tasks
    MaxUpdates,     \* bound on the updates
    MaxLaunches     \* bound on the launches

VARIABLES
    nodes,      \* the graph's nodes: what was asked for, and the native parameters
    edges,      \* pairs of a node and one that it precedes
    exec,       \* the executable graph, or NoExec
    launches,   \* what the stream has to run, with the nodes that did
    memory,
    before,     \* the memory when the first launch began
    updates, launched

graphVars == <<nodes, edges, exec, launches, memory, before, updates, launched>>

NoExec == <<>>
Addr == DOMAIN Initial
\* size is sizeof(T), and count the elements, for memset and memcpy the bytes.
Request == [op : {"noop", "host", "single_task", "memset", "memcpy", "zero", "fill", "copy",
                  "for_each", "for_each_index", "transform"},
            dst : Addr, src : Addr, size : Nat, value : Nat, count : Nat]

-----------------------------------------------------------------------------
(* The parameters of native nodes *)

Memset(r)     == [type |-> "memset", dst |-> r.dst, elementSize |-> 1, value |-> r.value,
                  width |-> r.count]
Memcpy(r)     == [type |-> "memcpy", dst |-> r.dst, src |-> r.src, bytes |-> r.count]
Copy(r)       == [type |-> "memcpy", dst |-> r.dst, src |-> r.src, bytes |-> r.count * r.size]
\* The value's bytes are the first ones of a word that is zero.
Fill(r)       == [Memset(r) EXCEPT !.elementSize = r.size]
Zero(r)       == [Memset(r) EXCEPT !.elementSize = r.size, !.value = 0]

nv == nt * vt
NumBlocks(n)  == (n + nv - 1) \div nv
Kernel(g, b, f, r) == [type |-> "kernel", gridDim |-> g, blockDim |-> b, func |-> f, args |-> r]
Noop          == [type |-> "empty"]
Host(r)       == [type |-> "host", fn |-> r.op, userData |-> r]
SingleTask(r) == Kernel(1, 1, "single_task", r)
ForEach(r)    == Kernel(NumBlocks(r.count), nt, "for_each", r)
ForEachIndex(r) == Kernel(NumBlocks(r.count), nt, "for_each_index", r)
Transform(r)  == Kernel(NumBlocks(r.count), nt, "transform", r)

Params(r) ==
    CASE r.op = "noop" -> Noop
      [] r.op = "host" -> Host(r)
      [] r.op = "memset" -> Memset(r)
      [] r.op = "memcpy" -> Memcpy(r)
      [] r.op = "zero" -> Zero(r)
      [] r.op = "fill" -> Fill(r)
      [] r.op = "copy" -> Copy(r)
      [] r.op = "single_task" -> SingleTask(r)
      [] r.op = "for_each" -> ForEach(r)
      [] r.op = "for_each_index" -> ForEachIndex(r)
      [] r.op = "transform" -> Transform(r)

-----------------------------------------------------------------------------
(* What a native node does *)

\* The i-th byte of a number, the lowest one first.
Byte(x, i) == (x \div Base ^ i) % Base
Element(mem, at, size) ==
    FoldLeft(LAMBDA x, i : x + mem[at + i - 1] * Base ^ (i - 1), 0, [i \in 1 .. size |-> i])
Store(mem, at, size, x) ==
    [a \in Addr |-> IF a \in at .. at + size - 1 THEN Byte(x, a - at) ELSE mem[a]]

\* The user's callable adds one to an element.
More(x, size) == (x + 1) % Base ^ size

\* An element of a kernel's range.
Apply(mem, p, j) ==
    LET r == p.args
        from == IF p.func = "transform" THEN r.src + j * r.size ELSE r.dst + j * r.size
    IN  Store(mem, r.dst + j * r.size, r.size, More(Element(mem, from, r.size), r.size))

\* cuda_get_tile and cuda_strided_iterate: the elements of a thread.
ElementsOf(p, b, t) ==
    LET begin == nv * b
        end == IF nv * (b + 1) < p.args.count THEN nv * (b + 1) ELSE p.args.count
    IN  SelectSeq([i \in 1 .. vt |-> begin + nt * (i - 1) + t], LAMBDA j : j < end)

RunKernel(mem, p) ==
    LET threads == [k \in 1 .. p.gridDim * p.blockDim |-> k - 1]
        ofThread(m, k) ==
            FoldLeft(LAMBDA x, j : Apply(x, p, j), m, ElementsOf(p, k \div p.blockDim, k % p.blockDim))
    IN  IF p.func = "single_task" THEN Apply(mem, p, 0)
        ELSE FoldLeft(ofThread, mem, threads)

RunNode(mem, p) ==
    CASE p.type = "empty" -> mem
      [] p.type = "host" -> Store(mem, p.userData.dst, 1, More(mem[p.userData.dst], 1))
      [] p.type = "memset" ->
            [a \in Addr |-> IF a \in p.dst .. p.dst + p.elementSize * p.width - 1
                            THEN Byte(p.value, (a - p.dst) % p.elementSize) ELSE mem[a]]
      [] p.type = "memcpy" ->
            [a \in Addr |-> IF a \in p.dst .. p.dst + p.bytes - 1
                            THEN mem[p.src + a - p.dst] ELSE mem[a]]
      [] p.type = "kernel" -> RunKernel(mem, p)

-----------------------------------------------------------------------------
Init ==
    /\ nodes = <<>> /\ edges = {}
    /\ exec = NoExec /\ launches = <<>>
    /\ memory = Initial /\ before = Initial
    /\ updates = 0 /\ launched = 0

NodeFor(r) == [asked |-> r, params |-> Params(r)]

\* cudaGraphBase: a node without edges, and a handle to it
Emplace(r) ==
    /\ Len(nodes) < MaxNodes
    /\ nodes' = Append(nodes, NodeFor(r))
    /\ UNCHANGED <<edges, exec, launches, memory, before, updates, launched>>

\* cudaTask::precede; succeed is the other task's.  CUDA refuses an edge twice.
Precede(u, v) ==
    /\ u # v /\ <<u, v>> \notin edges
    /\ edges' = edges \cup {<<u, v>>}
    /\ UNCHANGED <<nodes, exec, launches, memory, before, updates, launched>>

\* cuda_graph_node_get_dependencies and _get_dependent_nodes
Dependencies(v) == {u \in DOMAIN nodes : <<u, v>> \in edges}
DependentNodes(u) == {v \in DOMAIN nodes : <<u, v>> \in edges}

\* The orders that edges allow for some nodes; none, when they are on a cycle.
Orders(S, es) == {o \in SetToSeqs(S) : \A i, j \in DOMAIN o : <<o[i], o[j]>> \in es => i < j}

\* cudaGraphExecCreator; it throws for a graph with a cycle.  One is made here.
Instantiate ==
    /\ exec = NoExec
    /\ Orders(DOMAIN nodes, edges) # {}
    /\ exec' = [nodes |-> nodes, edges |-> edges]
    /\ UNCHANGED <<nodes, edges, launches, memory, before, updates, launched>>

\* cudaGraphExecBase: new parameters for a task; CUDA keeps its type.
Update(v, r) ==
    /\ updates < MaxUpdates
    /\ exec # NoExec /\ v \in DOMAIN exec.nodes
    /\ Params(r).type = exec.nodes[v].params.type
    /\ exec' = [exec EXCEPT !.nodes[v] = NodeFor(r)]
    /\ updates' = updates + 1
    /\ UNCHANGED <<nodes, edges, launches, memory, before, launched>>

\* cudaStreamBase::run, which does not wait
Launch ==
    /\ launched < MaxLaunches /\ exec # NoExec
    /\ launches' = Append(launches, [graph |-> exec, done |-> {}])
    /\ launched' = launched + 1
    /\ UNCHANGED <<nodes, edges, exec, memory, before, updates>>

\* The device runs a node of the stream's first launch.
Run(v) ==
    LET first == Head(launches) IN
    /\ launches # <<>>
    /\ v \in DOMAIN first.graph.nodes \ first.done
    /\ \A u \in DOMAIN first.graph.nodes : <<u, v>> \in first.graph.edges => u \in first.done
    /\ memory' = RunNode(memory, first.graph.nodes[v].params)
    /\ launches' = [launches EXCEPT ![1].done = @ \cup {v}]
    /\ UNCHANGED <<nodes, edges, exec, before, updates, launched>>

Complete ==
    /\ launches # <<>> /\ Head(launches).done = DOMAIN Head(launches).graph.nodes
    /\ launches' = Tail(launches)
    /\ before' = memory
    /\ UNCHANGED <<nodes, edges, exec, memory, updates, launched>>

Next ==
    \/ \E r \in Requests : Emplace(r)
    \/ \E u, v \in DOMAIN nodes : Precede(u, v)
    \/ Instantiate \/ Launch \/ Complete
    \/ \E v \in 1 .. MaxNodes : Run(v) \/ \E r \in Requests : Update(v, r)

Spec == Init /\ [][Next]_graphVars

-----------------------------------------------------------------------------
(* Properties *)

\* A request as it is documented, element by element.
Fulfilled(mem, r) ==
    LET Place(j) == r.dst + j * r.size
        Change(f(_)) == FoldLeft(LAMBDA m, j : Store(m, Place(j - 1), r.size, f(j - 1)), mem,
                                 [j \in 1 .. r.count |-> j])
    IN  CASE r.op = "noop" -> mem
          [] r.op = "host" -> [mem EXCEPT ![r.dst] = (@ + 1) % Base]
          [] r.op = "single_task" -> Store(mem, r.dst, r.size, More(Element(mem, r.dst, r.size), r.size))
          [] r.op \in {"memset", "fill"} -> Change(LAMBDA j : r.value)
          [] r.op = "zero" -> Change(LAMBDA j : 0)
          [] r.op \in {"memcpy", "copy"} -> Change(LAMBDA j : Element(mem, r.src + j * r.size, r.size))
          [] r.op \in {"for_each", "for_each_index"} ->
                Change(LAMBDA j : More(Element(mem, Place(j), r.size), r.size))
          [] r.op = "transform" ->
                Change(LAMBDA j : More(Element(mem, r.src + j * r.size, r.size), r.size))

InOrder(mem, g, order) == FoldLeft(LAMBDA m, v : Fulfilled(m, g.nodes[v].asked), mem, order)

\* A launch does what was asked for by its graph as it was instantiated and
\* updated until then, in an order its edges allow, whatever is added to the
\* graph, updated or launched meanwhile; and the edges of a graph are counted
\* alike from both their ends.
RunsAsAsked ==
    /\ IF launches = <<>> THEN memory = before
       ELSE LET first == Head(launches)
            IN  \E order \in Orders(first.done, first.graph.edges) :
                   memory = InOrder(before, first.graph, order)
    /\ LET Sum(Of(_)) == FoldLeft(LAMBDA n, v : n + Cardinality(Of(v)), 0, [v \in DOMAIN nodes |-> v])
       IN  Sum(Dependencies) = Cardinality(edges) /\ Sum(DependentNodes) = Cardinality(edges)
=============================================================================
