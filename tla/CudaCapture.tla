----------------------------- MODULE CudaCapture ----------------------------
(***************************************************************************)
(* How a cudaFlow is captured into a CUDA graph (cuda/cuda_optimizer.h):   *)
(* the sequential optimizer captures the tasks in a topological order into *)
(* one stream, the linear one follows the successors of the first source,  *)
(* and the round-robin one distributes the levels of the graph over        *)
(* streams and records and awaits as few events as it can.                 *)
(*                                                                         *)
(* CUDA's capture is external: an operation captured into a stream depends *)
(* on the operation before it in the stream, and a wait makes the stream   *)
(* depend on what the event's stream had captured when it was recorded.    *)
(* A captured operation is known by the set of all it depends on.          *)
(***************************************************************************)
EXTENDS Integers, SequencesExt

CONSTANTS
    Graphs,         \* sequences of the sets of each node's successors
    MaxStreams

VARIABLES
    succ,       \* _successors of the nodes, in the order of _nodes
    mode,       \* the optimizer
    streams,    \* _num_streams
    todo,       \* the nodes that are still to be captured, in order
    idx,        \* Capture::idx: the stream a node will wait for through one node
    event,      \* Capture::event: what the recorded event stands for
    ops,        \* what the next operation of each stream depends on
    after       \* what each captured node depends on

captureVars == <<succ, mode, streams, todo, idx, event, ops, after>>

Nodes == DOMAIN succ
Dependents(v) == {u \in Nodes : v \in succ[u]}
NoEvent == {0}

\* The depths _levelize finds: a node is one level below its deepest dependent.
Levels(s) ==
    LET n == Len(s)
        depth[v \in 1 .. n] ==
            LET above == {depth[u] : u \in {u \in 1 .. n : v \in s[u]}}
            IN IF above = {} THEN 0 ELSE 1 + (CHOOSE d \in above : \A e \in above : e <= d)
    IN depth

\* The levels one after the other, each in the order of _nodes: _reset's ids.
ByLevel(s) ==
    LET level == Levels(s)
    IN SetToSortSeq(1 .. Len(s), LAMBDA u, v : level[u] < level[v] \/ (level[u] = level[v] /\ u < v))

\* A topological order: breadth first, a node when its last dependent was taken.
Toposort(s) ==
    LET n == Len(s)
        above(v) == {u \in 1 .. n : v \in s[u]}
        order[k \in 0 .. n] ==
            IF k = 0 THEN SetToSortSeq({v \in 1 .. n : above(v) = {}}, <)
            ELSE LET o == order[k - 1]
                     taken == {o[i] : i \in 1 .. k}
                     freed == {v \in s[o[k]] : above(v) \subseteq taken}
                 IN o \o SetToSortSeq(freed, <)
    IN order[n]

\* The successors from the first source on, the first of each.
Chain(s) ==
    LET n == Len(s)
        first(S) == CHOOSE v \in S : \A w \in S : v <= w
        src == {v \in 1 .. n : \A u \in 1 .. n : v \notin s[u]}
        walk[k \in 1 .. n] ==
            IF k = 1 THEN <<first(src)>>
            ELSE LET w == walk[k - 1] IN IF s[Last(w)] = {} THEN w ELSE Append(w, first(s[Last(w)]))
    IN walk[n]

\* The linear optimizer asks for a graph that is a chain.
Linear(s) == \A v \in 1 .. Len(s) : Cardinality(s[v]) <= 1 /\ Cardinality({u \in 1 .. Len(s) : v \in s[u]}) <= 1
OneChain(s) == Linear(s) /\ Cardinality({v \in 1 .. Len(s) : \A u \in 1 .. Len(s) : v \notin s[u]}) = 1

Init ==
    /\ succ \in Graphs
    /\ \/ /\ mode = "sequential" /\ streams = 1
          /\ todo = Toposort(succ)
       \/ /\ mode = "linear" /\ streams = 1 /\ OneChain(succ)
          /\ todo = Chain(succ)
       \/ /\ mode = "roundrobin" /\ streams \in 1 .. MaxStreams
          /\ todo = ByLevel(succ)
    /\ idx = [v \in Nodes |-> streams]
    /\ event = [v \in Nodes |-> NoEvent]
    /\ ops = [t \in 0 .. streams - 1 |-> {}]
    /\ after = [v \in Nodes |-> {}]

----------------------------------------------------------------------------
(* The stream of a node is its place in its level, modulo the streams. *)

Stream(v) ==
    LET level == Levels(succ)
        lid == Cardinality({u \in Nodes : level[u] = level[v] /\ u < v})
    IN lid % streams

Id(v) == CHOOSE i \in Nodes : ByLevel(succ)[i] = v

\* The dependents in the stream noted in idx are in the order of that stream: one
\* wait for the last of them does for all.
Through(v) == {u \in Dependents(v) : Stream(u) = idx[v]}
LastOf(S) == {u \in S : \A w \in S : Id(w) <= Id(u)}
FirstOf(S) == {u \in S : \A w \in S : Id(u) <= Id(w)}

Others(v) == {u \in Dependents(v) : Stream(u) # idx[v] /\ Stream(u) # Stream(v)}

\* A faulty variant that waits for the first of the dependents in one stream.
AwaitedFirst(v) == FirstOf(Through(v)) \cup Others(v)

Awaited(v) == LastOf(Through(v)) \cup Others(v)

\* One node: the stream waits for events, the work is captured, and an event is
\* recorded if a successor is in another stream, which notes the stream.
CaptureRoundRobin ==
    LET v == Head(todo)
        away == {w \in succ[v] : Stream(w) # Stream(v)}
        before == ops[Stream(v)] \cup UNION {event[u] : u \in Awaited(v)} IN
    /\ mode = "roundrobin" /\ todo # <<>>
    /\ after' = [after EXCEPT ![v] = before]
    /\ ops' = [ops EXCEPT ![Stream(v)] = before \cup {v}]
    /\ event' = IF away = {} THEN event ELSE [event EXCEPT ![v] = before \cup {v}]
    /\ idx' = [w \in Nodes |-> IF w \in away THEN Stream(v) ELSE idx[w]]
    /\ todo' = Tail(todo)
    /\ UNCHANGED <<succ, mode, streams>>

CaptureInOrder ==
    LET v == Head(todo) IN
    /\ mode # "roundrobin" /\ todo # <<>>
    /\ after' = [after EXCEPT ![v] = ops[0]]
    /\ ops' = [ops EXCEPT ![0] = @ \cup {v}]
    /\ todo' = Tail(todo)
    /\ UNCHANGED <<succ, mode, streams, idx, event>>

\* The first stream waits for the others before its capture ends.
Join ==
    /\ mode # "captured" /\ todo = <<>>
    /\ ops' = [ops EXCEPT ![0] = UNION {ops[t] : t \in DOMAIN ops}]
    /\ mode' = "captured"
    /\ UNCHANGED <<succ, streams, todo, idx, event, after>>

Next == CaptureRoundRobin \/ CaptureInOrder \/ Join

Spec == Init /\ [][Next]_captureVars

----------------------------------------------------------------------------
(* Properties *)

\* No stream waits for an event that was not recorded, every captured node comes
\* after all of its dependents, whatever waits were spared, and the stream whose
\* capture is returned depends on every node in the end.
CaptureOrdered ==
    /\ mode = "roundrobin" /\ todo # <<>> => \A u \in Awaited(Head(todo)) : event[u] # NoEvent
    /\ \A v \in Nodes \ ToSet(todo) : Dependents(v) \subseteq after[v]
    /\ mode = "captured" => ops[0] = Nodes
=============================================================================
