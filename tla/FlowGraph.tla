------------------------------ MODULE FlowGraph ------------------------------
(***************************************************************************)
(* Graphs of tasks while they are built (core/flow_builder.h, task.h, and  *)
(* the edges of core/graph.h).  A node has one array of neighbours: its    *)
(* successors first, then its predecessors, and a number that divides      *)
(* them.  Every edge stands in two arrays, which the operations change one *)
(* after the other.  A graph is built by one thread at a time and does not *)
(* run meanwhile, as the documentation asks.                               *)
(***************************************************************************)
EXTENDS Integers, Sequences, FiniteSets, SequencesExt

CONSTANTS
    Node,           \* the nodes that may be allocated
    MaxEdges        \* bound on the edges that a model of it adds

VARIABLES
    tasks,          \* the nodes of the Graph
    edges,          \* Node::_edges
    num,            \* Node::_num_successors
    kind            \* Node::_handle, as far as dependencies depend on it

flowVars == <<tasks, edges, num, kind>>

Kind == {"static", "condition"}

Successors(n)   == SubSeq(edges[n], 1, num[n])
Predecessors(n) == SubSeq(edges[n], num[n] + 1, Len(edges[n]))
Times(n, s) == Len(SelectSeq(s, LAMBDA m : m = n))

Without(s, n) == SelectSeq(s, LAMBDA m : m # n)
TotalEdges == FoldFunction(LAMBDA k, t : k + t, 0, num)

Init ==
    /\ tasks = {}
    /\ edges = [n \in Node |-> <<>>]
    /\ num = [n \in Node |-> 0]
    /\ kind = [n \in Node |-> "static"]

\* A machine of both arrays, so that operations can be put one after the other.
Arrays == [edges |-> edges, num |-> num]
Commit(a) == edges' = a.edges /\ num' = a.num

Swapped(s, i, j) == [s EXCEPT ![i] = s[j], ![j] = s[i]]

\* A faulty _precede that leaves the new successor at the end.
LinkedAtEnd(a, u, v) ==
    [a EXCEPT !.edges[u] = Append(@, v), !.num[u] = @ + 1, !.edges[v] = Append(@, u)]

\* Node::_precede: the new successor changes places with the first predecessor.
Linked(a, u, v) ==
    LET out == Append(a.edges[u], v)
        b   == [a EXCEPT !.edges[u] = Swapped(out, a.num[u] + 1, Len(out)), !.num[u] = @ + 1]
    IN  [b EXCEPT !.edges[v] = Append(@, u)]

\* Node::_remove_successors and _remove_predecessors
Parted(a, n) == [succ |-> SubSeq(a.edges[n], 1, a.num[n]),
                 pred |-> SubSeq(a.edges[n], a.num[n] + 1, Len(a.edges[n]))]
SuccessorsRemoved(a, n, m) ==
    LET kept == Without(Parted(a, n).succ, m)
    IN  [a EXCEPT !.edges[n] = kept \o Parted(a, n).pred, !.num[n] = Len(kept)]
PredecessorsRemoved(a, n, m) ==
    [a EXCEPT !.edges[n] = Parted(a, n).succ \o Without(Parted(a, n).pred, m)]

\* FlowBuilder::emplace, placeholder, composed_of
Emplace(n, k) ==
    /\ n \notin tasks
    /\ tasks' = tasks \cup {n}
    /\ kind' = [kind EXCEPT ![n] = k]
    /\ edges' = [edges EXCEPT ![n] = <<>>]
    /\ num' = [num EXCEPT ![n] = 0]

\* Task::precede and succeed
Precede(u, v) ==
    /\ {u, v} \subseteq tasks
    /\ TotalEdges < MaxEdges
    /\ Commit(Linked(Arrays, u, v))
    /\ UNCHANGED <<tasks, kind>>

\* FlowBuilder::linearize
Linearize(line) ==
    /\ ToSet(line) \subseteq tasks
    /\ TotalEdges + Len(line) - 1 <= MaxEdges
    /\ Commit(FoldLeft(LAMBDA a, i : Linked(a, line[i], line[i + 1]), Arrays,
                       [i \in 1 .. Len(line) - 1 |-> i]))
    /\ UNCHANGED <<tasks, kind>>

\* Task::remove_successors, remove_predecessors, Taskflow::remove_dependency
Disconnect(u, v) ==
    /\ {u, v} \subseteq tasks
    /\ Commit(PredecessorsRemoved(SuccessorsRemoved(Arrays, u, v), v, u))
    /\ UNCHANGED <<tasks, kind>>

\* Task::work, reset_work and composed_of put another handle into the node.
Work(n, k) ==
    /\ n \in tasks
    /\ kind' = [kind EXCEPT ![n] = k]
    /\ UNCHANGED <<tasks, edges, num>>

\* The two loops of FlowBuilder::erase run over the node's own array, which
\* the first one shortens when the node precedes itself.
Detached(n) ==
    LET a == FoldLeft(LAMBDA b, m : PredecessorsRemoved(b, m, n), Arrays, Successors(n))
    IN  FoldLeft(LAMBDA b, m : SuccessorsRemoved(b, m, n), a, Parted(a, n).pred)

Erase(n) ==
    /\ n \in tasks
    /\ LET a == Detached(n)
       IN  Commit([edges |-> [a.edges EXCEPT ![n] = <<>>], num |-> [a.num EXCEPT ![n] = 0]])
    /\ tasks' = tasks \ {n}
    /\ UNCHANGED kind

\* Taskflow::clear
Clear ==
    /\ tasks' = {}
    /\ edges' = [n \in Node |-> <<>>]
    /\ num' = [n \in Node |-> 0]
    /\ UNCHANGED kind

Next ==
    \/ \E n \in Node, k \in Kind : Emplace(n, k) \/ Work(n, k)
    \/ \E u, v \in Node : Precede(u, v) \/ Disconnect(u, v)
    \/ \E u, v, w \in Node : Linearize(<<u, v, w>>)
    \/ \E n \in Node : Erase(n)
    \/ Clear

Spec == Init /\ [][Next]_flowVars

Conditioner(m) == kind[m] = "condition"
WeakDependencies(n)   == Len(SelectSeq(Predecessors(n), Conditioner))
StrongDependencies(n) == Len(SelectSeq(Predecessors(n), LAMBDA m : ~Conditioner(m)))

\* Node::_set_up_join_counter: what a run starts with.  The low bits of the
\* state count the weak dependencies, and one bit says that there are any.
SetUpJoinCounter(n) ==
    FoldLeft(LAMBDA c, m : IF Conditioner(m) THEN [c EXCEPT !.weak = @ + 1, !.conditioned = TRUE]
                                             ELSE [c EXCEPT !.join = @ + 1],
             [join |-> 0, weak |-> 0, conditioned |-> FALSE], Predecessors(n))

-----------------------------------------------------------------------------

EdgesFrom(S, n) == FoldFunction(LAMBDA k, t : k + t, 0, [m \in S |-> Times(n, Successors(m))])

\* Every edge stands in both arrays, as often as it was added; no array
\* refers to a task that is gone; and the counters that a run would start
\* with are those of the edges from conditions and from other tasks.
EdgesAgree ==
    /\ \A n \in Node : num[n] <= Len(edges[n])
    /\ \A u, v \in tasks : Times(v, Successors(u)) = Times(u, Predecessors(v))
    /\ \A n \in tasks : ToSet(edges[n]) \subseteq tasks
    /\ \A n \in tasks :
          LET weak == EdgesFrom({m \in tasks : Conditioner(m)}, n)
          IN  /\ SetUpJoinCounter(n) = [join |-> EdgesFrom({m \in tasks : ~Conditioner(m)}, n),
                                        weak |-> weak, conditioned |-> weak > 0]
              /\ StrongDependencies(n) = SetUpJoinCounter(n).join /\ WeakDependencies(n) = weak

G == INSTANCE GraphEdits WITH succs <- [n \in Node |-> Successors(n)]

\* The arrays keep the promised order of successors.
ImplementsGraphEdits == G!GSpec
=============================================================================
