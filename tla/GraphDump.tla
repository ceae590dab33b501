----------------------------- MODULE GraphDump -----------------------------
(***************************************************************************)
(* Taskflow::dump (core/taskflow.h): writes a taskflow, the taskflows that *)
(* its modules refer to and the graphs that subflows have kept.  Modules   *)
(* may refer to one taskflow from several places and to each other in a    *)
(* circle; each taskflow is to be written once.  What is written is        *)
(* abstracted to clusters: the graph, its number and the module boxes in   *)
(* it with the number each shows.                                          *)
(***************************************************************************)
EXTENDS Integers, Sequences, FiniteSets, SequencesExt

CONSTANTS Shapes    \* what may be dumped: see Shape

\* Graphs are numbered, the taskflow to dump is 1.  A node is plain (0), a
\* module of a taskflow, or a subflow with a graph of its own.
Plain == [kind |-> "plain", graph |-> 0]
NodesOf(G) == {Plain} \cup [kind : {"module", "subflow"}, graph : G]
Shape(G) == [G -> Seq(NodesOf(G))]

VARIABLES
    shape,      \* the nodes of each graph
    stack,      \* Dumper::stack, top last
    visited,    \* Dumper::visited: graph -> number
    clusters    \* what was written, in order

dumpVars == <<shape, stack, visited, clusters>>

Boxes(g) == SelectSeq(shape[g], LAMBDA n : n.kind = "module")

Init ==
    /\ shape \in Shapes
    /\ stack = <<1>>
    /\ visited = [g \in {1} |-> 0]
    /\ clusters = <<>>

\* _dump(os, graph, dumper): the modules of a graph in order, and where a
\* subflow stands, those of its graph.
RECURSIVE ModulesIn(_)
ModulesIn(g) ==
    FlattenSeq([i \in DOMAIN shape[g] |->
        CASE shape[g][i].kind = "module"  -> <<shape[g][i].graph>>
          [] shape[g][i].kind = "subflow" -> ModulesIn(shape[g][i].graph)
          [] OTHER -> <<>>])

\* The clusters of subflows nest: theirs end before that of the node's graph.
RECURSIVE GraphsIn(_)
GraphsIn(g) ==
    <<g>> \o FlattenSeq([i \in DOMAIN shape[g] |->
        IF shape[g][i].kind = "subflow" /\ shape[shape[g][i].graph] # <<>>
        THEN GraphsIn(shape[g][i].graph) ELSE <<>>])

\* A module box shows the number of its graph, a new one for a new graph.
Number(d, m) == IF m \in DOMAIN d.visited THEN d.visited[m] ELSE Cardinality(DOMAIN d.visited)
Boxed(d, m, s) ==
    [stack   |-> s,
     visited |-> [g \in DOMAIN d.visited \cup {m} |-> Number(d, g)],
     boxes   |-> Append(d.boxes, <<m, Number(d, m)>>)]

\* A faulty Visit, which does not look whether the graph is known.
VisitAgain(d, m) == Boxed(d, m, Append(d.stack, m))

\* Its graph is pushed when it is seen first.
Visit(d, m) == Boxed(d, m, IF m \in DOMAIN d.visited THEN d.stack ELSE Append(d.stack, m))

\* One round of the loop of _dump(os, top).
DumpTop ==
    /\ stack # <<>>
    /\ LET g == Last(stack)
           d == FoldLeft(Visit, [stack |-> Front(stack), visited |-> visited, boxes |-> <<>>],
                         ModulesIn(g))
       IN  /\ stack' = d.stack
           /\ visited' = d.visited
           /\ clusters' = Append(clusters, [graphs |-> GraphsIn(g), number |-> d.visited[g],
                                            boxes |-> d.boxes])
    /\ UNCHANGED shape

Next == DumpTop
Spec == Init /\ [][Next]_dumpVars

-----------------------------------------------------------------------------
\* What a reader of the dump can follow from the taskflow through boxes.
RECURSIVE Reachable(_)
Reachable(S) ==
    LET T == S \cup UNION {{n.graph : n \in ToSet(shape[g]) \ {Plain}} : g \in S}
    IN  IF T = S THEN S ELSE Reachable(T)

Written == FlattenSeq([i \in DOMAIN clusters |-> clusters[i].graphs])

\* No graph is written twice, the boxes show the number of the graph they
\* stand for, and when the loop ends every graph with tasks that is part of the
\* taskflow, however deep and around however many circles, was written.
DumpComplete ==
    /\ \A i, j \in DOMAIN Written : Written[i] = Written[j] => i = j
    /\ \A i, j \in DOMAIN clusters :
          \A k \in DOMAIN clusters[i].boxes :
              clusters[i].boxes[k][1] = clusters[j].graphs[1] =>
                  clusters[i].boxes[k][2] = clusters[j].number
    /\ stack = <<>> =>
          \A g \in Reachable({1}) : shape[g] # <<>> => g \in ToSet(Written)
=============================================================================
