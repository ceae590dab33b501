----------------------------- MODULE GraphEdits -----------------------------
(***************************************************************************)
(* What building a graph of tasks promises (core/flow_builder.h, task.h):  *)
(* the successors of a task are kept in the order in which they were       *)
(* added, as the number that a condition task returns counts in it, and    *)
(* the other dependencies keep that order when some are removed.           *)
(***************************************************************************)
EXTENDS Integers, Sequences

CONSTANT Node

VARIABLES
    tasks,      \* the tasks in the graph
    succs       \* the successors of each task, in the order they were added

editVars == <<tasks, succs>>

Without(s, n) == SelectSeq(s, LAMBDA m : m # n)

GInit == tasks = {} /\ succs = [n \in Node |-> <<>>]

GEmplace(n) ==
    /\ n \notin tasks
    /\ tasks' = tasks \cup {n}
    /\ UNCHANGED succs

GPrecede(u, v) ==
    /\ {u, v} \subseteq tasks
    /\ succs' = [succs EXCEPT ![u] = Append(@, v)]
    /\ UNCHANGED tasks

\* A line of tasks, each before the next one.
GLinearize(line) ==
    /\ \A i \in DOMAIN line : line[i] \in tasks
    /\ succs' = [u \in Node |-> succs[u] \o
                   [i \in 1 .. Len(SelectSeq(SubSeq(line, 1, Len(line) - 1), LAMBDA m : m = u)) |->
                      line[1 + CHOOSE k \in 1 .. Len(line) - 1 :
                              /\ line[k] = u
                              /\ Len(SelectSeq(SubSeq(line, 1, k), LAMBDA m : m = u)) = i]]]
    /\ UNCHANGED tasks

\* Every edge from one task to the other goes.
GDisconnect(u, v) ==
    /\ succs' = [succs EXCEPT ![u] = Without(@, v)]
    /\ UNCHANGED tasks

GErase(n) ==
    /\ tasks' = tasks \ {n}
    /\ succs' = [m \in Node |-> IF m = n THEN <<>> ELSE Without(succs[m], n)]

GClear == tasks' = {} /\ succs' = [n \in Node |-> <<>>]

GNext ==
    \/ \E u, v \in Node : GPrecede(u, v) \/ GDisconnect(u, v)
    \/ \E n \in Node : GEmplace(n) \/ GErase(n)
    \/ \E u, v, w \in Node : GLinearize(<<u, v, w>>)
    \/ GClear

GSpec == GInit /\ [][GNext]_editVars
=============================================================================
