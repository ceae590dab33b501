------------------------------- MODULE Subflow -------------------------------
(***************************************************************************)
(* Subflows (Subflow of core/flow_builder.h, _invoke_subflow_task and      *)
(* _corun_graph of core/executor.h): a task whose callable builds a graph  *)
(* of its own.  The graph is run by join() inside of the callable, on top  *)
(* of the worker's stack, or after the callable has returned, when the     *)
(* task is preempted and entered again by its last child; and it is        *)
(* cleared when the task is over.  Any callable may also run the graph of  *)
(* another taskflow with Executor::corun, under an anchor on its stack.    *)
(*                                                                         *)
(* The tasks of one graph have no edges here (TaskGraph has them), and the *)
(* executor's queues are a bag of scheduled tasks.                         *)
(***************************************************************************)
EXTENDS Integers, Sequences, FiniteSets

CONSTANTS
    Task,       \* the nodes there may be at a time, numbered
    NoTask,     \* the null node
    Worker,     \* the executor's threads
    MaxRounds,  \* bound: how often the outermost task is run
    MaxJoins    \* bound: how often a callable joins or coruns

VARIABLES
    node,       \* the nodes, with what the history needs: ran and joins
    topology,   \* _estate and _exception_ptr of the topology
    scheduled,  \* how often each task is in the executor's queues
    stack,      \* a worker's invocations, the innermost one first
    round,      \* how often the topology's task was started; 0 when it is finished
    threw,      \* whether a callable threw in this run
    reported    \* whether a caller of join or corun got an exception

subflowVars == <<node, topology, scheduled, stack, round, threw, reported>>

SubflowAssumption ==
    /\ Task \subseteq Nat /\ IsFiniteSet(Task) /\ Task # {} /\ NoTask \notin Task
    /\ MaxRounds \in Nat \ {0} /\ MaxJoins \in Nat

\* A "static" task has a callable without a subflow; an "anchor" is the node that
\* Executor::corun keeps on its stack.
Absent == [kind |-> "none", parent |-> NoTask, nstate |-> {}, join |-> 0, estate |-> {},
           eptr |-> FALSE, ran |-> 0, joins |-> 0]
Made(k, p) == [Absent EXCEPT !.kind = k, !.parent = p]

Present == {t \in Task : node[t].kind # "none"}
Free == Task \ Present
Root == CHOOSE t \in Task : \A u \in Task : t <= u
Graph(p) == {t \in Present : node[t].parent = p}

\* A task and those around it, up to the outermost one or an anchor: the least set that
\* holds the task and the parents of its members.
Ancestors(t) ==
    {a \in Task : \A S \in SUBSET Task :
                    t \in S /\ (\A s \in S : node[s].parent \in S \cup {NoTask}) => a \in S}
Descendants(t) == {s \in Present \ {t} : t \in Ancestors(s)}

\* _topology is passed on from the parent, and an anchor has none.
InTopology(t) == Root \in Ancestors(t)
IsCancelled(t) ==
    \/ InTopology(t) /\ "CANCELLED" \in topology.estate
    \/ node[t].parent # NoTask /\ "CANCELLED" \in node[node[t].parent].estate

-----------------------------------------------------------------------------
Enter(t) == [node |-> t, pc |-> "begin", at |-> NoTask, again |-> FALSE]
Top(w) == stack[w][1]
Running(w, pc) == stack[w] # <<>> /\ Top(w).pc = pc
Push(w, frame) == stack' = [stack EXCEPT ![w] = <<frame>> \o @]
Become(w, frame) == stack' = [stack EXCEPT ![w] = <<frame>> \o Tail(@)]
Goto(w, pc) == Become(w, [Top(w) EXCEPT !.pc = pc])
Pop(w) == stack' = [stack EXCEPT ![w] = Tail(@)]

Init ==
    /\ node = [t \in Task |-> IF t = Root THEN Made("subflow", NoTask) ELSE Absent]
    /\ topology = [estate |-> {}, eptr |-> FALSE]
    /\ scheduled = [t \in Task |-> IF t = Root THEN 1 ELSE 0]
    /\ stack = [w \in Worker |-> <<>>]
    /\ round = 1
    /\ threw = FALSE /\ reported = FALSE

\* Future::cancel.
Cancel ==
    /\ round > 0 /\ "CANCELLED" \notin topology.estate
    /\ topology' = [topology EXCEPT !.estate = @ \cup {"CANCELLED"}]
    /\ UNCHANGED <<node, scheduled, stack, round, threw, reported>>

\* A worker takes a task, from its loop or from inside of a join.
Take(w, t) ==
    /\ stack[w] = <<>> \/ Running(w, "join")
    /\ scheduled[t] > 0
    /\ scheduled' = [scheduled EXCEPT ![t] = @ - 1]
    /\ Push(w, Enter(t))
    /\ UNCHANGED <<node, topology, round, threw, reported>>

\* The graph of a subflow goes with all that is nested in it.
Cleared(n, t) == [s \in Task |-> IF s \in Descendants(t) THEN Absent ELSE n[s]]

\* _invoke: a preempted task resumes, and a cancelled one is not called.
Resume(w) ==
    LET t == Top(w).node IN
    /\ Running(w, "begin") /\ "PREEMPTED" \in node[t].nstate
    /\ node' = [node EXCEPT ![t].nstate = @ \ {"PREEMPTED"}]
    /\ Goto(w, "over")
    /\ UNCHANGED <<topology, scheduled, round, threw, reported>>

Skip(w) ==
    LET t == Top(w).node IN
    /\ Running(w, "begin") /\ "PREEMPTED" \notin node[t].nstate /\ IsCancelled(t)
    /\ Goto(w, "finish")
    /\ UNCHANGED <<node, topology, scheduled, round, threw, reported>>

\* The Subflow object starts from an empty graph, as the task may have run before.
Call(w) ==
    LET t == Top(w).node IN
    /\ Running(w, "begin") /\ "PREEMPTED" \notin node[t].nstate /\ ~IsCancelled(t)
    /\ node' = Cleared([node EXCEPT ![t].ran = @ + 1, ![t].joins = 0,
                                    ![t].nstate = @ \ {"JOINED", "RETAIN"}], t)
    /\ Goto(w, "work")
    /\ UNCHANGED <<topology, scheduled, round, threw, reported>>

-----------------------------------------------------------------------------
(* The calls of a callable *)

\* FlowBuilder::emplace.  "Once the subflow is joined, ... you may not modify the
\* subflow anymore."
Emplace(w, k) ==
    LET t == Top(w).node IN
    /\ Running(w, "work") /\ node[t].kind = "subflow"
    /\ "JOINED" \notin node[t].nstate
    /\ \E c \in Free : /\ \A u \in Free : c <= u
                       /\ node' = [node EXCEPT ![c] = Made(k, t)]
    /\ UNCHANGED <<topology, scheduled, stack, round, threw, reported>>

Retain(w) ==
    LET t == Top(w).node IN
    /\ Running(w, "work") /\ node[t].kind = "subflow"
    /\ "RETAIN" \notin node[t].nstate
    /\ node' = [node EXCEPT ![t].nstate = @ \cup {"RETAIN"}]
    /\ UNCHANGED <<topology, scheduled, stack, round, threw, reported>>

\* _schedule_graph_with_parent: the tasks of p's graph are set up and scheduled.
SetUp(n, p, graph) ==
    [s \in Task |-> IF s \in graph
                    THEN [n[s] EXCEPT !.nstate = {}, !.estate = {}, !.eptr = FALSE, !.join = 0]
                    ELSE IF s = p THEN [n[s] EXCEPT !.join = @ + Cardinality(graph)] ELSE n[s]]
ScheduleAll(graph) ==
    scheduled' = [s \in Task |-> scheduled[s] + IF s \in graph THEN 1 ELSE 0]

\* Subflow::join of an empty graph, and of one with tasks: _corun_graph.
JoinEmpty(w) ==
    LET t == Top(w).node IN
    /\ Running(w, "work") /\ node[t].kind = "subflow"
    /\ "JOINED" \notin node[t].nstate /\ Graph(t) = {}
    /\ node' = [node EXCEPT ![t].nstate = @ \cup {"JOINED"}]
    /\ UNCHANGED <<topology, scheduled, stack, round, threw, reported>>

Join(w) ==
    LET t == Top(w).node IN
    /\ Running(w, "work") /\ node[t].kind = "subflow"
    /\ "JOINED" \notin node[t].nstate /\ Graph(t) # {}
    /\ node[t].joins < MaxJoins
    /\ node' = SetUp([node EXCEPT ![t].estate = @ \cup {"ANCHORED"}, ![t].joins = @ + 1],
                     t, Graph(t))
    /\ ScheduleAll(Graph(t))
    /\ Goto(w, "join")
    /\ UNCHANGED <<topology, round, threw, reported>>

\* The children are done: the anchor comes off, and what they threw is thrown here,
\* before the subflow counts as joined.  The callable may catch it.
JoinReturns(w) ==
    LET t == Top(w).node IN
    /\ Running(w, "join") /\ node[t].kind = "subflow" /\ node[t].join = 0
    /\ node' = [node EXCEPT ![t].estate = @ \ {"ANCHORED"}, ![t].eptr = FALSE,
                            ![t].nstate = IF node[t].eptr THEN @ ELSE @ \cup {"JOINED"}]
    /\ reported' = (reported \/ node[t].eptr)
    /\ \/ Goto(w, "work")
       \/ node[t].eptr /\ Become(w, [Top(w) EXCEPT !.pc = "raise", !.at = t])
    /\ UNCHANGED <<topology, scheduled, round, threw>>

\* Executor::corun of a taskflow of one task.
Corun(w, k) ==
    LET t == Top(w).node IN
    /\ Running(w, "work") /\ node[t].joins < MaxJoins
    /\ \E a, c \in Free :
         /\ a < c /\ \A u \in Free \ {a} : a < u /\ c <= u
         /\ node' = SetUp([node EXCEPT ![t].joins = @ + 1,
                                       ![a] = [Made("anchor", NoTask) EXCEPT !.estate = {"ANCHORED"}],
                                       ![c] = Made(k, a)], a, {c})
         /\ ScheduleAll({c})
         /\ Push(w, [Enter(a) EXCEPT !.pc = "join"])
    /\ UNCHANGED <<topology, round, threw, reported>>

\* The anchor goes with corun's frame; the taskflow may go as well.
CorunReturns(w) ==
    LET a == Top(w).node
        caller == stack[w][2]
    IN
    /\ Running(w, "join") /\ node[a].kind = "anchor" /\ node[a].join = 0
    /\ node' = Cleared([node EXCEPT ![a] = Absent], a)
    /\ reported' = (reported \/ node[a].eptr)
    /\ \/ Pop(w)
       \/ /\ node[a].eptr
          /\ stack' = [stack EXCEPT ![w] =
                         <<[caller EXCEPT !.pc = "raise", !.at = caller.node]>> \o SubSeq(@, 3, Len(@))]
    /\ UNCHANGED <<topology, scheduled, round, threw>>

Throw(w) ==
    /\ Running(w, "work")
    /\ threw' = TRUE
    /\ Become(w, [Top(w) EXCEPT !.pc = "raise", !.at = Top(w).node])
    /\ UNCHANGED <<node, topology, scheduled, round, reported>>

-----------------------------------------------------------------------------
(* _process_exception, one ancestor a step *)

Failed == {"EXCEPTION", "CANCELLED"}

RaisePass(w) ==
    LET a == Top(w).at IN
    /\ Running(w, "raise") /\ a # NoTask /\ "ANCHORED" \notin node[a].estate
    /\ node' = [node EXCEPT ![a].estate = @ \cup Failed]
    /\ Become(w, [Top(w) EXCEPT !.at = node[a].parent])
    /\ UNCHANGED <<topology, scheduled, round, threw, reported>>

\* A blocking call keeps the first exception, a later one stays in its node.
RaiseAnchor(w) ==
    LET a == Top(w).at IN
    /\ Running(w, "raise") /\ a # NoTask /\ "ANCHORED" \in node[a].estate
    /\ node' = [node EXCEPT ![a].estate = @ \cup Failed]
    /\ Become(w, [Top(w) EXCEPT !.pc = "store",
                                !.at = IF "EXCEPTION" \in node[a].estate THEN Top(w).node ELSE a])
    /\ UNCHANGED <<topology, scheduled, round, threw, reported>>

RaiseTopology(w) ==
    LET first == "EXCEPTION" \notin topology.estate IN
    /\ Running(w, "raise") /\ Top(w).at = NoTask
    /\ topology' = [estate |-> topology.estate \cup Failed, eptr |-> topology.eptr \/ first]
    /\ Become(w, [Top(w) EXCEPT !.pc = IF first THEN "leave" ELSE "store", !.at = Top(w).node])
    /\ UNCHANGED <<node, scheduled, round, threw, reported>>

Store(w) ==
    /\ Running(w, "store")
    /\ node' = [node EXCEPT ![Top(w).at].eptr = TRUE]
    /\ Goto(w, "leave")
    /\ UNCHANGED <<topology, scheduled, round, threw, reported>>

-----------------------------------------------------------------------------
(* The end of an invocation *)

Return(w) ==
    /\ Running(w, "work")
    /\ Goto(w, "leave")
    /\ UNCHANGED <<node, topology, scheduled, round, threw, reported>>

\* A faulty Preempt: a subflow that has joined its graph runs it again.
PreemptJoined(w) ==
    LET t == Top(w).node IN
    /\ Running(w, "leave") /\ node[t].kind = "subflow" /\ Graph(t) # {}
    /\ node' = SetUp([node EXCEPT ![t].nstate = @ \cup {"PREEMPTED"}], t, Graph(t))
    /\ ScheduleAll(Graph(t))
    /\ Pop(w)
    /\ UNCHANGED <<topology, round, threw, reported>>

\* A graph that was not joined is run now, whether or not the callable threw.
Preempt(w) ==
    LET t == Top(w).node IN
    /\ Running(w, "leave") /\ node[t].kind = "subflow"
    /\ "JOINED" \notin node[t].nstate /\ Graph(t) # {}
    /\ node' = SetUp([node EXCEPT ![t].nstate = @ \cup {"PREEMPTED"}], t, Graph(t))
    /\ ScheduleAll(Graph(t))
    /\ Pop(w)
    /\ UNCHANGED <<topology, round, threw, reported>>

Leave(w) ==
    LET t == Top(w).node IN
    /\ Running(w, "leave")
    /\ \/ node[t].kind = "static" /\ Goto(w, "finish")
       \/ /\ node[t].kind = "subflow"
          /\ "JOINED" \in node[t].nstate \/ Graph(t) = {}
          /\ Goto(w, "over")
    /\ UNCHANGED <<node, topology, scheduled, round, threw, reported>>

\* "the subflow has finished or joined"
Over(w) ==
    LET t == Top(w).node IN
    /\ Running(w, "over")
    /\ node' = IF "RETAIN" \in node[t].nstate THEN node ELSE Cleared(node, t)
    /\ Goto(w, "finish")
    /\ UNCHANGED <<topology, scheduled, round, threw, reported>>

\* _tear_down_nonasync reads the parent before it counts the parent down.
ReadParent(w) ==
    LET p == node[Top(w).node].parent IN
    /\ Running(w, "finish") /\ p # NoTask
    /\ Become(w, [Top(w) EXCEPT !.pc = "count", !.at = p,
                                !.again = "PREEMPTED" \in node[p].nstate])
    /\ UNCHANGED <<node, topology, scheduled, round, threw, reported>>

CountParent(w) ==
    LET p == Top(w).at IN
    /\ Running(w, "count")
    /\ node' = [node EXCEPT ![p].join = @ - 1]
    /\ IF node[p].join = 1 /\ Top(w).again THEN Become(w, Enter(p)) ELSE Pop(w)
    /\ UNCHANGED <<topology, scheduled, round, threw, reported>>

\* The outermost task is done.  The topology may run it again, freshly set up, or a
\* condition task of the same round jumps back to it, which resets nothing.
Repeat(w) ==
    LET t == Top(w).node IN
    /\ Running(w, "finish") /\ t = Root
    /\ "CANCELLED" \notin topology.estate /\ round < MaxRounds
    /\ \/ node' = [SetUp(node, NoTask, {t}) EXCEPT ![t].ran = 0]
       \/ node' = [node EXCEPT ![t].ran = 0]
    /\ round' = round + 1
    /\ ScheduleAll({t})
    /\ Pop(w)
    /\ UNCHANGED <<topology, threw, reported>>

Finish(w) ==
    /\ Running(w, "finish") /\ Top(w).node = Root
    /\ round' = 0
    /\ reported' = (reported \/ topology.eptr)
    /\ Pop(w)
    /\ UNCHANGED <<node, topology, scheduled, threw>>

-----------------------------------------------------------------------------
Callable(w) ==
    \/ \E k \in {"static", "subflow"} : Emplace(w, k)
    \/ Corun(w, "static")
    \/ Retain(w) \/ JoinEmpty(w) \/ Join(w) \/ Throw(w) \/ Return(w)

Step(w) ==
    \/ \E t \in Task : Take(w, t)
    \/ Resume(w) \/ Skip(w) \/ Call(w)
    \/ Callable(w)
    \/ JoinReturns(w) \/ CorunReturns(w)
    \/ RaisePass(w) \/ RaiseAnchor(w) \/ RaiseTopology(w) \/ Store(w)
    \/ Preempt(w) \/ Leave(w) \/ Over(w)
    \/ ReadParent(w) \/ CountParent(w) \/ Repeat(w) \/ Finish(w)

Next == Cancel \/ \E w \in Worker : Step(w)

Spec == Init /\ [][Next]_subflowVars
-----------------------------------------------------------------------------
Frames == UNION {{<<w, i>> : i \in DOMAIN stack[w]} : w \in Worker}
FrameOf(f) == stack[f[1]][f[2]]
Invoked(t) == {f \in Frames : FrameOf(f).node = t}

\* A task is in one place, and whatever the executor has in hand is still there: a
\* graph is cleared, and an anchor leaves the stack, when nobody looks at them.
InOnePlace ==
    \A t \in Task :
        /\ scheduled[t] + Cardinality(Invoked(t)) <= 1
        /\ t \in Free => scheduled[t] = 0 /\ \A f \in Frames : t \notin {FrameOf(f).node, FrameOf(f).at}

\* The counter of a task that waits for its graph is the number of tasks of the graph
\* that are not through.
InFlight(c) == scheduled[c] > 0 \/ Invoked(c) # {} \/ "PREEMPTED" \in node[c].nstate
JoinExact == \A t \in Present : node[t].join = Cardinality({c \in Graph(t) : InFlight(c)})

Consistent == InOnePlace /\ JoinExact

\* A graph is run once, although a join that failed leaves the subflow joinable and
\* its graph is scheduled again (join, _invoke_subflow_task); and after a join that
\* did not fail every task of it has run, unless the subflow is cancelled.
JoinsOnce ==
    /\ \A t \in Present : node[t].ran <= 1
    /\ \A t \in Present : "JOINED" \in node[t].nstate =>
          \A c \in Graph(t) : node[c].ran = 1 \/ IsCancelled(c)

\* A run in which something was thrown does not look like one that went well: its
\* future or a caller of join or corun gets an exception.
FailureReported == round = 0 /\ threw => reported

\* Workers that wait in join or corun on top of each other's tasks never all wait for
\* each other.
NothingStuck == (\A w \in Worker : ~ENABLED Step(w)) => round = 0
=============================================================================
