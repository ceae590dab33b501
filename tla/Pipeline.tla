------------------------------ MODULE Pipeline ------------------------------
(***************************************************************************)
(* The pipeline scheduler (algorithm/pipeline.h; ScalablePipeline and      *)
(* DataPipeline have the same one).  Tokens go round a grid of lines and   *)
(* pipes: token t takes line t % numLines through all pipes.  A cell of    *)
(* the grid counts what its next token waits for: the token's own previous *)
(* cell (forward), and, in a serial pipe, the previous token in the same   *)
(* pipe (downward).  The worker that counts a cell down to zero goes on    *)
(* with it; one that frees two cells takes its own line on, and schedules  *)
(* the task of the other line.                                             *)
(*                                                                         *)
(* A DataPipeline has a buffer for each line, in which a pipe leaves its   *)
(* output for the next one.                                                *)
(*                                                                         *)
(* A line task runs as a NonpreemptiveRuntime task of the module's graph;  *)
(* queues are abstracted to the number of times each task is scheduled.    *)
(***************************************************************************)
EXTENDS Integers

CONSTANTS
    Worker,     \* the executor's threads
    MaxLines,   \* bound: the largest number of lines
    NumPipes,
    MaxTokens,  \* bound: the pipeline is stopped by this token at the latest
    MaxRuns,    \* bound: how often the pipeline is run
    NoLine

ASSUME PipelineAssumption ==
    /\ MaxLines \in Nat \ {0} /\ NumPipes \in Nat \ {0}
    /\ MaxTokens \in Nat /\ MaxRuns \in Nat
    /\ NoLine \notin 0 .. MaxLines - 1

VARIABLES
    numLines,   \* num_lines()
    meta,       \* _meta[f].type, the type of each pipe
    counter,    \* _lines[l][f].join_counter
    flow,       \* _pipeflows[l], with its pipe and token
    buffer,     \* _buffer[l]: the token and the pipe that the data is from
    numTokens,  \* _num_tokens
    scheduled,  \* how often the task of a line is in the executor's queues
    running,    \* whether the module task that holds the pipeline is running
    cancelled,  \* the run was cancelled or threw, and reset() was not called since
    runs,       \* runs so far
    pc,         \* where a worker is in the line task
    line,       \* pf: the line whose token it carries
    left,       \* c_f: the pipe whose callable returned
    freed       \* retval[0] = 1: its downward decrement freed the next line's cell

shape == <<numLines, meta>>
workerVars == <<pc, line, left, freed>>
runVars == <<running, cancelled, runs>>
vars == <<shape, counter, flow, buffer, numTokens, scheduled, runVars, workerVars>>

Line == 0 .. MaxLines - 1
Pipe == 0 .. NumPipes - 1
PARALLEL == 1
SERIAL == 2
Metas == {m \in [Pipe -> {SERIAL, PARALLEL}] : m[0] = SERIAL}

TypeOK ==
    /\ numLines \in 1 .. MaxLines
    /\ meta \in Metas
    /\ counter \in [Line -> [Pipe -> 0 .. 2]]
    /\ flow \in [Line -> [pipe : Pipe, token : 0 .. MaxTokens]]
    /\ buffer \in [Line -> [token : 0 .. MaxTokens, pipe : 0 .. NumPipes]]
    /\ numTokens \in 0 .. MaxTokens
    /\ scheduled \in [Line -> Nat]
    /\ running \in BOOLEAN /\ cancelled \in BOOLEAN
    /\ runs \in 0 .. MaxRuns
    /\ pc \in [Worker -> {"idle", "cell", "work", "down", "forward"}]
    /\ line \in [Worker -> Line \cup {NoLine}]
    /\ left \in [Worker -> Pipe]
    /\ freed \in [Worker -> BOOLEAN]

(* The counters that reset() sets.  The first cell is the cond task's to   *)
(* start; the first line has no earlier token to wait for; and the first   *)
(* pipe of the other lines has no previous cell to wait for.               *)
ResetCounters(m) ==
    [l \in Line |-> [f \in Pipe |->
        IF l = 0 THEN (IF f = 0 THEN 0 ELSE 1)
        ELSE IF f = 0 THEN m[f] - 1 ELSE m[f]]]

Init ==
    /\ numLines \in 1 .. MaxLines
    /\ meta \in Metas
    /\ counter = ResetCounters(meta)
    /\ flow = [l \in Line |-> [pipe |-> 0, token |-> 0]]
    /\ buffer = [l \in Line |-> [token |-> 0, pipe |-> NumPipes]]
    /\ numTokens = 0
    /\ scheduled = [l \in Line |-> 0]
    /\ running = FALSE /\ cancelled = FALSE /\ runs = 0
    /\ pc = [w \in Worker |-> "idle"]
    /\ line = [w \in Worker |-> NoLine]
    /\ left = [w \in Worker |-> 0]
    /\ freed = [w \in Worker |-> FALSE]

-----------------------------------------------------------------------------
(* A run of the taskflow that holds the pipeline                           *)

(* The cond task picks the line of the next token. *)
Start ==
    /\ ~running /\ ~cancelled
    /\ runs < MaxRuns
    /\ runs' = runs + 1
    /\ running' = TRUE
    /\ scheduled' = [scheduled EXCEPT ![numTokens % numLines] = @ + 1]
    /\ UNCHANGED <<shape, buffer, counter, flow, numTokens, cancelled, workerVars>>

(* The module task's join counter reaches zero. *)
End ==
    /\ running
    /\ \A l \in Line : scheduled[l] = 0
    /\ \A w \in Worker : pc[w] = "idle"
    /\ running' = FALSE
    /\ UNCHANGED <<shape, buffer, counter, flow, numTokens, scheduled, cancelled, runs, workerVars>>

(* reset(), by a user, between two runs.  ScalablePipeline's takes new     *)
(* pipes and another number of lines as well.                              *)
Reset ==
    /\ ~running
    /\ runs < MaxRuns
    /\ cancelled' = FALSE
    /\ numLines' \in 1 .. MaxLines /\ meta' \in Metas
    /\ numTokens' = 0
    /\ flow' = [l \in Line |-> [flow[l] EXCEPT !.pipe = 0]]
    /\ counter' = ResetCounters(meta')
    /\ UNCHANGED <<buffer, scheduled, running, runs, workerVars>>

(* Future::cancel, at any time of the run. *)
Cancel ==
    /\ running /\ ~cancelled
    /\ cancelled' = TRUE
    /\ UNCHANGED <<shape, buffer, counter, flow, numTokens, scheduled, running, runs, workerVars>>

-----------------------------------------------------------------------------
(* The line task                                                           *)

Goto(w, at) == pc' = [pc EXCEPT ![w] = at]

(* A worker takes the task of line l from the queues. *)
Take(w, l) ==
    /\ pc[w] = "idle"
    /\ scheduled[l] > 0
    /\ scheduled' = [scheduled EXCEPT ![l] = @ - 1]
    /\ IF cancelled
       THEN UNCHANGED <<pc, line>>
       ELSE Goto(w, "cell") /\ line' = [line EXCEPT ![w] = l]
    /\ UNCHANGED <<shape, buffer, counter, flow, numTokens, runVars, left, freed>>

(* "pipeline:": the cell is armed for its next token, and the callable is  *)
(* called.                                                                 *)
Cell(w) ==
    LET l == line[w]
        f == flow[l].pipe
    IN
    /\ pc[w] = "cell"
    /\ counter' = [counter EXCEPT ![l][f] = meta[f]]
    /\ flow' = IF f = 0 THEN [flow EXCEPT ![l].token = numTokens] ELSE flow
    /\ Goto(w, "work")
    /\ UNCHANGED <<shape, buffer, numTokens, scheduled, runVars, line, left, freed>>

\* _on_pipe: what the callable returns; the last pipe returns nothing.
Output(l) ==
    LET f == flow[l].pipe IN
    buffer' = IF f = NumPipes - 1 THEN buffer
              ELSE [buffer EXCEPT ![l] = [token |-> flow[l].token, pipe |-> f]]

(* The callable returns, and the line's pipeflow moves on to the next pipe. *)
Work(w) ==
    LET l == line[w]
        f == flow[l].pipe
    IN
    /\ pc[w] = "work"
    /\ f = 0 => numTokens < MaxTokens
    /\ Output(l)
    /\ numTokens' = IF f = 0 THEN numTokens + 1 ELSE numTokens
    /\ left' = [left EXCEPT ![w] = f]
    /\ flow' = [flow EXCEPT ![l].pipe = (f + 1) % NumPipes]
    /\ Goto(w, "down")
    /\ UNCHANGED <<shape, counter, scheduled, runVars, line, freed>>

(* The callable of the first pipe calls stop(), and the line task returns; *)
(* what the callable returns goes to the buffer before stop is looked at.  *)
Stop(w) ==
    /\ pc[w] = "work"
    /\ flow[line[w]].pipe = 0
    /\ Output(line[w])
    /\ Goto(w, "idle")
    /\ line' = [line EXCEPT ![w] = NoLine]
    /\ UNCHANGED <<shape, counter, flow, numTokens, scheduled, runVars, left, freed>>

(* A callable throws: the line task ends, and the run is cancelled. *)
Throw(w) ==
    /\ pc[w] = "work"
    /\ cancelled' = TRUE
    /\ Goto(w, "idle")
    /\ line' = [line EXCEPT ![w] = NoLine]
    /\ UNCHANGED <<shape, buffer, counter, flow, numTokens, scheduled, running, runs, left, freed>>

NextLine(l) == (l + 1) % numLines

\* A faulty variant: the decrement that finds a cell one short of free is taken for
\* the one that frees it.
DownBeforeZero(w) ==
    LET l == NextLine(line[w])
        f == left[w]
    IN
    /\ pc[w] = "down"
    /\ IF meta[f] = SERIAL
       THEN /\ counter' = [counter EXCEPT ![l][f] = @ - 1]
            /\ freed' = [freed EXCEPT ![w] = counter[l][f] = 2]
       ELSE /\ freed' = [freed EXCEPT ![w] = FALSE]
            /\ UNCHANGED counter
    /\ Goto(w, "forward")
    /\ UNCHANGED <<shape, buffer, flow, numTokens, scheduled, runVars, line, left>>

(* The downward dependency: a serial pipe is free for the next token. *)
Down(w) ==
    LET l == NextLine(line[w])
        f == left[w]
    IN
    /\ pc[w] = "down"
    /\ IF meta[f] = SERIAL
       THEN /\ counter' = [counter EXCEPT ![l][f] = @ - 1]
            /\ freed' = [freed EXCEPT ![w] = counter[l][f] = 1]
       ELSE /\ freed' = [freed EXCEPT ![w] = FALSE]
            /\ UNCHANGED counter
    /\ Goto(w, "forward")
    /\ UNCHANGED <<shape, buffer, flow, numTokens, scheduled, runVars, line, left>>

\* A faulty variant: a task whose own token has to wait returns, although it freed
\* the cell of the next line.
ForwardReturns(w) ==
    LET l == line[w]
        f == (left[w] + 1) % NumPipes
        n == NextLine(l)
        ahead == counter[l][f] = 1
    IN
    /\ pc[w] = "forward"
    /\ counter' = [counter EXCEPT ![l][f] = @ - 1]
    /\ scheduled' = IF freed[w] /\ ahead THEN [scheduled EXCEPT ![n] = @ + 1] ELSE scheduled
    /\ line' = [line EXCEPT ![w] = IF ahead THEN l ELSE NoLine]
    /\ Goto(w, IF ahead THEN "cell" ELSE "idle")
    /\ freed' = [freed EXCEPT ![w] = FALSE]
    /\ left' = [left EXCEPT ![w] = 0]
    /\ UNCHANGED <<shape, buffer, flow, numTokens, runVars>>

(* The forward dependency, and the choice of the cell to go on with.       *)
(* NonpreemptiveRuntime::schedule puts the other one on the queues.        *)
Forward(w) ==
    LET l == line[w]
        f == (left[w] + 1) % NumPipes
        n == NextLine(l)
        ahead == counter[l][f] = 1
    IN
    /\ pc[w] = "forward"
    /\ counter' = [counter EXCEPT ![l][f] = @ - 1]
    /\ scheduled' = IF freed[w] /\ ahead THEN [scheduled EXCEPT ![n] = @ + 1] ELSE scheduled
    /\ line' = [line EXCEPT ![w] = IF ahead THEN l ELSE IF freed[w] THEN n ELSE NoLine]
    /\ Goto(w, IF ahead \/ freed[w] THEN "cell" ELSE "idle")
    /\ freed' = [freed EXCEPT ![w] = FALSE]
    /\ left' = [left EXCEPT ![w] = 0]
    /\ UNCHANGED <<shape, buffer, flow, numTokens, runVars>>

Callable(w) == Work(w) \/ Stop(w) \/ Throw(w)

(* What a line task does once it runs; the three classes build the same one. *)
LineTask(w) == Cell(w) \/ Callable(w) \/ Down(w) \/ Forward(w)

Step(w) == (\E l \in Line : Take(w, l)) \/ LineTask(w)

Next ==
    \/ Start \/ End \/ Reset \/ Cancel
    \/ \E w \in Worker : Step(w)

(* Workers do not stop, and callables return. *)
Fairness == WF_vars(End) /\ \A w \in Worker : WF_vars(Step(w))

Spec == Init /\ [][Next]_vars
FairSpec == Spec /\ Fairness

-----------------------------------------------------------------------------
(* Properties                                                              *)

(* A line has one carrier: the task of a line is never scheduled while     *)
(* another worker carries the line's token, although a worker that frees a *)
(* cell of the next line changes lines and the node of a line may run      *)
(* twice at a time (_build's comment on "data race on f").                 *)
OneCarrier ==
    \A l \in Line :
        /\ scheduled[l] <= 1
        /\ \A w \in Worker : line[w] = l =>
            scheduled[l] = 0 /\ \A v \in Worker \ {w} : line[v] # l

(* When an undisturbed run is over, no token was left in the middle of its *)
(* line: stop() ends the pipeline only after the other lines ran their     *)
(* last stages, as the comment at the early return says.                   *)
TokensThrough ==
    ~running /\ ~cancelled => \A l \in Line : flow[l].pipe = 0

(* A pipe finds in its line's buffer what the pipe before it returned for  *)
(* the same token (DataPipeline::_on_pipe).                                *)
HandedOn ==
    \A w \in Worker : pc[w] \in {"cell", "work"} /\ flow[line[w]].pipe > 0 =>
        buffer[line[w]] = [token |-> flow[line[w]].token, pipe |-> flow[line[w]].pipe - 1]

Token == 0 .. MaxTokens

(* How far a token came, read off its line: a line that has another token  *)
(* has been left by the earlier ones.                                      *)
PassedBy(t) ==
    LET p == flow[t % numLines] IN
    IF t >= numTokens THEN 0
    ELSE IF p.token # t \/ p.pipe = 0 THEN NumPipes ELSE p.pipe

Flow == INSTANCE TokenFlow WITH
    passed <- [t \in Token |-> PassedBy(t)],
    inside <- {flow[line[w]].token : w \in {v \in Worker : pc[v] = "work"}}

(* The scheduler keeps the pipeline's promise to its callables, over stops,*)
(* later runs, exceptions, cancellations and resets (_build, reset).       *)
ImplementsTokenFlow == Flow!TokenSpec

(* The types, one carrier for every line, data that goes with its token,   *)
(* and nothing left in the middle of a line by a run that was over         *)
(* undisturbed.                                                            *)
Consistent == TypeOK /\ OneCarrier /\ TokensThrough /\ HandedOn

(* Every run ends, whatever the callables do, and unless it was cancelled  *)
(* or threw it ends with every token through the last pipe: no cell waits  *)
(* for a worker that has gone (_build).                                    *)
RunEnds == running ~> (~running /\ (cancelled \/ \A l \in Line : flow[l].pipe = 0))
=============================================================================
