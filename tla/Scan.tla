-------------------------------- MODULE Scan --------------------------------
(***************************************************************************)
(* The parallel prefix sums (scan.h).  A runtime task divides the range    *)
(* into W blocks.  A task a block scans it and puts the block's sum into   *)
(* buf; the last of them to arrive at the counter scans buf, and the       *)
(* others, who wait at the counter in corun_until, then add the sum of     *)
(* the blocks before theirs.                                               *)
(*                                                                         *)
(* buf and counter live in the runtime task's frame.  A thread that waits  *)
(* in corun_until or corun runs other tasks on top of its stack.  A value  *)
(* is the sequence of the operands combined into it, so that a wrong order *)
(* shows; operand 0 is the initial value, and uop(i) is -i.                *)
(***************************************************************************)
EXTENDS Integers, Sequences, SequencesExt, FiniteSets

CONSTANTS
    Thread,  \* the executor's threads
    Jobs     \* what the user may ask for: see Job

(***************************************************************************)
(* The tasks that can be made: with an initial value or without, that      *)
(* write the sum before or after an element, and that apply uop to the     *)
(* elements or not.                                                        *)
(***************************************************************************)
InclusiveScan == [init |-> FALSE, exclusive |-> FALSE, unary |-> FALSE]
InclusiveScanInit == [init |-> TRUE, exclusive |-> FALSE, unary |-> FALSE]
TransformInclusiveScan == [init |-> FALSE, exclusive |-> FALSE, unary |-> TRUE]
TransformInclusiveScanInit == [init |-> TRUE, exclusive |-> FALSE, unary |-> TRUE]
ExclusiveScan == [init |-> TRUE, exclusive |-> TRUE, unary |-> FALSE]
TransformExclusiveScan == [init |-> TRUE, exclusive |-> TRUE, unary |-> TRUE]

Kinds == {InclusiveScan, InclusiveScanInit, TransformInclusiveScan,
          TransformInclusiveScanInit, ExclusiveScan, TransformExclusiveScan}

Job == [kind : Kinds,
        workers : Nat \ {0},    \* executor.num_workers()
        threads : SUBSET Thread \ {{}},  \* those that have nothing else to do
        items : Nat,            \* distance(first, last)
        inPlace : BOOLEAN]      \* d_first = first

ScanAssumption == Jobs \subseteq Job

VARIABLES
    job,
    stack,    \* what a thread runs: the last one on top, the others in a corun
    parent,   \* the runtime task: "start", "spawn", "corun", "done"
    w0,       \* w of its loop: the next block
    pc,       \* where the task of a block is
    out,      \* the destination, and in place the source too
    buf,      \* buf[w].data
    counter

vars == <<job, stack, parent, w0, pc, out, buf, counter>>

W == IF job.items < job.workers THEN job.items ELSE job.workers
Block == 0 .. job.workers - 1
Element == 1 .. job.items
PARENT == -1

\* chunk_size and curr_b of a block, which is never empty.
ChunkSize(w) == job.items \div W + (IF w < job.items % W THEN 1 ELSE 0)
Begin(w) == w * (job.items \div W) + (IF w < job.items % W THEN w ELSE job.items % W)

\* *(s_beg + i), or what uop makes of it.
Stored(i) == IF job.inPlace THEN out[i] ELSE <<i>>
Source(i) ==
    IF job.kind.unary THEN [k \in DOMAIN Stored(i) |-> -Stored(i)[k]] ELSE Stored(i)

Operands == -job.items .. job.items
Value == Seq(Operands)

TypeOK ==
    /\ job \in Job
    /\ stack \in [Thread -> Seq(Block \cup {PARENT})]
    /\ parent \in {"start", "spawn", "corun", "done"}
    /\ w0 \in 0 .. job.workers
    /\ pc \in [Block -> {"none", "ready", "local", "arrive", "middle", "release",
                         "wait", "add", "done"}]
    /\ out \in [Element -> Value] /\ buf \in [Block -> Value]
    /\ counter \in 0 .. job.workers

Init ==
    /\ job \in Jobs
    /\ \E t \in job.threads : stack = [u \in Thread |-> IF u = t THEN <<PARENT>> ELSE <<>>]
    /\ parent = "start" /\ w0 = 0
    /\ pc = [w \in Block |-> "none"]
    /\ out = [i \in Element |-> IF job.inPlace THEN <<i>> ELSE <<>>]
    /\ buf = [w \in Block |-> <<>>]
    /\ counter = 0

OnTop(t, x) == stack[t] # <<>> /\ Last(stack[t]) = x
Pop(t) == stack' = [stack EXCEPT ![t] = Front(@)]

(***************************************************************************)
(* The result, as the standard algorithms define it                        *)
(***************************************************************************)
Prefix(i) == [k \in 1 .. i |-> IF job.kind.unary THEN -k ELSE k]
Expected(i) == (IF job.kind.init THEN <<0>> ELSE <<>>)
               \o Prefix(IF job.kind.exclusive THEN i - 1 ELSE i)

(***************************************************************************)
(* The runtime task                                                        *)
(***************************************************************************)

\* One worker, or at most two elements: the standard algorithm.
Alone(t) ==
    /\ OnTop(t, PARENT) /\ parent = "start" /\ (job.workers <= 1 \/ job.items <= 2)
    /\ out' = [i \in Element |-> Expected(i)]
    /\ parent' = "done" /\ Pop(t)
    /\ UNCHANGED <<job, w0, pc, buf, counter>>

\* The initial value goes to the first block.  An exclusive scan starts a
\* block from the element before it, which it reads before any task may
\* overwrite it.
Divide(t) ==
    /\ OnTop(t, PARENT) /\ parent = "start" /\ job.workers > 1 /\ job.items > 2
    /\ buf' = [w \in Block |->
                  IF w >= W THEN <<>>
                  ELSE IF w = 0 /\ job.kind.init THEN <<0>>
                  ELSE IF w > 0 /\ job.kind.exclusive THEN Source(Begin(w)) ELSE <<>>]
    /\ parent' = "spawn"
    /\ UNCHANGED <<job, stack, w0, pc, out, counter>>

\* The task of a block; the last one is run by the parent itself.
Spawn(t) ==
    /\ OnTop(t, PARENT) /\ parent = "spawn" /\ w0 < W
    /\ w0' = w0 + 1
    /\ IF w0 = W - 1
       THEN /\ stack' = [stack EXCEPT ![t] = Append(@, w0)]
            /\ pc' = [pc EXCEPT ![w0] = "local"]
            /\ parent' = "corun"
       ELSE /\ pc' = [pc EXCEPT ![w0] = "ready"]
            /\ UNCHANGED <<stack, parent>>
    /\ UNCHANGED <<job, out, buf, counter>>

\* rt.corun() returns when the tasks it scheduled are finished; then the frame
\* goes, with buf and counter.
Return(t) ==
    /\ OnTop(t, PARENT) /\ parent = "corun"
    /\ \A w \in 0 .. W - 2 : pc[w] = "done"
    /\ parent' = "done" /\ Pop(t)
    /\ UNCHANGED <<job, w0, pc, out, buf, counter>>

(***************************************************************************)
(* The task of a block                                                     *)
(***************************************************************************)

\* A thread without work takes a scheduled task, and so does one that waits in
\* corun, or in corun_until as its predicate does not hold.
MayTake(t) ==
    \/ stack[t] = <<>>
    \/ OnTop(t, PARENT) /\ parent = "corun"
    \/ \E w \in Block : OnTop(t, w) /\ pc[w] = "wait"

Take(t, w) ==
    /\ pc[w] = "ready" /\ MayTake(t)
    /\ stack' = [stack EXCEPT ![t] = Append(@, w)]
    /\ pc' = [pc EXCEPT ![w] = "local"]
    /\ UNCHANGED <<job, parent, w0, out, buf, counter>>

\* What a block starts from, and its first k elements.
Scanned(w, k) == buf[w] \o FlattenSeq([j \in 1 .. k |-> Source(Begin(w) + j)])

\* The block's own scan: an exclusive one writes the sum before each element.
LocalScan(t, w) ==
    /\ OnTop(t, w) /\ pc[w] = "local"
    /\ LET shift == IF job.kind.exclusive THEN 1 ELSE 0
       IN  /\ out' = [i \in Element |->
                         IF i \in Begin(w) + 1 .. Begin(w) + ChunkSize(w)
                         THEN Scanned(w, i - Begin(w) - shift) ELSE out[i]]
           /\ buf' = [buf EXCEPT ![w] = Scanned(w, ChunkSize(w) - shift)]
    /\ pc' = [pc EXCEPT ![w] = "arrive"]
    /\ UNCHANGED <<job, stack, parent, w0, counter>>

\* The first block has nothing to add and does not wait.
Leave(t, w, ready) ==
    IF w = 0 THEN pc' = [pc EXCEPT ![w] = "done"] /\ Pop(t)
             ELSE pc' = [pc EXCEPT ![w] = ready] /\ UNCHANGED stack

\* counter.fetch_add(1): whoever is the last scans the sums.
Arrive(t, w) ==
    /\ OnTop(t, w) /\ pc[w] = "arrive"
    /\ counter' = counter + 1
    /\ IF counter = W - 1
       THEN pc' = [pc EXCEPT ![w] = "middle"] /\ UNCHANGED stack
       ELSE Leave(t, w, "wait")
    /\ UNCHANGED <<job, parent, w0, out, buf>>

Middle(t, w) ==
    /\ OnTop(t, w) /\ pc[w] = "middle"
    /\ buf' = [v \in Block |->
                  IF v < W THEN FlattenSeq([k \in 1 .. v + 1 |-> buf[k - 1]]) ELSE buf[v]]
    /\ pc' = [pc EXCEPT ![w] = "release"]
    /\ UNCHANGED <<job, stack, parent, w0, out, counter>>

\* counter.store(0)
Release(t, w) ==
    /\ OnTop(t, w) /\ pc[w] = "release"
    /\ counter' = 0
    /\ Leave(t, w, "wait")
    /\ UNCHANGED <<job, parent, w0, out, buf>>

\* corun_until returns.
Resume(t, w) ==
    /\ OnTop(t, w) /\ pc[w] = "wait" /\ counter = 0
    /\ pc' = [pc EXCEPT ![w] = "add"]
    /\ UNCHANGED <<job, stack, parent, w0, out, buf, counter>>

AddUp(t, w) ==
    /\ OnTop(t, w) /\ pc[w] = "add"
    /\ out' = [i \in Element |->
                  IF i \in Begin(w) + 1 .. Begin(w) + ChunkSize(w)
                  THEN buf[w - 1] \o out[i] ELSE out[i]]
    /\ pc' = [pc EXCEPT ![w] = "done"] /\ Pop(t)
    /\ UNCHANGED <<job, parent, w0, buf, counter>>

Step(t) ==
    \/ Alone(t) \/ Divide(t) \/ Spawn(t) \/ Return(t)
    \/ \E w \in Block :
          \/ Take(t, w) \/ LocalScan(t, w) \/ Arrive(t, w) \/ Middle(t, w)
          \/ Release(t, w) \/ Resume(t, w) \/ AddUp(t, w)
Next == \E t \in job.threads : Step(t)

Spec == Init /\ [][Next]_vars

-----------------------------------------------------------------------------
\* The destination is what the standard algorithm gives, operand by operand and
\* in order, although blocks overwrite the source that others started from and
\* add sums that others are computing.
ScanExact == parent = "done" => \A i \in Element : out[i] = Expected(i)

\* No task uses buf or counter after the frame they live in is gone, and no
\* thread is left inside of one.
FrameOutlives == parent = "done" => \A w \in Block : pc[w] \in {"none", "done"}

Consistent == TypeOK /\ FrameOutlives

=============================================================================
