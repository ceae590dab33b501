---------------------------- MODULE ParallelLoops ----------------------------
(***************************************************************************)
(* The parallel algorithms over a range: for_each, for_each_index,         *)
(* for_each_by_index and transform, find_if and find_if_not, min_element   *)
(* and max_element, reduce, transform_reduce, reduce_by_index.             *)
(* Each is a runtime task that divides the range among up to W tasks of    *)
(* its own, by one of four partitioners (partitioner.h).  The dynamic      *)
(* ones (guided, dynamic, random) share the atomic index `next'; the       *)
(* static one gives every task its first chunk and a stride.               *)
(*                                                                         *)
(* A step is an access to `next', one chunk handed to the callable, or a   *)
(* section under the algorithm's mutex.  Values are abstracted to the      *)
(* elements that were combined into them; find_if keeps the position.      *)
(***************************************************************************)
EXTENDS Integers, FiniteSets

CONSTANT Jobs   \* what the user may ask for: see Job

(***************************************************************************)
(* The tasks that can be made.  All divide the range and run its parts as  *)
(* below; what tells them apart is                                         *)
(*   does: a part's elements are given to the callable one by one or       *)
(*     looked through for a hit, or combined into the task's sum;          *)
(*   indexed: a part's elements are counted from its begin, and not found  *)
(*     by an iterator that follows the parts;                              *)
(*   first: the elements that are the result to begin with;                *)
(*   seed: the elements that a task's sum begins with, at most;            *)
(*   wide: a static chunk has room for them.                               *)
(***************************************************************************)
ForEach   == [does |-> "call", indexed |-> FALSE, first |-> 0, seed |-> 0, wide |-> FALSE]
FindIf    == [does |-> "find", indexed |-> FALSE, first |-> 0, seed |-> 0, wide |-> FALSE]
MinElement == [does |-> "combine", indexed |-> FALSE, first |-> 1, seed |-> 2, wide |-> TRUE]
Reduce    == [does |-> "combine", indexed |-> FALSE, first |-> 0, seed |-> 2, wide |-> TRUE]
ReduceByIndex == [does |-> "combine", indexed |-> TRUE, first |-> 0, seed |-> 0, wide |-> FALSE]

\* uop is applied to each operand, so that a sum may begin with one of them.
TransformReduce == [Reduce EXCEPT !.wide = FALSE]

\* A second range goes the way of the first.
TransformReduceBinary == TransformReduce

\* An index is part_b * inc + beg.
ForEachIndex == [ForEach EXCEPT !.indexed = TRUE]

\* The callable is given the indices of a part at once.
ForEachByIndex == ForEachIndex

\* The output's iterator, and that of a second range, go the way of the first.
Transform == ForEach
TransformBinary == ForEach

\* The elements that do not satisfy the predicate are the hits.
FindIfNot == FindIf

\* With the arguments of comp exchanged.
MaxElement == MinElement

Algorithms == {ForEach, ForEachIndex, ForEachByIndex, Transform, TransformBinary,
               FindIf, FindIfNot, MinElement, MaxElement,
               Reduce, TransformReduce, TransformReduceBinary, ReduceByIndex}

Job == [algorithm : Algorithms,
        partitioner : {"guided", "dynamic", "random", "static"},
        chunk : Nat,          \* part.chunk_size()
        workers : Nat \ {0},  \* executor.num_workers()
        items : Nat,          \* distance(first, last)
        hits : SUBSET Nat]    \* find_if: the elements that satisfy the predicate

JobsAssumption == Jobs \subseteq Job

VARIABLES
    job,
    parent,   \* the runtime task: "start", "spawn", "done"
    w0, b0,   \* w and curr_b of its loop: the next task and where it begins
    next,     \* *next
    pc,       \* where a task is
    size,     \* chunk_size of a static task
    from,     \* curr_b, and once it has a part, the part's begin
    upto,     \* the part's end
    beg,      \* the element a task's iterator refers to
    prev,     \* prev_e
    sum,      \* the elements combined into sum, smallest, tmp
    done,     \* the elements given to the callable, or combined into init
    found     \* find_if: result, as an offset

parentVars == <<parent, w0, b0>>
taskVars == <<pc, size, from, upto, beg, prev, sum>>
vars == <<job, parentVars, next, taskVars, done, found>>

Task == 0 .. job.workers - 1
Element == 0 .. job.items - 1
Least(S) == CHOOSE x \in S : \A y \in S : x <= y
AtMost(x, y) == IF x < y THEN x ELSE y
AtLeast(x, y) == IF x < y THEN y ELSE x

W == AtMost(job.workers, job.items)
\* min_element takes the first element as the initial result and the rest as
\* the range.
First == job.algorithm.first
N == job.items - First
static == job.partitioner = "static"
finding == job.algorithm.does = "find"
combining == job.algorithm.does = "combine"
reducing == job.algorithm.seed > 0
FirstHit == Least((job.hits \cap Element) \cup {job.items})
Sequential == job.workers <= 1 \/ job.items <= job.chunk

TypeOK ==
    /\ job \in Job
    /\ parent \in {"start", "spawn", "done"}
    /\ w0 \in 0 .. job.workers /\ b0 \in Nat /\ next \in Nat
    /\ pc \in [Task -> {"none", "ready", "load", "decide", "claim",
                        "call", "merge", "done"}]
    /\ \A f \in {size, from, upto, beg, prev} : f \in [Task -> Nat]
    /\ sum \in [Task -> SUBSET Nat]
    /\ done \subseteq Nat /\ found \in Nat

Init ==
    /\ job \in Jobs
    /\ parent = "start" /\ w0 = 0 /\ b0 = 0 /\ next = 0
    /\ pc = [w \in Task |-> "none"]
    /\ \E zero \in {[w \in Task |-> 0]} :
          size = zero /\ from = zero /\ upto = zero /\ beg = zero /\ prev = zero
    /\ sum = [w \in Task |-> {}] /\ done = {} /\ found = job.items

(***************************************************************************)
(* The runtime task                                                        *)
(***************************************************************************)

\* One worker, or no more elements than a chunk: the whole range at once.
Alone ==
    /\ parent = "start" /\ Sequential
    /\ parent' = "done" /\ done' = Element /\ found' = FirstHit
    /\ UNCHANGED <<job, w0, b0, next, taskVars>>

Divide ==
    /\ parent = "start" /\ ~Sequential
    /\ parent' = "spawn" /\ done' = 0 .. First - 1
    /\ UNCHANGED <<job, w0, b0, next, taskVars, found>>

AdjustedChunk(w) ==
    IF job.chunk # 0 THEN job.chunk
                     ELSE N \div W + (IF w < N % W THEN 1 ELSE 0)

\* A reduction begins with two elements.
StaticChunk(w) ==
    IF job.algorithm.wide THEN AtLeast(2, AdjustedChunk(w)) ELSE AdjustedChunk(w)

\* Where a task enters its partitioner's loop: a static one has a part already.
LoopBegin == CASE static -> "call"
               [] job.partitioner = "guided" -> "load"
               [] OTHER -> "claim"

\* One task; the last one is not scheduled but run by the parent itself.
Spawn ==
    /\ parent = "spawn" /\ w0 < W /\ (static => b0 < N)
    /\ pc' = [pc EXCEPT ![w0] = IF reducing THEN "ready" ELSE LoopBegin]
    /\ w0' = w0 + 1
    /\ IF static
       THEN /\ size' = [size EXCEPT ![w0] = StaticChunk(w0)]
            /\ from' = [from EXCEPT ![w0] = b0]
            /\ upto' = [upto EXCEPT ![w0] = AtMost(b0 + StaticChunk(w0), N)]
            /\ b0' = b0 + StaticChunk(w0)
       ELSE UNCHANGED <<size, from, upto, b0>>
    /\ parent' = IF w0' = W \/ (static /\ b0' >= N) THEN "done" ELSE "spawn"
    /\ UNCHANGED <<job, next, beg, prev, sum, done, found>>

NothingToSpawn ==
    /\ parent = "spawn" /\ (w0 >= W \/ (static /\ b0 >= N))
    /\ parent' = "done"
    /\ UNCHANGED <<job, w0, b0, next, taskVars, done, found>>

(***************************************************************************)
(* The tasks: before and after the partitioner's loop                      *)
(***************************************************************************)
\* A reduction merges its sum; reduce_by_index only if it got a chunk, which
\* the static loop takes for granted.
MergesSum(w) ==
    combining /\ (reducing \/ static \/ sum[w] # {})

\* The end of the loop, and of its variables.
LoopEnd(w) ==
    /\ pc' = [pc EXCEPT ![w] = IF MergesSum(w) THEN "merge" ELSE "done"]
    /\ from' = [from EXCEPT ![w] = 0] /\ upto' = [upto EXCEPT ![w] = 0]
    /\ beg' = [beg EXCEPT ![w] = 0] /\ prev' = [prev EXCEPT ![w] = 0]

\* The elements from b on that begin a sum: a last single one is all there is.
Combine(w, b, n) ==
    /\ sum' = [sum EXCEPT ![w] = First + b .. First + b + AtMost(n, N - b) - 1]
    /\ beg' = [beg EXCEPT ![w] = b + n]
    /\ prev' = [prev EXCEPT ![w] = b + n]
    /\ pc' = [pc EXCEPT ![w] = IF N - b = 1 THEN "merge" ELSE LoopBegin]

\* A faulty Seed: a chunk of one element begins with two.
SeedTwo(w) == 2

\* The elements a static sum begins with.
Seed(w) == AtMost(job.algorithm.seed, size[w])

PreReduce(w) ==
    /\ pc[w] = "ready" /\ reducing /\ static
    /\ Combine(w, from[w], Seed(w))
    /\ UNCHANGED <<job, parentVars, next, size, from, upto, done, found>>

PreReduceDynamic(w) ==
    /\ pc[w] = "ready" /\ reducing /\ ~static
    /\ next' = next + 2
    /\ IF next >= N
       THEN /\ pc' = [pc EXCEPT ![w] = "done"]
            /\ UNCHANGED <<sum, beg, prev>>
       ELSE Combine(w, next, 2)
    /\ UNCHANGED <<job, parentVars, size, from, upto, done, found>>

\* Under the mutex.
Merge(w) ==
    /\ pc[w] = "merge"
    /\ done' = done \cup sum[w]
    /\ sum' = [sum EXCEPT ![w] = {}]
    /\ pc' = [pc EXCEPT ![w] = "done"]
    /\ UNCHANGED <<job, parentVars, next, size, from, upto, beg, prev, found>>

(***************************************************************************)
(* The partitioners                                                        *)
(***************************************************************************)
\* A faulty Chunk: 0 is taken for a size.
ChunkAsGiven == job.chunk

Chunk == AtLeast(1, job.chunk)

\* GuidedPartitioner: from here on single chunks, before that a share of the
\* rest.
FineGrained(b) == N - b < 2 * W * (Chunk + 1)
Share(b) == AtLeast((N - b) \div (2 * W), Chunk)

\* RandomPartitioner::chunk_size_range, for the default alpha and beta.
RandomChunks ==
    LET b1 == AtLeast((N * W) \div 100, 1)
    IN  b1 .. AtLeast((N * W) \div 2, b1 + 1)
ClaimSizes == IF job.partitioner = "random" THEN RandomChunks ELSE {Chunk}

Load(w) ==
    /\ pc[w] = "load"
    /\ from' = [from EXCEPT ![w] = next]
    /\ pc' = [pc EXCEPT ![w] = "decide"]
    /\ UNCHANGED <<job, parentVars, next, size, upto, beg, prev, sum, done, found>>

\* The compare-exchange of the guided loop, or what makes the loop go on to
\* fetch_add or end.
Decide(w) ==
    /\ pc[w] = "decide"
    /\ \/ from[w] >= N /\ LoopEnd(w) /\ UNCHANGED next
       \/ /\ from[w] < N /\ FineGrained(from[w])
          /\ pc' = [pc EXCEPT ![w] = "claim"]
          /\ from' = [from EXCEPT ![w] = 0]
          /\ UNCHANGED <<next, upto, beg, prev>>
       \/ /\ from[w] < N /\ ~FineGrained(from[w]) /\ next = from[w]
          /\ next' = AtMost(from[w] + Share(from[w]), N)
          /\ upto' = [upto EXCEPT ![w] = next']
          /\ pc' = [pc EXCEPT ![w] = "call"]
          /\ UNCHANGED <<from, beg, prev>>
       \/ /\ from[w] < N /\ ~FineGrained(from[w]) /\ next # from[w]
          /\ from' = [from EXCEPT ![w] = next]
          /\ UNCHANGED <<next, upto, pc, beg, prev>>
    /\ UNCHANGED <<job, parentVars, size, sum, done, found>>

\* next->fetch_add(chunk_size)
Claim(w) ==
    /\ pc[w] = "claim"
    /\ \E c \in ClaimSizes :
          /\ next' = next + c
          /\ IF next >= N
             THEN LoopEnd(w)
             ELSE /\ from' = [from EXCEPT ![w] = next]
                  /\ upto' = [upto EXCEPT ![w] = AtMost(next + c, N)]
                  /\ pc' = [pc EXCEPT ![w] = "call"]
                  /\ UNCHANGED <<beg, prev>>
    /\ UNCHANGED <<job, parentVars, size, sum, done, found>>

(***************************************************************************)
(* One part.  The iterator is advanced from the end of the previous part;  *)
(* the static reductions leave out what they began the sum with.           *)
(***************************************************************************)
Skips(w) == static /\ reducing /\ from[w] <= prev[w]
ReadFrom(w) ==
    CASE job.algorithm.indexed -> from[w]
      [] Skips(w) -> beg[w]
      [] OTHER -> beg[w] + (from[w] - prev[w])
ReadUpto(w) ==
    ReadFrom(w) + AtLeast(0, upto[w] - (IF Skips(w) THEN prev[w] ELSE from[w]))
Reads(w) == {First + i : i \in ReadFrom(w) .. ReadUpto(w) - 1}
Hits(w) == Reads(w) \cap job.hits

\* A guided task in the fine-grained loop stays there: less is left than before.
Back(w) ==
    IF job.partitioner = "guided" /\ FineGrained(from[w]) THEN "claim" ELSE LoopBegin

\* The task's next part: a static one's is W chunks later.
GoOn(w) ==
    LET b == from[w] + W * size[w]
    IN  IF static /\ b >= N
        THEN LoopEnd(w)
        ELSE /\ pc' = [pc EXCEPT ![w] = Back(w)]
             /\ from' = [from EXCEPT ![w] = IF static THEN b ELSE 0]
             /\ upto' = [upto EXCEPT ![w] = IF static THEN AtMost(b + size[w], N) ELSE 0]
             /\ beg' = [beg EXCEPT ![w] = ReadUpto(w)]
             /\ prev' = [prev EXCEPT ![w] = upto[w]]

Call(w) ==
    /\ pc[w] = "call" /\ ~(finding /\ Hits(w) # {})
    /\ IF combining
       THEN sum' = [sum EXCEPT ![w] = @ \cup Reads(w)] /\ UNCHANGED done
       ELSE done' = done \cup Reads(w) /\ UNCHANGED sum
    /\ GoOn(w)
    /\ UNCHANGED <<job, parentVars, next, size, found>>

\* loop_until: the part has a hit.  The comparison with result is under the
\* mutex; the task then stops.
Hit(w) ==
    /\ pc[w] = "call" /\ finding /\ Hits(w) # {}
    /\ LET hit == Least(Hits(w))
       IN  /\ found' = AtMost(found, from[w] + (hit - ReadFrom(w)))
           /\ done' = done \cup {x \in Reads(w) : x <= hit}
    /\ LoopEnd(w)
    /\ UNCHANGED <<job, parentVars, next, size, sum>>

Step(w) == \/ PreReduce(w) \/ PreReduceDynamic(w) \/ Merge(w)
           \/ Load(w) \/ Decide(w) \/ Claim(w) \/ Call(w) \/ Hit(w)
Parent == Alone \/ Divide \/ Spawn \/ NothingToSpawn
Next == Parent \/ \E w \in Task : Step(w)

Spec == Init /\ [][Next]_vars

-----------------------------------------------------------------------------
Finished == parent = "done" /\ \A w \in Task : pc[w] \in {"none", "done"}

\* Whatever is read was neither read before nor is being read by another
\* task, and lies in the range, although the tasks overshoot the end of the
\* range, begin sums ahead of the loop and stride over each other's chunks.
Counted == done \cup UNION {sum[w] : w \in Task}
Calling == {w \in Task : pc[w] = "call"}
NothingTwice ==
    /\ \A w \in Calling : Reads(w) \subseteq Element \ Counted
    /\ \A v, w \in Task : v # w =>
          /\ sum[v] \cap sum[w] = {}
          /\ v \in Calling /\ w \in Calling => Reads(v) \cap Reads(w) = {}
    /\ \A w \in Task : sum[w] \subseteq Element \ done

\* The value a task merges exists (reduce.h: "tmp is guaranteed to have value").
SumsHaveValue == \A w \in Task : pc[w] = "merge" => sum[w] # {}

Consistent == TypeOK /\ NothingTwice /\ SumsHaveValue

\* When the algorithm's task is over, all elements were given to the callable
\* or combined, and find_if has the first that satisfies the predicate.  In what
\* order they were combined is left open, and with it the result of an operator
\* that does not commute, and which of equal ones min_element has: tasks merge
\* in the order in which they end, and take the second of two equal elements.
ResultExact ==
    Finished => IF finding THEN found = FirstHit ELSE done = Element

=============================================================================
