---------------------------- MODULE MCAlgorithms ----------------------------
(* Small instances of the algorithms for TLC: the initial state chooses which  *)
(* of them runs, and the variables of the others stay <<>>.                    *)
EXTENDS Integers, Sequences, FiniteSets, TLC

CONSTANTS
    MaxItems, MaxChunk, GuidedItems, StaticItems,               \* ParallelLoops
    t1, t2, t3, MaxWorkers, MaxScanItems,                       \* Scan
    Insertion, Cutoff, Ninthers, PartialLimit, SortBlock,       \* Sort
    nt, vt, Warp, Threshold, Word,                              \* CudaKernels
    RangeBits, NumberBits                                       \* IndexRanges, Numbers

VARIABLES
    part,       \* the algorithm that runs
    job, parent, w0, pc,                                        \* of loops and scans
    b0, next, size, from, upto, beg, prev, sum, done, found,
    stack, out, buf, counter,
    input, ninther, branchless, array, jobs, strayed,
    call, arrays, vals, mp, pass, result,
    range, given, phase, taken, visited,
    number, sample, atomic, state, finished

-----------------------------------------------------------------------------
Partitioners == {"guided", "dynamic", "random", "static"}
MadeLoops == INSTANCE ParallelLoops WITH Jobs <- {}

HitSets(algorithm, n) ==
    IF algorithm.does = "find" THEN {{}} \cup {{i, n - 1} : i \in 0 .. n - 1} ELSE {{}}
JobsOf(partitioners, chunks, workers, items) ==
    UNION {{[algorithm |-> a, partitioner |-> p, chunk |-> c, workers |-> k, items |-> n, hits |-> h] :
               p \in partitioners, c \in chunks, h \in HitSets(a, n)}
           : a \in MadeLoops!Algorithms, k \in workers, n \in items}

\* Every algorithm with every partitioner; ranges that are long enough for two
\* workers to take shares in the coarse part of the guided loop, and for three
\* static tasks to stride.
LoopJobs == JobsOf(Partitioners, 0 .. MaxChunk, {1, 2}, 0 .. MaxItems)
            \cup JobsOf(Partitioners \ {"random"}, {2}, {3}, {MaxItems})
            \cup JobsOf({"guided"}, {1}, {2}, GuidedItems)
            \cup JobsOf({"static"}, 0 .. MaxChunk, {2, 3}, StaticItems)

\* One to three threads, and at least as many workers: the others are busy.
Thread == {t1, t2, t3}
MadeScans == INSTANCE Scan WITH Jobs <- {}
ScanJobs == UNION {[kind : MadeScans!Kinds,
                    workers : Cardinality(T) .. MaxWorkers,
                    threads : {T},
                    items : 1 .. MaxScanItems,
                    inPlace : BOOLEAN] : T \in {{t1}, {t1, t2}, {t1, t2, t3}}}

\* All short arrays, and longer ones that make partitions good, bad, already
\* ordered or all equal, with pivots at either end of their range.
Striped == {[i \in 1 .. 12 |-> ((i * p + q) % m) \div 2] :
              p \in 1 .. 12, q \in {0, 3, 5}, m \in 8 .. 13}
Peaks == {[i \in 1 .. 33 |-> IF i \in {1, 2, 3, 16, 17, 18, 30, 31, 32, 33}
                              THEN 40 + ((i * p) % 37) ELSE (i * 7) % 33] : p \in 1 .. 5}
Killer == <<0, 8, 9, 10, 11, 12, 13, 3, 5, 14, 7, 1, 2, 4, 6, 15, 16, 17, 18, 19, 20, 21>>
Arrays == [1 .. 3 -> 0 .. 1] \cup [1 .. 7 -> 0 .. 2] \cup [1 .. 9 -> 0 .. 1]
          \cup Striped \cup Peaks \cup {Killer}

\* Arrays around the ends of warps, blocks and tiles, and so long that the buffer
\* has several levels.
CallsOf(kinds, keys, orders) == [kind : kinds, keys : keys, a : {0}, order : orders]
UpDown == {"up", "down"}
Blank(n) == [j \in 0 .. n - 1 |-> 0]
Mixed(n, p, m) == [j \in 0 .. n - 1 |-> (j * p) % m]
TwoRuns(a, n) == [j \in 0 .. n - 1 |-> IF j < a THEN (j * 3) \div (a + 1)
                                        ELSE ((j - a) * 4) \div (n - a + 1)]
Merges(sizes, cuts) == UNION {[kind : {"merge"}, keys : {TwoRuns(a, n)}, a : {a}, order : {"up"}] :
                                n \in sizes, a \in cuts}
Calls ==
    CallsOf({"reduce", "uninitialized"}, {Blank(n) : n \in (0 .. 26) \cup (47 .. 50)}, UpDown)
    \cup CallsOf({"reduce"}, {Blank(600)}, {"up"})
    \cup CallsOf({"inclusive", "exclusive"}, {Blank(n) : n \in (0 .. 26) \cup {47, 48, 49, 60}}, UpDown)
    \cup CallsOf({"find", "min"}, {Mixed(n, 5, 13) : n \in 0 .. 30}, UpDown)
    \cup CallsOf({"find", "min"}, {[j \in 0 .. n - 1 |-> 1 + ((j * 7) % 11)] : n \in {5, 60}}, UpDown)
    \cup Merges({24, 25}, {0, 1, 5, 10, 24}) \cup Merges({60, 72}, {0, 10, 24, 36, 50, 60})
    \cup CallsOf({"sort"}, {Mixed(n, 5, 7) : n \in 0 .. 30}, UpDown)
    \cup CallsOf({"sort"}, {Mixed(n, 11, 37) : n \in {49, 71, 75, 97}}, UpDown)

\* Samples with all orders of ties, and longer ones whose nine positions are apart;
\* what is offered lies on both sides of the first value, and comes twice.
Samples == UNION {[1 .. n -> 0 .. 2] : n \in 1 .. 4} \cup UNION {[1 .. n -> 0 .. 1] : n \in 5 .. 10}
           \cup {[i \in 1 .. 25 |-> (i * p) % 26] : p \in 1 .. 25}
Raisers == [op : {"max", "min"}, value : {1, 3, 4}]

Loops   == INSTANCE ParallelLoops WITH Jobs <- LoopJobs
Scans   == INSTANCE Scan WITH Jobs <- ScanJobs
Sorts   == INSTANCE Sort WITH Block <- SortBlock
Kernels == INSTANCE CudaKernels
Indices == INSTANCE IndexRanges WITH Bits <- RangeBits
Numbers == INSTANCE Numbers WITH Bits <- NumberBits

ASSUME Loops!JobsAssumption
ASSUME Scans!ScanAssumption
ASSUME Kernels!KernelAssumption

-----------------------------------------------------------------------------
LoopsOff   == /\ b0 = <<>> /\ next = <<>> /\ size = <<>> /\ from = <<>> /\ upto = <<>>
              /\ beg = <<>> /\ prev = <<>> /\ sum = <<>> /\ done = <<>> /\ found = <<>>
ScansOff   == stack = <<>> /\ out = <<>> /\ buf = <<>> /\ counter = <<>>
SortsOff   == /\ input = <<>> /\ ninther = <<>> /\ branchless = <<>>
              /\ array = <<>> /\ jobs = <<>> /\ strayed = <<>>
KernelsOff == /\ call = <<>> /\ arrays = <<>> /\ vals = <<>> /\ mp = <<>>
              /\ pass = <<>> /\ result = <<>>

JobsOff    == job = <<>> /\ parent = <<>> /\ w0 = <<>>
RangeOff   == range = <<>> /\ given = <<>> /\ phase = <<>> /\ taken = <<>> /\ visited = <<>>
NumbersOff == /\ number = <<>> /\ sample = <<>> /\ atomic = <<>> /\ state = <<>>
              /\ finished = <<>>

MCInit ==
    /\ part \in {"loops", "scan", "sort", "gpu", "range", "numbers"}
    /\ IF part \in {"loops", "scan"} THEN TRUE ELSE JobsOff
    /\ IF part \in {"loops", "scan", "gpu"} THEN TRUE ELSE pc = <<>>
    /\ IF part = "loops"   THEN Loops!Init   ELSE LoopsOff
    /\ IF part = "scan"    THEN Scans!Init   ELSE ScansOff
    /\ IF part = "sort"    THEN Sorts!Init   ELSE SortsOff
    /\ IF part = "gpu"     THEN Kernels!Init ELSE KernelsOff
    /\ IF part = "range"   THEN Indices!Init ELSE RangeOff
    /\ IF part = "numbers" THEN Numbers!Init ELSE NumbersOff

jobVars    == <<job, parent, w0>>
loopOnly   == <<b0, next, size, from, upto, beg, prev, sum, done, found>>
scanOnly   == <<stack, out, buf, counter>>
sortVars   == <<input, ninther, branchless, array, jobs, strayed>>
gpuOnly    == <<call, arrays, vals, mp, pass, result>>
helperVars == <<range, given, phase, taken, visited, number, sample, atomic, state, finished>>
mcVars == <<part, jobVars, pc, loopOnly, scanOnly, sortVars, gpuOnly, helperVars>>

LoopStep == /\ part = "loops" /\ Loops!Next
            /\ UNCHANGED <<part, scanOnly, sortVars, gpuOnly, helperVars>>
ScanStep(t) == /\ part = "scan" /\ t \in job.threads /\ Scans!Step(t)
               /\ UNCHANGED <<part, loopOnly, sortVars, gpuOnly, helperVars>>
SortStep == /\ part = "sort" /\ Sorts!Next
            /\ UNCHANGED <<part, jobVars, pc, loopOnly, scanOnly, gpuOnly, helperVars>>
GpuStep  == /\ part = "gpu" /\ Kernels!Next
            /\ UNCHANGED <<part, jobVars, loopOnly, scanOnly, sortVars, helperVars>>
RangeStep == /\ part = "range" /\ Indices!Next
             /\ UNCHANGED <<part, jobVars, pc, loopOnly, scanOnly, sortVars, gpuOnly,
                            number, sample, atomic, state, finished>>
NumberStep == /\ part = "numbers" /\ Numbers!Next
              /\ UNCHANGED <<part, jobVars, pc, loopOnly, scanOnly, sortVars, gpuOnly,
                             range, given, phase, taken, visited>>

\* Every algorithm stops with its result, and nowhere else.
Finished ==
    CASE part = "loops" -> Loops!Finished
      [] part = "scan"  -> parent = "done" /\ \A t \in Thread : stack[t] = <<>>
      [] part = "sort"  -> jobs = {}
      [] part = "gpu"   -> pc = "done"
      [] part = "range" -> phase = "done"
      [] part = "numbers" -> ~Numbers!Raising \/ finished = Raisers
Stop == part # "sort" /\ Finished /\ UNCHANGED mcVars

MCNext == \/ LoopStep \/ (\E t \in Thread : ScanStep(t)) \/ SortStep \/ GpuStep
          \/ RangeStep \/ NumberStep \/ Stop

\* The threads of the loops and the scans go on, as in the modules.
MCSpec == /\ MCInit /\ [][MCNext]_mcVars
          /\ WF_mcVars(LoopStep)
          /\ \A t \in Thread : WF_mcVars(ScanStep(t))

-----------------------------------------------------------------------------
\* No two tasks read an element, no block uses sums that are not there or whose
\* frame is gone (for_each.h, reduce.h, find.h, scan.h).
TasksConsistent ==
    /\ part = "loops" => Loops!Consistent
    /\ part = "scan" => Scans!Consistent

\* When an algorithm ends, loops and reductions have used every element once, find has
\* the first hit and min a least element (the order of reductions and which of equal
\* ones min has are left open), scans add up what precedes, host scans in its order,
\* and merge and sort order their input; while the tasks of a sort run their ranges
\* are their own, and no unguarded scan leaves one (reduce.h, find.h, scan.h, sort.h).
\* What these are built from gives what it is named for (iterator.h, math.h).
ResultsExact ==
    CASE part = "loops" -> Loops!ResultExact
      [] part = "scan"  -> Scans!ScanExact
      [] part = "sort"  -> Sorts!SortExact
      [] part = "gpu"   -> Kernels!KernelsExact
      [] part = "range" -> Indices!IndicesExact
      [] part = "numbers" -> Numbers!NumbersExact

\* Under weak fairness of the threads the loops and the scans end: no task waits for
\* one that lies below it on the stack of its thread (corun_until).
AlgorithmsEnd == <>(part \in {"loops", "scan"} => Finished)
=============================================================================
