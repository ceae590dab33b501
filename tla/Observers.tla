----------------------------- MODULE Observers -----------------------------
(***************************************************************************)
(* The observers of an executor (core/observer.h) and the calls that feed  *)
(* them (core/executor.h).  A worker enters a task inside of another one   *)
(* when that corun()s, so each observer keeps a stack of entry times per   *)
(* worker.  ChromeObserver keeps one list of segments per worker,          *)
(* TFProfObserver one per worker and level of the stack.  Text is          *)
(* abstracted to its entries and the commas between them.                  *)
(***************************************************************************)
EXTENDS Integers, Sequences, FiniteSets, SequencesExt, FiniteSetsExt

CONSTANTS
    Worker,         \* 1 .. number of workers
    Type,           \* task types
    MaxTasks,       \* bound on the tasks that are entered
    Ticks           \* how long a task may take, beyond those inside of it

Observer == {"chrome", "tfprof"}

VARIABLES
    clock, entered,
    running,        \* per worker the tasks it is in, with the time each was entered
    observers,      \* Executor::_observers
    stacks,         \* entry times per observer and worker
    segments,       \* chrome: per worker; tfprof: per worker and level
    told            \* the tasks that each observer was told of, with their levels

obsVars == <<clock, entered, running, observers, stacks, segments, told>>

Idle == \A w \in Worker : running[w] = <<>>
PerWorker(x) == [w \in Worker |-> x]

Init ==
    /\ clock = 0 /\ entered = 0
    /\ running = PerWorker(<<>>)
    /\ observers \in SUBSET Observer
    /\ stacks = [o \in Observer |-> PerWorker(<<>>)]
    /\ segments = [o \in Observer |-> PerWorker(<<>>)]
    /\ told = [o \in Observer |-> <<>>]

\* on_entry
OnEntry(stack) == Append(stack, clock)

\* _observer_prologue: on_entry of every observer
Enter(w, t) ==
    /\ entered < MaxTasks
    /\ entered' = entered + 1
    /\ running' = [running EXCEPT ![w] = Append(@, [type |-> t, beg |-> clock])]
    /\ stacks' = [o \in Observer |->
           IF o \in observers THEN [stacks[o] EXCEPT ![w] = OnEntry(@)] ELSE stacks[o]]
    /\ UNCHANGED <<clock, observers, segments, told>>

\* segments[w].resize(stack.size())
Levels(levels, n) == [i \in 1 .. (IF n > Len(levels) THEN n ELSE Len(levels)) |->
                         IF i <= Len(levels) THEN levels[i] ELSE <<>>]

\* A faulty AtLevel, which files a task under the level of those inside of it.
AtLevelAbove(levels, n, s) == [Levels(levels, n + 1) EXCEPT ![n + 1] = Append(@, s)]

AtLevel(levels, n, s) == [Levels(levels, n) EXCEPT ![n] = Append(@, s)]

\* ChromeObserver::on_exit has no levels.
OnList(list, s) == Append(list, s)

\* _observer_epilogue: on_exit of every observer
Exit(w) ==
    /\ running[w] # <<>>
    /\ \E d \in Ticks : clock' = clock + d
    /\ running' = [running EXCEPT ![w] = Front(@)]
    /\ stacks' = [o \in Observer |->
           IF o \in observers THEN [stacks[o] EXCEPT ![w] = Front(@)] ELSE stacks[o]]
    /\ segments' = [o \in Observer |->
           IF o \notin observers THEN segments[o]
           ELSE LET s == [type |-> Last(running[w]).type, beg |-> Last(stacks[o][w]), end |-> clock']
                IN  [segments[o] EXCEPT ![w] = IF o = "chrome" THEN OnList(@, s)
                                               ELSE AtLevel(@, Len(stacks[o][w]), s)]]
    /\ told' = [o \in Observer |->
           IF o \notin observers THEN told[o]
           ELSE Append(told[o], [worker |-> w, level |-> Len(running[w]),
                                 segment |-> [type |-> Last(running[w]).type,
                                              beg |-> Last(running[w]).beg, end |-> clock']])]
    /\ UNCHANGED <<entered, observers>>

\* make_observer and remove_observer: an executor that runs nothing.
MakeObserver(o) ==
    /\ Idle /\ o \notin observers
    /\ observers' = observers \cup {o}
    /\ stacks' = [stacks EXCEPT ![o] = PerWorker(<<>>)]
    /\ segments' = [segments EXCEPT ![o] = PerWorker(<<>>)]
    /\ told' = [told EXCEPT ![o] = <<>>]
    /\ UNCHANGED <<clock, entered, running>>

RemoveObserver(o) ==
    /\ Idle /\ o \in observers
    /\ observers' = observers \ {o}
    /\ UNCHANGED <<clock, entered, running, stacks, segments, told>>

\* clear(): TFProf's levels stay, without segments.
WithoutSegments(o, w) == IF o = "chrome" THEN <<>> ELSE [l \in DOMAIN segments[o][w] |-> <<>>]

ClearObserver(o) ==
    /\ Idle /\ o \in observers /\ told[o] # <<>>
    /\ stacks' = [stacks EXCEPT ![o] = PerWorker(<<>>)]
    /\ segments' = [segments EXCEPT ![o] = [w \in Worker |-> WithoutSegments(o, w)]]
    /\ told' = [told EXCEPT ![o] = <<>>]
    /\ UNCHANGED <<clock, entered, running, observers>>

Next ==
    \/ \E w \in Worker : Exit(w) \/ \E t \in Type : Enter(w, t)
    \/ \E o \in Observer : MakeObserver(o) \/ RemoveObserver(o) \/ ClearObserver(o)
Spec == Init /\ [][Next]_obsVars

(***************************************************************************)
(* What the observers report                                               *)
(***************************************************************************)
Chrome == segments["chrome"]
TFProf == segments["tfprof"]
First(s) == Min({w \in Worker : s[w] # <<>>} \cup {Cardinality(Worker) + 1})
Comma == <<",">>
Entry(x) == <<"entry", x>>
Separated(s) ==
    FlattenSeq([i \in DOMAIN s |-> IF i < Len(s) THEN <<Entry(s[i]), Comma>> ELSE <<Entry(s[i])>>])

\* ChromeObserver::dump, between its brackets: a worker's segments, and a
\* comma before those of every worker but the first.
ChromeDump ==
    FlattenSeq([w \in Worker |->
        (IF w > First(Chrome) /\ Chrome[w] # <<>> THEN <<Comma>> ELSE <<>>)
        \o (IF w >= First(Chrome) THEN Separated(Chrome[w]) ELSE <<>>)])

\* TFProfObserver::dump: its lists of segments that are not empty.
TFProfDump ==
    LET lists == FlattenSeq([w \in Worker |->
                    IF w < First(TFProf) THEN <<>> ELSE SelectSeq(TFProf[w], LAMBDA l : l # <<>>)])
    IN  FoldLeft(LAMBDA d, i : [text |-> d.text \o (IF d.comma THEN <<Comma>> ELSE <<>>)
                                                \o <<Entry(Separated(lists[i]))>>,
                                comma |-> TRUE],
                 [text |-> <<>>, comma |-> FALSE], [i \in DOMAIN lists |-> i]).text

Nothing == [count |-> 0, total |-> 0, min |-> 0, max |-> 0]
Counted(x, s) ==
    LET t == s.end - s.beg
    IN  [count |-> x.count + 1,
         total |-> x.total + t,
         min   |-> IF x.count = 0 \/ t < x.min THEN t ELSE x.min,
         max   |-> IF x.count = 0 \/ t > x.max THEN t ELSE x.max]

\* TFProfObserver::summary: by task type, and by worker and level, there by
\* task type again.
AllSegments == FlattenSeq([w \in Worker |-> FlattenSeq(TFProf[w])])
Summary(s) == FoldLeft(Counted, Nothing, s)
OfType(s, t) == Summary(SelectSeq(s, LAMBDA x : x.type = t))
LevelSummary(w, l) == Summary(TFProf[w][l])

\* A table has a row for each type that tasks were counted of.
Rows(s) == [t \in {u \in Type : OfType(s, u).count > 0} |-> OfType(s, t)]
TaskTable == Rows(AllSegments)

Levelled == {<<w, l>> \in Worker \X (1 .. MaxTasks) : l \in DOMAIN TFProf[w] /\ TFProf[w][l] # <<>>}
WorkerTable == [x \in Levelled |-> [all |-> LevelSummary(x[1], x[2]), types |-> Rows(TFProf[x[1]][x[2]])]]

\* The first line: the workers that have levels, with or without tasks; the
\* tasks; and the time from the first task's begin to the last one's end.
NumWorkers == Cardinality({w \in Worker : TFProf[w] # <<>>})
NumTasks == Len(AllSegments)
View ==
    IF AllSegments = <<>> THEN 0
    ELSE Max({AllSegments[i].end : i \in DOMAIN AllSegments})
         - Min({AllSegments[i].beg : i \in DOMAIN AllSegments})

ChromeTasks == FoldLeft(LAMBDA n, w : n + Len(Chrome[w]), 0, [w \in Worker |-> w])

-----------------------------------------------------------------------------
\* A sum of tasks as its definition has it, from what the observer was told.
SummaryOf(S) ==
    LET Span(i) == told["tfprof"][i].segment.end - told["tfprof"][i].segment.beg
    IN  IF S = {} THEN Nothing
        ELSE [count |-> Cardinality(S), total |-> MapThenSumSet(Span, S),
              min |-> Min({Span(i) : i \in S}), max |-> Max({Span(i) : i \in S})]
Told(Test(_)) == {i \in DOMAIN told["tfprof"] : Test(told["tfprof"][i])}

CommasBetween(text) ==
    /\ Len(text) = 0 \/ Len(text) % 2 = 1
    /\ \A i \in DOMAIN text : (i % 2 = 0) <=> (text[i] = Comma)

\* Every task that an observer was told of is in its report once, on its
\* worker and level, and on one level of a worker tasks follow each other, so
\* that their times add up to no more than the view; the entries of a dump have
\* commas between them and nowhere else; and the summary's two tables have the
\* numbers of the tasks, also where spans are zero, after clear() and for
\* observers that came late.
ProfilesExact ==
    /\ \A w \in Worker :
          /\ Chrome[w] = LET mine == SelectSeq(told["chrome"], LAMBDA x : x.worker = w)
                         IN  [i \in DOMAIN mine |-> mine[i].segment]
          /\ \A l \in DOMAIN TFProf[w] :
                /\ LevelSummary(w, l) = SummaryOf(Told(LAMBDA x : x.worker = w /\ x.level = l))
                /\ \A i \in 1 .. Len(TFProf[w][l]) - 1 : TFProf[w][l][i].end <= TFProf[w][l][i + 1].beg
    /\ NumTasks = Len(told["tfprof"]) /\ ChromeTasks = Len(told["chrome"])
    /\ TaskTable = LET ofType(t) == Told(LAMBDA x : x.segment.type = t)
                   IN  [t \in {u \in Type : ofType(u) # {}} |-> SummaryOf(ofType(t))]
    /\ \A row \in DOMAIN WorkerTable :
          LET r == WorkerTable[row]
          IN  /\ r.all.total <= View
              /\ r.all.count = MapThenSumSet(LAMBDA t : r.types[t].count, DOMAIN r.types)
    /\ MapThenSumSet(LAMBDA t : TaskTable[t].total, DOMAIN TaskTable)
           = MapThenSumSet(LAMBDA x : WorkerTable[x].all.total, DOMAIN WorkerTable)
    /\ Cardinality({told["tfprof"][i].worker : i \in DOMAIN told["tfprof"]}) <= NumWorkers
    /\ Len(ChromeDump) = (IF told["chrome"] = <<>> THEN 0 ELSE 2 * Len(told["chrome"]) - 1)
    /\ CommasBetween(ChromeDump) /\ CommasBetween(TFProfDump)
=============================================================================
