-------------------------------- MODULE Sort --------------------------------
(***************************************************************************)
(* The parallel sort (algorithm/sort.h): a pattern-defeating quicksort     *)
(* whose every partition hands its left part to a new asynchronous task of *)
(* the runtime and goes on with the right one, in the branching and the    *)
(* branchless form of the partition.  Tasks work on one array without any  *)
(* lock: it is the ranges that keep them apart, and scans without a bounds *)
(* check that rely on an element that stops them.                          *)
(*                                                                         *)
(* A step is one round of a task's loop.  The thresholds of the code are   *)
(* constants here, so that small arrays reach every branch.                *)
(***************************************************************************)
EXTENDS Integers, Sequences, FiniteSetsExt

CONSTANTS
    Arrays,             \* the arrays to sort, sequences of numbers
    Insertion,          \* insertion_sort_threshold
    Cutoff,             \* parallel_sort_cutoff
    Ninthers,           \* the choices for ninther_threshold
    PartialLimit,       \* partial_insertion_sort_limit
    Block               \* block_size of the branchless partition

VARIABLES
    input,      \* the array as it was given
    ninther,    \* ninther_threshold
    branchless, \* whether values are compared without branches
    array,      \* the array as it is
    jobs,       \* the ranges of the tasks that have not finished
    strayed     \* a scan without a bounds check has left its range

sortVars == <<input, ninther, branchless, array, jobs, strayed>>

Array == Seq(Nat)

\* log2 of the C library, cut to an integer, as parallel_pdqsort takes it
Log2(n) == CHOOSE k \in 0 .. n : 2 ^ k <= n /\ n < 2 ^ (k + 1)

\* What std::sort and the heap sort leave in b .. e - 1.
Sorted[a \in Array, b \in Nat, e \in Nat] ==
    LET below(v, orEqual) == Cardinality({i \in b .. e - 1 : a[i] < v \/ (orEqual /\ a[i] = v)})
        at(i) == CHOOSE v \in {a[j] : j \in b .. e - 1} :
                    below(v, FALSE) <= i - b /\ i - b < below(v, TRUE)
    IN [i \in DOMAIN a |-> IF i \in b .. e - 1 THEN at(i) ELSE a[i]]

\* make_sort_task: small arrays are sorted at once.
Init ==
    /\ input \in Arrays
    /\ ninther \in Ninthers
    /\ branchless \in BOOLEAN
    /\ strayed = FALSE
    /\ LET n == Len(input) IN
       IF n <= Cutoff
       THEN array = Sorted[input, 1, n + 1] /\ jobs = {}
       ELSE array = input /\ jobs = {[begin |-> 1, end |-> n + 1, leftmost |-> TRUE, bad |-> Log2(n)]}

Swapped(a, i, j) == [a EXCEPT ![i] = a[j], ![j] = a[i]]
Sort2(a, i, j) == IF a[j] < a[i] THEN Swapped(a, i, j) ELSE a
Sort3(a, i, j, k) == Sort2(Sort2(Sort2(a, i, j), j, k), i, j)

----------------------------------------------------------------------------
(* Insertion sorts: element i goes down to the first place at or above low   *)
(* whose predecessor is not greater.                                         *)

Place(a, low, i) ==
    CHOOSE p \in low .. i : /\ \A j \in p .. i - 1 : a[i] < a[j]
                            /\ p > low => ~(a[i] < a[p - 1])

Inserted(a, p, i) ==
    [j \in DOMAIN a |-> IF j = p THEN a[i] ELSE IF j \in p + 1 .. i THEN a[j - 1] ELSE a[j]]

\* The unguarded sort goes down to any element, and must not pass its begin.
InsertionSort[a \in Array, b \in Nat, e \in Nat, guarded \in BOOLEAN] ==
    LET low == IF guarded THEN b ELSE 1
        f[i \in b .. e] ==
            IF i = b THEN [a |-> a, ok |-> TRUE]
            ELSE IF i = b + 1 THEN f[b]
            ELSE LET s == f[i - 1]
                     p == Place(s.a, low, i - 1)
                 IN [a |-> Inserted(s.a, p, i - 1), ok |-> s.ok /\ p >= b]
    IN f[e]

\* Gives up once too many places were passed; what was moved stays moved.
PartialInsertionSort[a \in Array, b \in Nat, e \in Nat] ==
    LET f[i \in b .. e] ==
            IF i = b THEN [a |-> a, moved |-> 0, sorted |-> TRUE]
            ELSE IF i = b + 1 THEN f[b]
            ELSE LET s == f[i - 1]
                     p == Place(s.a, b, i - 1) IN
                 IF ~s.sorted \/ s.moved > PartialLimit THEN [s EXCEPT !.sorted = FALSE]
                 ELSE [s EXCEPT !.a = Inserted(s.a, p, i - 1), !.moved = @ + (i - 1 - p)]
    IN f[e]

----------------------------------------------------------------------------
(* Partitions around the element at begin.  A scan that nothing stops inside *)
(* its range ends at end, or at begin - 1.                                   *)

Up(a, i, e, stop(_)) == Min({j \in i + 1 .. e - 1 : stop(a[j])} \cup {e})
Down(a, i, b, stop(_)) == Max({j \in b .. i - 1 : stop(a[j])} \cup {b - 1})

\* Swap and scan from both sides until the scans meet.
Meet(s, b, e, up(_), down(_)) ==
    LET f[k \in 0 .. e - b] ==
            IF k = 0 THEN s
            ELSE LET t == f[k - 1]
                     a == Swapped(t.a, t.first, t.last) IN
                 IF t.first < t.last
                 THEN [a |-> a, first |-> Up(a, t.first, e, up), last |-> Down(a, t.last, b, down)]
                 ELSE t
    IN f[e - b]

\* The first scans of partition_right: the one from the right is guarded only if
\* nothing smaller than the pivot was found from the left.
RightScans(a, b, e) ==
    LET ge(v) == ~(v < a[b])
        lt(v) == v < a[b]
        first == Up(a, b, e, ge)
    IN [a |-> a, first |-> first,
        last |-> IF first - 1 = b THEN Max({j \in first .. e - 1 : lt(a[j])} \cup {first})
                 ELSE Down(a, e, b, lt)]

\* The pivot goes between the parts.
Cut(a, b, p, already, ok) ==
    [a |-> IF ok THEN Swapped(a, b, p) ELSE a, pos |-> p, already |-> already, ok |-> ok]

PartitionRight[a \in Array, b \in Nat, e \in Nat] ==
    LET ge(v) == ~(v < a[b])
        lt(v) == v < a[b]
        s == RightScans(a, b, e)
        t == IF s.first < e /\ s.last >= b THEN Meet(s, b, e, ge, lt) ELSE s
    IN Cut(t.a, b, t.first - 1, s.first >= s.last, t.first < e /\ t.last >= b)

\* Elements that equal the pivot go to the left.
PartitionLeft[a \in Array, b \in Nat, e \in Nat] ==
    LET gt(v) == a[b] < v
        le(v) == ~(a[b] < v)
        last == Down(a, e, b, le)
        first == IF last + 1 = e THEN Min({j \in b + 1 .. last : gt(a[j])} \cup {last})
                 ELSE Up(a, b, e, gt)
        s == [a |-> a, first |-> first, last |-> last]
        t == IF last >= b /\ first < e THEN Meet(s, b, e, gt, le) ELSE s
    IN Cut(t.a, b, t.last, FALSE, last >= b /\ first < e /\ t.last >= b)

\* One block on each side is scanned for offsets of misplaced elements, which are
\* exchanged in pairs, by a cycle unless their numbers agree.
Misplaced(a, p, first, count) ==
    SelectSeq([i \in 1 .. count |-> i - 1], LAMBDA o : ~(a[first + o] < p))
MisplacedRight(a, p, last, count) ==
    SelectSeq([i \in 1 .. count |-> i], LAMBDA o : a[last - o] < p)

SwapOffsets(a, l, r, num, useSwaps) ==
    LET left(j) == CHOOSE i \in 1 .. num : l[i] = j
        right(j) == CHOOSE i \in 1 .. num : r[i] = j
        from(i) == IF useSwaps THEN l[i] ELSE l[IF i = num THEN 1 ELSE i + 1]
    IN [j \in DOMAIN a |->
           IF j \in {l[i] : i \in 1 .. num} THEN a[r[left(j)]]
           ELSE IF j \in {r[i] : i \in 1 .. num} THEN a[from(right(j))]
           ELSE a[j]]

BlockRound(s, p) ==
    LET unknown == s.last - s.first
        leftSplit == IF s.l # <<>> THEN 0 ELSE IF s.r = <<>> THEN unknown \div 2 ELSE unknown
        rightSplit == IF s.r = <<>> THEN unknown - leftSplit ELSE 0
        nl == Min({leftSplit, Block})
        nr == Min({rightSplit, Block})
        l == s.l \o Misplaced(s.a, p, s.first, nl)
        r == s.r \o MisplacedRight(s.a, p, s.last, nr)
        num == Min({Len(l), Len(r)})
        at == [i \in 1 .. Len(l) |-> s.lbase + l[i]]
        rt == [i \in 1 .. Len(r) |-> s.rbase - r[i]]
        l2 == SubSeq(l, num + 1, Len(l))
        r2 == SubSeq(r, num + 1, Len(r))
    IN [a |-> SwapOffsets(s.a, at, rt, num, Len(l) = Len(r)),
        first |-> s.first + nl, last |-> s.last - nr, l |-> l2, r |-> r2,
        lbase |-> IF l2 = <<>> THEN s.first + nl ELSE s.lbase,
        rbase |-> IF r2 = <<>> THEN s.last - nr ELSE s.rbase]

\* What is left over on one side goes to the border, the last offset first.
Leftovers(s) ==
    LET n == Len(s.l) + Len(s.r)
        f[k \in 0 .. n] ==
            IF k = 0 THEN s.a
            ELSE IF s.l # <<>> THEN Swapped(f[k - 1], s.lbase + s.l[n - k + 1], s.last - k)
            ELSE Swapped(f[k - 1], s.rbase - s.r[n - k + 1], s.first + k - 1)
    IN [a |-> f[n], first |-> s.first + Len(s.r) - Len(s.l)]

PartitionRightBranchless[a \in Array, b \in Nat, e \in Nat] ==
    LET s == RightScans(a, b, e)
        begin == [a |-> Swapped(a, s.first, s.last), first |-> s.first + 1, last |-> s.last,
                  l |-> <<>>, r |-> <<>>, lbase |-> s.first + 1, rbase |-> s.last]
        f[k \in 0 .. e - b] ==
            IF k = 0 THEN begin
            ELSE LET r == f[k - 1] IN IF r.first < r.last THEN BlockRound(r, a[b]) ELSE r
        t == Leftovers(f[e - b])
    IN IF s.first >= s.last \/ s.first >= e
       THEN Cut(a, b, s.first - 1, TRUE, s.first < e)
       ELSE Cut(t.a, b, t.first - 1, FALSE, s.last >= b)

----------------------------------------------------------------------------
(* parallel_pdqsort *)

\* The pivot is the median of three, or of three medians, and goes to begin.
WithPivot[a \in Array, b \in Nat, e \in Nat] ==
    LET s2 == (e - b) \div 2 IN
    IF e - b > ninther
    THEN Swapped(Sort3(Sort3(Sort3(Sort3(a, b, b + s2, e - 1),
                                   b + 1, b + s2 - 1, e - 2),
                             b + 2, b + s2 + 1, e - 3),
                       b + s2 - 1, b + s2, b + s2 + 1), b, b + s2)
    ELSE Sort3(a, b + s2, b, e - 1)

\* The exchanges that break patterns in parts of an unbalanced partition.
ShuffledLeft[a \in Array, b \in Nat, p \in Nat] ==
    LET l == p - b
        q == l \div 4
        once == Swapped(Swapped(a, b, b + q), p - 1, p - q) IN
    IF l < Insertion THEN a
    ELSE IF l <= ninther THEN once
    ELSE Swapped(Swapped(Swapped(Swapped(once, b + 1, b + q + 1), b + 2, b + q + 2),
                         p - 2, p - q - 1), p - 3, p - q - 2)

ShuffledRight[a \in Array, p \in Nat, e \in Nat] ==
    LET r == e - (p + 1)
        q == r \div 4
        once == Swapped(Swapped(a, p + 1, p + 1 + q), e - 1, e - q) IN
    IF r < Insertion THEN a
    ELSE IF r <= ninther THEN once
    ELSE Swapped(Swapped(Swapped(Swapped(once, p + 2, p + 2 + q), p + 3, p + 3 + q),
                         e - 2, e - 1 - q), e - 3, e - 2 - q)

Small(j) ==
    /\ j.end - j.begin <= Cutoff
    /\ IF j.end - j.begin < Insertion
       THEN LET s == InsertionSort[array, j.begin, j.end, j.leftmost]
            IN array' = s.a /\ strayed' = (strayed \/ ~s.ok)
       ELSE array' = Sorted[array, j.begin, j.end] /\ UNCHANGED strayed
    /\ jobs' = jobs \ {j}

\* The element before the range is the pivot of an earlier partition.
EqualsPivotBefore(a, j) == ~j.leftmost /\ ~(a[j.begin - 1] < a[j.begin])

SkipEqual(j) ==
    /\ j.end - j.begin > Cutoff
    /\ \E a \in {WithPivot[array, j.begin, j.end]} :
          /\ EqualsPivotBefore(a, j)
          /\ \E c \in {PartitionLeft[a, j.begin, j.end]} :
                /\ array' = c.a
                /\ strayed' = (strayed \/ ~c.ok)
                /\ jobs' = (jobs \ {j}) \cup {[j EXCEPT !.begin = c.pos + 1]}

\* The left part becomes a task of its own, the right part is gone on with.
Divided(j, pos, bad) ==
    jobs' = (jobs \ {j}) \cup {[j EXCEPT !.end = pos, !.bad = bad],
                               [j EXCEPT !.begin = pos + 1, !.leftmost = FALSE, !.bad = bad]}

PartitionAt(a, b, e) == IF branchless THEN PartitionRightBranchless[a, b, e] ELSE PartitionRight[a, b, e]

Unbalanced(j, pos) ==
    LET eighth == (j.end - j.begin) \div 8
    IN pos - j.begin < eighth \/ j.end - (pos + 1) < eighth

\* After a partition: the task falls back to a heap sort, breaks patterns, or finds
\* both parts sorted; else the parts are sorted by two tasks.
Continue(j, c) ==
    \/ /\ Unbalanced(j, c.pos) /\ j.bad = 1
       /\ array' = Sorted[c.a, j.begin, j.end]
       /\ jobs' = jobs \ {j}
    \/ /\ Unbalanced(j, c.pos) /\ j.bad # 1
       /\ array' = ShuffledRight[ShuffledLeft[c.a, j.begin, c.pos], c.pos, j.end]
       /\ Divided(j, c.pos, j.bad - 1)
    \/ /\ ~Unbalanced(j, c.pos) /\ c.already
       /\ \E left \in {PartialInsertionSort[c.a, j.begin, c.pos]} :
          \E right \in {PartialInsertionSort[left.a, c.pos + 1, j.end]} :
             /\ array' = IF left.sorted THEN right.a ELSE left.a
             /\ IF left.sorted /\ right.sorted THEN jobs' = jobs \ {j} ELSE Divided(j, c.pos, j.bad)
    \/ /\ ~Unbalanced(j, c.pos) /\ ~c.already
       /\ array' = c.a
       /\ Divided(j, c.pos, j.bad)

Partition(j) ==
    /\ j.end - j.begin > Cutoff
    /\ \E a \in {WithPivot[array, j.begin, j.end]} :
          /\ ~EqualsPivotBefore(a, j)
          /\ \E c \in {PartitionAt(a, j.begin, j.end)} :
                /\ strayed' = (strayed \/ ~c.ok)
                /\ Continue(j, c)

Round == \E j \in jobs : Small(j) \/ SkipEqual(j) \/ Partition(j)

Done == jobs = {} /\ UNCHANGED sortVars

Next == (Round /\ UNCHANGED <<input, ninther, branchless>>) \/ Done

Spec == Init /\ [][Next]_sortVars

----------------------------------------------------------------------------
(* Properties *)

Within(j) == j.begin .. j.end - 1

\* No scan leaves its range, tasks have disjoint ranges with every smaller element
\* before and every greater one after them, and a range that is not the leftmost has
\* a final element before it, which nobody writes: tasks may run in any order, and
\* when the last one has finished the array is the given one, sorted.
SortExact ==
    /\ ~strayed
    /\ \A j \in jobs :
          /\ \A k \in jobs \ {j} : Within(j) \cap Within(k) = {}
          /\ \A i \in Within(j) : /\ \A h \in 1 .. j.begin - 1 : array[h] <= array[i]
                                  /\ \A h \in j.end .. Len(array) : array[i] <= array[h]
          /\ ~j.leftmost => \A k \in jobs : j.begin - 1 \notin Within(k)
    /\ jobs = {} => array = Sorted[input, 1, Len(input) + 1]
=============================================================================
