----------------------------- MODULE CudaKernels -----------------------------
(***************************************************************************)
(* The algorithms that run on a GPU (cuda/algorithm): reduce, scan, merge, *)
(* sort, find.  An array is cut into tiles of nv elements, one per block   *)
(* of nt threads; each thread has vt of them in registers.  The threads of *)
(* a block meet at barriers; between two of them they run one after the    *)
(* other here, upward or downward, so that one that reads what another     *)
(* writes shows.  A step is a kernel: kernels of a stream run in order.    *)
(*                                                                         *)
(* Values that are combined are sets of elements, so that one which is     *)
(* lost or counted twice shows; the operator is taken to be commutative,   *)
(* as the strided loads require.                                           *)
(***************************************************************************)
EXTENDS Integers, Sequences, FiniteSets, SequencesExt

CONSTANTS
    nt, vt,         \* cudaExecutionPolicy: threads per block, elements per thread
    Warp,           \* CUDA_WARP_SIZE
    Threshold,      \* cudaScanRecursionThreshold
    Word,           \* the numbers an unsigned has
    Calls           \* what may be asked: see Call

KernelAssumption ==
    /\ nt \in {2 ^ k : k \in 1 .. 10} /\ Warp \in {2 ^ k : k \in 0 .. 5}
    /\ vt \in Nat \ {0} /\ Word > 2 * nt * vt

VARIABLES
    call,       \* the kind, the keys, how many of them belong to a, the order of threads
    pc,
    arrays,     \* the array, and what each level has put into the buffer
    vals,       \* the values that belong to the keys
    mp,         \* the partition's points on the merge path
    pass,
    result

kernelVars == <<call, pc, arrays, vals, mp, pass, result>>

nv == nt * vt
NumBlocks(n) == (n + nv - 1) \div nv
Least(x, y) == IF x < y THEN x ELSE y
Minus(x, y) == (x - y) % Word
Log2(n) == CHOOSE k \in 0 .. n : 2 ^ k <= n /\ n < 2 ^ (k + 1)
Size(array) == Cardinality(DOMAIN array)
Tid == 0 .. nt - 1
Reg == 0 .. vt - 1

\* Memory and registers that nobody has written, and what comes of using them.
Garbage == {-1}
ValueOp(x, y) == IF x \cap y # {} \/ Garbage \subseteq x \cup y THEN Garbage ELSE x \cup y
\* cuda_min_element_loop: the pair of a key and its index
PairOp(x, y) == IF x[1] < y[1] THEN x ELSE y
Combine(x, y) == IF call.kind = "min" THEN PairOp(x, y) ELSE ValueOp(x, y)
CombineAll(x, seq) == FoldLeft(Combine, x, seq)

\* A loop: Do(s, k) for k from 0 to n - 1.
Loop(s, n, Do(_, _)) ==
    LET After[k \in 0 .. n] == IF k = 0 THEN s ELSE Do(After[k - 1], k - 1) IN After[n]

\* The threads of a block between two barriers.
Each(s, Do(_, _)) ==
    Loop(s, nt, LAMBDA r, k : Do(r, IF call.order = "up" THEN k ELSE nt - 1 - k))

\* cuda_get_tile
Tile(b, n) == [begin |-> nv * b, count |-> Least(n, nv * (b + 1)) - nv * b]
TileOf(array, b) ==
    LET tile == Tile(b, Size(array)) IN [j \in 0 .. tile.count - 1 |-> array[tile.begin + j]]
Load(tile, j) == IF j \in DOMAIN tile THEN tile[j] ELSE Garbage

\* cuda_mem_to_reg_strided, and on to the registers of neighbouring elements
Strided(tile) == [t \in Tid |-> [i \in Reg |-> Load(tile, nt * i + t)]]
Neighbours(tile) ==
    LET x == Strided(tile)
        shared == [j \in 0 .. nv - 1 |-> x[j % nt][j \div nt]]
    IN  [t \in Tid |-> [i \in Reg |-> shared[vt * t + i]]]

\* cuda_reg_to_mem_thread: through shared memory to strided stores
Stored(x, count) ==
    LET shared == [j \in 0 .. nv - 1 |-> x[j \div vt][j % vt]]
        y == [t \in Tid |-> [i \in Reg |-> shared[nt * i + t]]]
    IN  [j \in 0 .. count - 1 |-> y[j % nt][j \div nt]]

\* The tiles side by side.
Joined(tiles, n) == [j \in 0 .. n - 1 |-> tiles[j \div nv][j % nv]]

\* Nothing is done for an empty array, and nothing to sort one element.
Init ==
    /\ call \in Calls
    /\ LET n == Size(call.keys)
       IN  /\ pc = IF n = 0 \/ (call.kind = "sort" /\ n = 1) THEN "done" ELSE "run"
           /\ arrays = <<[j \in 0 .. n - 1 |->
                  CASE call.kind = "min" -> <<call.keys[j], j>>
                    [] call.kind \in {"find", "merge", "sort"} -> call.keys[j]
                    [] OTHER -> {j}]>>
           /\ vals = [j \in 0 .. n - 1 |-> j]
           /\ result = CASE call.kind = "reduce" -> {n}
                         [] call.kind = "uninitialized" -> {}
                         [] OTHER -> 0
    /\ mp = <<>>
    /\ pass = 0

-----------------------------------------------------------------------------
(* Reduction (cuda/algorithm/reduce.h)                                       *)

Group == Least(nt, Warp)
Passes == Log2(Group)

\* A faulty Half, without a second half of the storage.
OneHalf(first) == first

Half(first) == Group - first

\* cudaBlockReduce: the first warp takes the values of the others, and then
\* halves what is left, from one half of the storage to the other.
BlockReduce(x, count) ==
    LET Put(first, s, t) == [s EXCEPT !.mem[first + t] = s.x[t]]
        Gather(s, t) ==
            IF t >= Group THEN s
            ELSE LET y == CombineAll(s.x[t],
                              [i \in 1 .. Cardinality({j \in Group .. nt - 1 :
                                                   j % Group = t /\ j < count}) |->
                                  s.mem[Group * i + t]])
                 IN  [s EXCEPT !.x[t] = y, !.mem[t] = y]
        Copy(first, s, t) == IF t < Group THEN Put(first, s, t) ELSE s
        Halve(first, offset, s, t) ==
            IF t >= Group THEN s
            ELSE LET y == IF t + offset < Least(count, Group)
                          THEN Combine(s.x[t], s.mem[first + offset + t]) ELSE s.x[t]
                 IN  [s EXCEPT !.x[t] = y, !.mem[Half(first) + t] = y]
        Pass(s, p) ==
            [Each(s, LAMBDA r, t : Halve(s.first, 2 ^ p, r, t)) EXCEPT !.first = Half(@)]
        first == IF Passes % 2 = 1 THEN Group ELSE 0
        blank == [x |-> x, first |-> first,
                  mem |-> [j \in 0 .. nt + Group - 1 |-> Garbage]]
        filled == Each(blank, LAMBDA s, t : Put(0, s, t))
        gathered == Each(filled, Gather)
        copied == Each(gathered, LAMBDA s, t : Copy(first, s, t))
    IN  Loop(copied, Passes, Pass).mem[0]

\* The reduction of a thread's own elements.
Own(tile) ==
    LET x == Strided(tile)
        count == Size(tile)
    IN  [t \in Tid |->
           IF t >= count THEN Garbage
           ELSE CombineAll(x[t][0], [i \in 1 .. (count - t - 1) \div nt |-> x[t][i]])]

TileReduced(tile, count) == BlockReduce(Own(tile), count)

\* cuda_reduce_kernel and cuda_uninitialized_reduce_kernel, and the recursion
Top == arrays[Len(arrays)]
Reduce ==
    /\ pc = "run" /\ call.kind \in {"reduce", "uninitialized", "min"}
    /\ LET n == Size(Top)
           sums == [b \in 0 .. NumBlocks(n) - 1 |->
                      TileReduced(TileOf(Top, b), Least(Size(TileOf(Top, b)), nt))]
       IN  IF n <= nv
           THEN /\ result' = CASE call.kind = "reduce" -> Combine(result, sums[0])
                              [] call.kind = "min" -> sums[0][2]
                              [] OTHER -> sums[0]
                /\ pc' = "done"
                /\ UNCHANGED arrays
           ELSE arrays' = Append(arrays, sums) /\ UNCHANGED <<result, pc>>
    /\ UNCHANGED <<call, vals, mp, pass>>

-----------------------------------------------------------------------------
(* Prefix sums (cuda/algorithm/scan.h)                                       *)

\* cudaBlockScan of one value per thread
BlockScan(x, count) ==
    LET Shift(first, offset, s, t) ==
            LET y == IF t >= offset THEN Combine(s.mem[first + t - offset], s.x[t]) ELSE s.x[t]
            IN  [s EXCEPT !.x[t] = y, !.mem[nt - first + t] = y]
        Pass(s, p) ==
            [Each(s, LAMBDA r, t : Shift(s.first, 2 ^ p, r, t)) EXCEPT !.first = nt - @]
        start == [x |-> x, first |-> 0,
                  mem |-> [j \in 0 .. 2 * nt - 1 |-> IF j < nt THEN x[j] ELSE Garbage]]
        end == Loop(start, Log2(nt), Pass)
        total == end.mem[end.first + count - 1]
    IN  [reduction |-> total,
         scan |-> [t \in Tid |-> CASE t >= count -> total
                                   [] t = 0 -> {}
                                   [] OTHER -> end.mem[end.first + t - 1]]]

\* cudaBlockScan of vt values per thread.  A thread's sums are combined with
\* those before the thread, and with what is carried into the block.
BlockScanAll(x0, carry, carried, count, type) ==
    LET Sum(t, y, i) ==
            IF i = 0 THEN IF vt * t < count THEN x0[t][0] ELSE {}
            ELSE IF vt * t + i < count THEN Combine(x0[t][i], y[i]) ELSE y[i]
        x == [t \in Tid |-> Loop(<<>>, vt, LAMBDA y, i : Append(y, Sum(t, y, i)))]
        r == BlockScan([t \in Tid |-> x[t][vt]], (count + vt - 1) \div vt)
        before == [t \in Tid |-> CASE ~carried -> r.scan[t]
                                   [] t = 0 -> carry
                                   [] OTHER -> Combine(carry, r.scan[t])]
        With(t, v) == IF carried \/ t > 0 THEN Combine(before[t], v) ELSE v
    IN  [reduction |-> IF carried THEN Combine(carry, r.reduction) ELSE r.reduction,
         scan |-> [t \in Tid |-> [i \in Reg |->
                     LET last == IF type = "inclusive" THEN i + 1 ELSE i
                     IN  IF last = 0 THEN before[t] ELSE With(t, x[t][last])]]]

ScanType == IF Len(arrays) = 1 THEN call.kind ELSE "exclusive"

\* The first kernel of cuda_scan_loop: the sums of the tiles, one level up
Upsweep ==
    /\ pc = "run" /\ call.kind \in {"inclusive", "exclusive"}
    /\ NumBlocks(Size(Top)) > Threshold
    /\ arrays' = Append(arrays, [b \in 0 .. NumBlocks(Size(Top)) - 1 |->
                     TileReduced(TileOf(Top, b), Size(TileOf(Top, b)))])
    /\ UNCHANGED <<call, pc, vals, mp, pass, result>>

\* cuda_single_pass_scan: one block takes the tiles one after the other
SinglePass ==
    /\ pc = "run" /\ call.kind \in {"inclusive", "exclusive"}
    /\ NumBlocks(Size(Top)) <= Threshold
    /\ LET count(b) == Size(TileOf(Top, b))
           block[b \in 0 .. NumBlocks(Size(Top)) - 1] ==
               BlockScanAll(Neighbours(TileOf(Top, b)),
                            IF b = 0 THEN {} ELSE block[b - 1].reduction,
                            b > 0, count(b), ScanType)
           tiles == [b \in DOMAIN block |-> Stored(block[b].scan, count(b))]
       IN  arrays' = [arrays EXCEPT ![Len(arrays)] = Joined(tiles, Size(Top))]
    /\ pc' = IF Len(arrays) = 1 THEN "done" ELSE "down"
    /\ UNCHANGED <<call, vals, mp, pass, result>>

\* The second kernel: each tile with the sum before it
Downsweep ==
    /\ pc = "down"
    /\ LET below == arrays[Len(arrays) - 1]
           type == IF Len(arrays) = 2 THEN call.kind ELSE "exclusive"
           tiles == [b \in 0 .. NumBlocks(Size(below)) - 1 |->
                       LET tile == TileOf(below, b)
                       IN  Stored(BlockScanAll(Neighbours(tile), Top[b], b > 0, Size(tile),
                                               type).scan, Size(tile))]
       IN  arrays' = Append(SubSeq(arrays, 1, Len(arrays) - 2), Joined(tiles, Size(below)))
    /\ pc' = IF Len(arrays) = 2 THEN "done" ELSE "down"
    /\ UNCHANGED <<call, vals, mp, pass, result>>

-----------------------------------------------------------------------------
(* Merge and sort (cuda/algorithm/merge.h, sort.h)                           *)

\* cuda_merge_path: how many of the first diag elements come from a
MergePath(keys, range, diag) ==
    LET aCount == Minus(range.aEnd, range.aBegin)
        bCount == Minus(range.bEnd, range.bBegin)
        search[beg \in Nat, end \in Nat] ==
            IF beg >= end THEN beg
            ELSE LET mid == (beg + end) \div 2
                 IN  IF keys[range.bBegin + diag - 1 - mid] < keys[range.aBegin + mid]
                     THEN search[beg, mid] ELSE search[mid + 1, end]
    IN  search[IF diag > bCount THEN Minus(diag, bCount) ELSE 0, Least(diag, aCount)]

\* cudaMergeRange::partition
From(range, m, diag) ==
    [range EXCEPT !.aBegin = @ + m, !.bBegin = Minus(@ + diag, m)]

\* cuda_merge_predicate
TakesA(r, a, b) == r.aBegin < r.aEnd /\ (r.bBegin < r.bEnd => ~(b < a))

\* cuda_serial_merge: the keys of a thread and where each came from
SerialMerge(shared, range) ==
    LET Take(s, i) ==
            LET p == TakesA(s, s.a, s.b)
                index == IF p THEN s.aBegin ELSE s.bBegin
                t == [s EXCEPT !.keys = Append(@, IF p THEN s.a ELSE s.b),
                               !.indices = Append(@, index)]
            IN  IF p THEN [t EXCEPT !.a = shared[index + 1], !.aBegin = index + 1]
                ELSE [t EXCEPT !.b = shared[index + 1], !.bBegin = index + 1]
    IN  Loop([aBegin |-> range.aBegin, aEnd |-> range.aEnd,
              bBegin |-> range.bBegin, bEnd |-> range.bEnd,
              a |-> shared[range.aBegin], b |-> shared[range.bBegin],
              keys |-> <<>>, indices |-> <<>>], vt, Take)

\* block_merge_from_mem, and the values that are fetched by the indices
BlockMerge(keys, values, range) ==
    LET aCount == range.aEnd - range.aBegin
        total == aCount + range.bEnd - range.bBegin
        At(i) == IF i < aCount THEN range.aBegin + i ELSE range.bBegin + i - aCount
        shared == [j \in 0 .. nv |-> IF j < total THEN keys[At(j)] ELSE Garbage]
        local == [aBegin |-> 0, aEnd |-> aCount, bBegin |-> aCount, bEnd |-> total]
        merged == [t \in Tid |->
                     SerialMerge(shared, From(local, MergePath(shared, local, vt * t), vt * t))]
        indices == Stored([t \in Tid |-> [i \in Reg |-> merged[t].indices[i + 1]]], total)
    IN  [keys |-> Stored([t \in Tid |-> [i \in Reg |-> merged[t].keys[i + 1]]], total),
         vals |-> [j \in 0 .. total - 1 |-> values[At(indices[j])]]]

\* cuda_merge_path_partitions and cuda_merge_loop
MergeCall ==
    /\ pc = "run" /\ call.kind = "merge"
    /\ LET n == Size(Top)
           whole == [aBegin |-> 0, aEnd |-> call.a, bBegin |-> call.a, bEnd |-> n]
           path == [k \in 0 .. NumBlocks(n) |-> MergePath(Top, whole, Least(nv * k, n))]
           PartOf(b) == LET diag0 == nv * b
                           diag1 == Least(n, diag0 + nv)
                       IN  [aBegin |-> path[b], aEnd |-> path[b + 1],
                            bBegin |-> call.a + diag0 - path[b],
                            bEnd |-> call.a + diag1 - path[b + 1]]
           tiles == [b \in 0 .. NumBlocks(n) - 1 |-> BlockMerge(Top, vals, PartOf(b))]
       IN  /\ mp' = path
           /\ arrays' = <<Joined([b \in DOMAIN tiles |-> tiles[b].keys], n)>>
           /\ vals' = Joined([b \in DOMAIN tiles |-> tiles[b].vals], n)
    /\ pc' = "done"
    /\ UNCHANGED <<call, pass, result>>

\* cuda_compute_merge_sort_frame and cuda_compute_merge_sort_range: coop
\* neighbours merge the two halves of what is theirs
Frame(n, partition, coop, spacing) ==
    LET begin == spacing * (partition - (partition % coop))
        half == spacing * (coop \div 2)
    IN  [aBegin |-> begin, aEnd |-> Least(n, begin + half),
         bBegin |-> Least(n, begin + half), bEnd |-> Least(n, begin + 2 * half)]

SortRange(n, partition, coop, spacing, mp0, mp1) ==
    LET f == Frame(n, partition, coop, spacing)
        diag == spacing * partition - f.aBegin
        last == partition % coop = coop - 1
    IN  [aBegin |-> f.aBegin + mp0,
         aEnd |-> IF last THEN f.aEnd ELSE f.aBegin + mp1,
         bBegin |-> Least(n, Minus(f.bBegin + diag, mp0)),
         bEnd |-> IF last THEN f.bEnd ELSE Least(n, Minus(f.bBegin + diag + spacing, mp1))]

Swapped(x, i, j) == [x EXCEPT ![i] = x[j], ![j] = x[i]]

\* cuda_odd_even_sort of a thread's elements, those out of range excepted
OddEvenSort(x, inRange) ==
    LET Exchange(y, i) ==
            IF i + 1 < inRange /\ y.keys[i + 1] < y.keys[i]
            THEN [keys |-> Swapped(y.keys, i, i + 1), vals |-> Swapped(y.vals, i, i + 1)] ELSE y
        Round(y, k) == Loop(y, vt - 1, LAMBDA z, i : IF i % 2 = k % 2 THEN Exchange(z, i) ELSE z)
    IN  Loop(x, vt, Round)

\* cudaBlockSort::merge_pass
MergePass(count, x, p) ==
    LET shared == [j \in 0 .. nv |-> IF j < nv THEN x[j \div vt].keys[j % vt] ELSE Garbage]
        values == [j \in 0 .. nv - 1 |-> x[j \div vt].vals[j % vt]]
        Thread(t) ==
            LET range == Frame(count, t, 2 * 2 ^ p, vt)
                diag == vt * t - range.aBegin
                m == SerialMerge(shared, From(range, MergePath(shared, range, diag), diag))
            IN  [keys |-> [i \in Reg |-> m.keys[i + 1]],
                 vals |-> [i \in Reg |-> values[m.indices[i + 1]]]]
    IN  Each(x, LAMBDA y, t : [y EXCEPT ![t] = Thread(t)])

\* cudaBlockSort::block_sort, out_of_range_flags
BlockSort(keys, values) ==
    LET count == Size(keys)
        k == Neighbours(keys)
        v == Neighbours(values)
        x == Each([t \in Tid |-> [keys |-> k[t], vals |-> v[t]]],
                  LAMBDA y, t : [y EXCEPT ![t] = OddEvenSort(@, count - vt * t)])
        y == Loop(x, Log2(nt), LAMBDA z, p : MergePass(count, z, p))
    IN  [keys |-> Stored([t \in Tid |-> y[t].keys], count),
         vals |-> Stored([t \in Tid |-> y[t].vals], count)]

\* R, the passes of merge_sort_loop over the blocks
Rounds(n) == LET B == NumBlocks(n) IN Log2(B) + (IF 2 ^ Log2(B) = B THEN 0 ELSE 1)

\* The first kernel of merge_sort_loop
SortBlocks ==
    /\ pc = "run" /\ call.kind = "sort"
    /\ LET n == Size(Top)
           tiles == [b \in 0 .. NumBlocks(n) - 1 |-> BlockSort(TileOf(Top, b), TileOf(vals, b))]
       IN  /\ arrays' = <<Joined([b \in DOMAIN tiles |-> tiles[b].keys], n)>>
           /\ vals' = Joined([b \in DOMAIN tiles |-> tiles[b].vals], n)
           /\ pc' = IF Rounds(n) = 0 THEN "done" ELSE "partition"
    /\ UNCHANGED <<call, mp, pass, result>>

\* cuda_merge_sort_partitions.  The frame of the last partition may begin behind
\* the array, and then numbers wrap, but no block uses that point.
Partitions ==
    /\ pc = "partition"
    /\ LET n == Size(Top)
       IN  mp' = [k \in 0 .. NumBlocks(n) |->
                    LET range == Frame(n, k, 2 * 2 ^ pass, nv)
                    IN  MergePath(Top, range, Minus(Least(nv * k, n), range.aBegin))]
    /\ pc' = "merge"
    /\ UNCHANGED <<call, arrays, vals, pass, result>>

MergeBlocks ==
    /\ pc = "merge"
    /\ LET n == Size(Top)
           tiles == [b \in 0 .. NumBlocks(n) - 1 |->
                       BlockMerge(Top, vals, SortRange(n, b, 2 * 2 ^ pass, nv, mp[b], mp[b + 1]))]
       IN  /\ arrays' = <<Joined([b \in DOMAIN tiles |-> tiles[b].keys], n)>>
           /\ vals' = Joined([b \in DOMAIN tiles |-> tiles[b].vals], n)
           /\ pass' = pass + 1
           /\ pc' = IF pass + 1 = Rounds(n) THEN "done" ELSE "partition"
    /\ UNCHANGED <<call, mp, result>>

-----------------------------------------------------------------------------
\* cuda_find_if_loop: each thread has the first of its own elements, and the
\* least index goes through the block's shared one into *idx.
Find ==
    /\ pc = "run" /\ call.kind = "find"
    /\ LET n == Size(Top)
           MyFirst(tile, b, t) ==
               LET hits == {i \in Reg : nt * i + t < Size(tile) /\ tile[nt * i + t] = 0}
               IN  IF hits = {} THEN n
                   ELSE nv * b + t + nt * (CHOOSE i \in hits : \A h \in hits : i <= h)
           OfBlock(idx, b) ==
               LET tile == TileOf(Top, b)
               IN  Least(idx, Each(n, LAMBDA id, t : Least(id, MyFirst(tile, b, t))))
       IN  result' = Loop(n, NumBlocks(n), OfBlock)
    /\ pc' = "done"
    /\ UNCHANGED <<call, arrays, vals, mp, pass>>

Next ==
    \/ Reduce \/ Upsweep \/ SinglePass \/ Downsweep \/ MergeCall
    \/ SortBlocks \/ Partitions \/ MergeBlocks \/ Find

Spec == Init /\ [][Next]_kernelVars

-----------------------------------------------------------------------------
(* Properties                                                                *)

\* cudaExecutionPolicy::reduce_bufsz, scan_bufsz, merge_bufsz and the points of
\* cuda_sort_buffer_size, in elements
LevelSizes[B \in Nat, least \in Nat] ==
    IF B > least THEN B + LevelSizes[NumBlocks(B), least] ELSE 0
BufferSize ==
    CASE call.kind \in {"reduce", "uninitialized", "min"} -> LevelSizes[NumBlocks(Size(call.keys)), 1]
      [] call.kind \in {"inclusive", "exclusive"} -> LevelSizes[NumBlocks(Size(call.keys)), Threshold]
      [] call.kind = "merge" -> NumBlocks(Size(call.keys) + nv) + 1
      [] call.kind = "sort"  -> NumBlocks(Size(call.keys)) + 1
      [] OTHER -> 0
Buffered == FoldLeft(LAMBDA s, k : s + Size(arrays[k + 1]), 0, [k \in 1 .. Len(arrays) - 1 |-> k])
            + Size(mp)

\* What is promised of the result.  Operators commute, and a sum stands for what was
\* combined into it, once each, in any order.  min has an element of least key, and
\* which one of several is left open: cuda_min_element_loop takes the second of two
\* equal ones and combines in the order of strided loads, while the loop documented
\* for cuda_min_element has the first.  find has the first, merge and sort are stable.
Answer ==
    LET n == Size(call.keys)
        Place(i) == Cardinality({j \in 0 .. n - 1 :
                        call.keys[j] < call.keys[i] \/ (call.keys[j] = call.keys[i] /\ j < i)})
    IN  CASE call.kind = "reduce" -> result = 0 .. n
          [] call.kind = "uninitialized" -> n = 0 \/ result = 0 .. n - 1
          [] call.kind = "min"  -> n = 0 \/ \A j \in 0 .. n - 1 : call.keys[result] <= call.keys[j]
          [] call.kind = "find" -> /\ \A j \in 0 .. n - 1 : call.keys[j] = 0 => result <= j
                                   /\ result = n \/ (result < n /\ call.keys[result] = 0)
          [] call.kind = "inclusive" -> \A j \in 0 .. n - 1 : Top[j] = 0 .. j
          [] call.kind = "exclusive" -> \A j \in 0 .. n - 1 : Top[j] = 0 .. j - 1
          [] OTHER -> \A i \in 0 .. n - 1 : vals[Place(i)] = i

\* Whatever the size of an array, and in whatever order the threads of a block
\* run between barriers, every element is combined once and none that nobody
\* wrote, merge and sort are stable and take the values along with the keys, and
\* the buffer has room for every level and for the points of the merge path.
KernelsExact ==
    /\ pc = "done" => Answer
    /\ Buffered <= BufferSize
    /\ call.kind \in {"merge", "sort"} => \A j \in DOMAIN vals : Top[j] = call.keys[vals[j]]
=============================================================================
