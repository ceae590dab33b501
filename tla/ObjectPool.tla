----------------------------- MODULE ObjectPool -----------------------------
(***************************************************************************)
(* ObjectPool (utility/object_pool.h): blocks of M objects belong to the   *)
(* heap of a thread or to the global heap.  A thread takes objects from    *)
(* its own heap, gives them back to whichever heap their block is in, and  *)
(* a heap that has become too empty hands a block over to the global one.  *)
(* A block refers to its heap by a word that is read without a lock, so a  *)
(* recycling thread locks what it read and looks again.                    *)
(*                                                                         *)
(* A step is a critical section up to the next lock, or the read of that   *)
(* word.  Locks are taken in the order local, global.                      *)
(***************************************************************************)
EXTENDS Integers, Sequences, FiniteSets, SequencesExt

CONSTANTS
    Thread,
    Heap,           \* the local heaps
    HeapOf,         \* _this_heap(): by the hash of the thread's id
    Block,          \* blocks that may be allocated
    M,              \* objects per block
    F,              \* bins of blocks that are not full
    K,              \* blocks that a heap may have in excess
    None            \* no heap: the global one; no block; no object

PoolAssumption ==
    /\ HeapOf \in [Thread -> Heap]
    /\ M \in Nat \ {0} /\ F \in Nat \ {0} /\ K \in Nat /\ K >= F
    /\ None \notin Heap \cup Block

Object == Block \X (0 .. M - 1)

VARIABLES
    heap,       \* block: the heap it belongs to, None: the global one
    used,       \* block: u, objects taken
    first,      \* block: i, objects that were never taken begin here
    free,       \* block: the stack that begins at top; its order does not matter
    lists,      \* heap, bin: the blocks, first to last
    glist,      \* the blocks of the global heap
    total,      \* heap: u and a
    mutex,      \* heap: the thread that holds its lock
    pc, mem, seen, moving,      \* of a thread: its step and locals
    held        \* the objects that the program has

poolVars == <<heap, used, first, free, lists, glist, total, mutex, pc, mem, seen, moving, held>>

W == (M + F - 1) \div F
Bin(u) == IF u = M THEN F ELSE u \div W
Bins == 0 .. F
Fresh(b) == first[b] = 0 /\ b \notin ToSet(glist) /\ \A h \in Heap, i \in Bins : b \notin ToSet(lists[h][i])

Init ==
    /\ heap = [b \in Block |-> None]
    /\ used = [b \in Block |-> 0]
    /\ first = [b \in Block |-> 0]
    /\ free = [b \in Block |-> {}]
    /\ lists = [h \in Heap |-> [i \in Bins |-> <<>>]]
    /\ glist = <<>>
    /\ total = [h \in Heap |-> [u |-> 0, a |-> 0]]
    /\ mutex = [h \in Heap |-> None]
    /\ pc = [t \in Thread |-> "idle"]
    /\ mem = [t \in Thread |-> None]
    /\ seen = [t \in Thread |-> None]
    /\ moving = [t \in Thread |-> None]
    /\ held = {}

\* _blocklist_move_front within one heap
Filed(ls, b, bin) == [i \in Bins |-> IF i = bin THEN <<b>> \o SelectSeq(ls[i], LAMBDA c : c # b)
                                     ELSE SelectSeq(ls[i], LAMBDA c : c # b)]
\* The list that a block stays in when its bin does not change.
Refiled(ls, b, old, new) == IF old = new THEN ls ELSE Filed(ls, b, new)

(***************************************************************************)
(* animate                                                                 *)
(***************************************************************************)
\* The fullest bin with room comes first.
NonFull(h) == {i \in 0 .. F - 1 : lists[h][i] # <<>>}
Fullest(h) == CHOOSE i \in NonFull(h) : \A j \in NonFull(h) : j <= i

\* _allocate: the object on top, or one that was never taken.
Spot(b) == IF free[b] = {} THEN first[b] ELSE CHOOSE j \in free[b] : TRUE

\* The end of animate, where block b of bin `old' gives an object.
Take(t, b, h, ls, old, tot, usedNow) ==
    LET k == Spot(b)
    IN  /\ held' = held \cup {<<b, k>>}
        /\ first' = [first EXCEPT ![b] = IF free[b] = {} THEN @ + 1 ELSE @]
        /\ free' = [free EXCEPT ![b] = @ \ {k}]
        /\ used' = [used EXCEPT ![b] = usedNow + 1]
        /\ lists' = [lists EXCEPT ![h] = Refiled(ls, b, old, Bin(usedNow + 1))]
        /\ total' = [total EXCEPT ![h] = [u |-> tot.u + 1, a |-> tot.a]]

AnimateLocal(t) ==
    LET h == HeapOf[t]
        b == lists[h][Fullest(h)][1]
    IN  /\ pc[t] = "idle" /\ mutex[h] = None /\ NonFull(h) # {}
        /\ Take(t, b, h, lists[h], Fullest(h), total[h], used[b])
        /\ UNCHANGED <<heap, glist, mutex, pc, mem, seen, moving>>

AnimateLock(t) ==
    LET h == HeapOf[t]
    IN  /\ pc[t] = "idle" /\ mutex[h] = None /\ NonFull(h) = {}
        /\ mutex' = [mutex EXCEPT ![h] = t]
        /\ pc' = [pc EXCEPT ![t] = "global"]
        /\ UNCHANGED <<heap, used, first, free, lists, glist, total, mem, seen, moving, held>>

\* Under the global lock: the first block moves to the heap, and is filed for
\* one object more.
AnimateGlobal(t) ==
    LET h == HeapOf[t]
        b == Head(glist)
    IN  /\ pc[t] = "global" /\ glist # <<>>
        /\ glist' = Tail(glist)
        /\ heap' = [heap EXCEPT ![b] = h]
        /\ lists' = [lists EXCEPT ![h] = Filed(@, b, Bin(used[b] + 1))]
        /\ moving' = [moving EXCEPT ![t] = b]
        /\ pc' = [pc EXCEPT ![t] = "take"]
        /\ UNCHANGED <<used, first, free, total, mutex, mem, seen, held>>

AnimateTake(t) ==
    LET h == HeapOf[t]
        b == moving[t]
    IN  /\ pc[t] = "take"
        /\ Take(t, b, h, lists[h], Bin(used[b] + 1),
                [u |-> total[h].u + used[b], a |-> total[h].a + M], used[b])
        /\ mutex' = [mutex EXCEPT ![h] = None]
        /\ moving' = [moving EXCEPT ![t] = None]
        /\ pc' = [pc EXCEPT ![t] = "idle"]
        /\ UNCHANGED <<heap, glist, mem, seen>>

AnimateNew(t) ==
    LET h == HeapOf[t]
    IN  /\ pc[t] = "global" /\ glist = <<>>
        /\ \E b \in {c \in Block : Fresh(c)} :
              /\ heap' = [heap EXCEPT ![b] = h]
              /\ Take(t, b, h, Filed(lists[h], b, 0), 0, [total[h] EXCEPT !.a = @ + M], 0)
        /\ mutex' = [mutex EXCEPT ![h] = None]
        /\ pc' = [pc EXCEPT ![t] = "idle"]
        /\ UNCHANGED <<glist, mem, seen, moving>>

(***************************************************************************)
(* recycle                                                                 *)
(***************************************************************************)
RecycleLoad(t) ==
    /\ pc[t] = "idle"
    /\ \E o \in held :
          /\ held' = held \ {o}
          /\ mem' = [mem EXCEPT ![t] = o]
          /\ seen' = [seen EXCEPT ![t] = heap[o[1]]]
    /\ pc' = [pc EXCEPT ![t] = "recycle"]
    /\ UNCHANGED <<heap, used, first, free, lists, glist, total, mutex, moving>>

\* The block changed heaps before its lock was taken: once more.
RecycleAgain(t) ==
    /\ pc[t] = "recycle" /\ heap[mem[t][1]] # seen[t]
    /\ seen[t] # None => mutex[seen[t]] = None
    /\ seen' = [seen EXCEPT ![t] = heap[mem[t][1]]]
    /\ UNCHANGED <<heap, used, first, free, lists, glist, total, mutex, pc, mem, moving, held>>

SameHeap(t) == heap[mem[t][1]] = seen[t]

\* _deallocate
PutBack(t) ==
    LET b == mem[t][1]
    IN  /\ free' = [free EXCEPT ![b] = @ \cup {mem[t][2]}]
        /\ used' = [used EXCEPT ![b] = @ - 1]
        /\ mem' = [mem EXCEPT ![t] = None]
        /\ seen' = [seen EXCEPT ![t] = None]

RecycleGlobal(t) ==
    /\ pc[t] = "recycle" /\ seen[t] = None /\ SameHeap(t)
    /\ PutBack(t)
    /\ pc' = [pc EXCEPT ![t] = "idle"]
    /\ UNCHANGED <<heap, first, lists, glist, total, mutex, moving, held>>

TooEmpty(tot) == tot.u + K * M < tot.a /\ tot.u < ((F - 1) * tot.a) \div F
Emptiest(ls) == ls[CHOOSE i \in 0 .. F - 1 : ls[i] # <<>> /\ \A j \in 0 .. i - 1 : ls[j] = <<>>][1]

\* Under the heap's lock: the object goes back, and if the heap is too empty,
\* a block is about to go.
RecycleLocal(t) ==
    LET h   == seen[t]
        b   == mem[t][1]
        ls  == Refiled(lists[h], b, Bin(used[b]), Bin(used[b] - 1))
        tot == [total[h] EXCEPT !.u = @ - 1]
        x   == Emptiest(ls)
    IN  /\ pc[t] = "recycle" /\ h # None /\ mutex[h] = None /\ SameHeap(t)
        /\ PutBack(t)
        /\ lists' = [lists EXCEPT ![h] = ls]
        /\ IF TooEmpty(tot) /\ \E i \in 0 .. F - 1 : ls[i] # <<>>
           THEN /\ total' = [total EXCEPT ![h] = [u |-> tot.u - used'[x], a |-> tot.a - M]]
                /\ heap' = [heap EXCEPT ![x] = None]
                /\ moving' = [moving EXCEPT ![t] = x]
                /\ mutex' = [mutex EXCEPT ![h] = t]
                /\ pc' = [pc EXCEPT ![t] = "hand over"]
           ELSE /\ total' = [total EXCEPT ![h] = tot]
                /\ pc' = [pc EXCEPT ![t] = "idle"]
                /\ UNCHANGED <<heap, moving, mutex>>
        /\ UNCHANGED <<first, glist, held>>

\* Under both locks.
HandOver(t) ==
    /\ pc[t] = "hand over"
    /\ \E h \in Heap :
          /\ mutex[h] = t
          /\ lists' = [lists EXCEPT ![h] = [i \in Bins |-> SelectSeq(@[i], LAMBDA c : c # moving[t])]]
          /\ mutex' = [mutex EXCEPT ![h] = None]
    /\ glist' = <<moving[t]>> \o glist
    /\ moving' = [moving EXCEPT ![t] = None]
    /\ pc' = [pc EXCEPT ![t] = "idle"]
    /\ UNCHANGED <<heap, used, first, free, total, mem, seen, held>>

Next == \E t \in Thread :
    \/ AnimateLocal(t) \/ AnimateLock(t) \/ AnimateGlobal(t) \/ AnimateTake(t) \/ AnimateNew(t)
    \/ RecycleLoad(t) \/ RecycleAgain(t) \/ RecycleGlobal(t) \/ RecycleLocal(t) \/ HandOver(t)
Spec == Init /\ [][Next]_poolVars

\* What the pool tells of itself: the blocks of the global heap, and the
\* counters of the others.
SumOver(S, f(_)) == FoldSet(LAMBDA x, n : f(x) + n, 0, S)
Capacity     == M * Len(glist) + SumOver(Heap, LAMBDA h : total[h].a)
NumAvailable == SumOver(ToSet(glist), LAMBDA b : M - used[b]) + SumOver(Heap, LAMBDA h : total[h].a - total[h].u)
NumAllocated == SumOver(ToSet(glist), LAMBDA b : used[b]) + SumOver(Heap, LAMBDA h : total[h].u)

-----------------------------------------------------------------------------
Given == held \cup {mem[t] : t \in {s \in Thread : mem[s] # None}}
Given1(b) == {o \in Given : o[1] = b}
BlocksOf(h) == {b \in Block : heap[b] = h}

\* No object is given out twice or lost, and a block counts those it gave.
ObjectsExact ==
    \A b \in Block :
        /\ used[b] = Cardinality(Given1(b))
        /\ first[b] <= M
        /\ Given1(b) \cap {<<b, k>> : k \in free[b]} = {}
        /\ first[b] = used[b] + Cardinality(free[b])

\* Whoever finds a heap unlocked finds its counters to be those of its
\* blocks and its blocks under their bins; and the assertions of the source
\* hold: a block of the global heap has room, and a heap that gives up a
\* block keeps another with objects in it.
HeapsExact ==
    /\ \A h \in Heap : mutex[h] = None =>
          /\ total[h] = [u |-> SumOver(BlocksOf(h), LAMBDA b : used[b]), a |-> M * Cardinality(BlocksOf(h))]
          /\ \A i \in Bins : ToSet(lists[h][i]) = {b \in BlocksOf(h) : Bin(used[b]) = i}
    /\ \A b \in ToSet(glist) : heap[b] = None /\ used[b] < M
    /\ \A t \in Thread : pc[t] = "hand over" =>
          \A h \in Heap : mutex[h] = t => total[h].u > 0 /\ total[h].a > 0

\* When nobody is inside of the pool, what it tells is what the program has
\* and what was allocated.
CountsExact ==
    (\A t \in Thread : pc[t] = "idle") =>
        LET blocks == {b \in Block : ~Fresh(b)}
        IN  /\ Capacity = M * Cardinality(blocks)
            /\ NumAllocated = Cardinality(held)
            /\ NumAvailable = Capacity - Cardinality(held)
PoolExact == ObjectsExact /\ HeapsExact /\ CountsExact
=============================================================================
