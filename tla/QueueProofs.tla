---------------------------- MODULE QueueProofs -----------------------------
(***************************************************************************)
(* The queues of core/tsq.h and the ring buffer of utility/mpmc.h: small   *)
(* instances of TaskQueue and MPMC for TLC, where the initial state        *)
(* chooses which of the two makes steps and the other one rests, and the   *)
(* proofs.                                                                 *)
(*                                                                         *)
(* The work-stealing queues implement the abstract deque, bounded or not,  *)
(* for any number of thieves and any size of the first buffer.  A thief    *)
(* may hold an index and a buffer that are long out of date.  The argument *)
(* is that this matters only while _top is still what the thief has read,  *)
(* since its compare-exchange fails otherwise; and as long as _top stays,  *)
(* the item at that index stays in the queue and in all the buffers that   *)
(* were current since.                                                     *)
(*                                                                         *)
(* The ring buffer is exact for any number of producers and consumers, any *)
(* size of at least two, and any positions.  A position p belongs to the   *)
(* cell p % RingSize, and the argument is about what the sequence number   *)
(* of that cell says of p: p + 1 can be there only when p was enqueued,    *)
(* and p only when the item one round before p was claimed by a consumer.  *)
(* Numbers p and p + 1 fall into different cells, hence a number in a cell *)
(* is for one side only.                                                   *)
(***************************************************************************)
EXTENDS TaskQueue, SequenceTheorems, TLC, TLAPS

CONSTANTS
    Producers, Consumers, Data, RingSize, Spinning, MaxPos      \* of MPMC

VARIABLES
    part,
    count, cells, mpc, pos, data, sent      \* of MPMC

F == INSTANCE MPMC WITH Size <- RingSize

ASSUME QueuesAssumption == QueueAssumption /\ F!MPMCAssumption

mcVars == <<part, count, cells, mpc, pos, data, sent,
            bounded, top, bottom, arrays, opc, oitem, otop, tpc, ttop, tarray, titem, out>>

MCInit ==
    /\ F!Init
    /\ \/ part = "deque" /\ Init
       \/ /\ part = "fifo"
          /\ bounded = FALSE /\ top = 0 /\ bottom = 0 /\ arrays = <<>> /\ opc = <<>>
          /\ oitem = <<>> /\ otop = <<>> /\ tpc = <<>> /\ ttop = <<>> /\ tarray = <<>>
          /\ titem = <<>> /\ out = <<>>

MCNext ==
    \/ part = "deque" /\ Next /\ UNCHANGED <<part, count, cells, mpc, pos, data, sent>>
    \/ /\ part = "fifo" /\ F!Next
       /\ UNCHANGED <<part, bounded, top, bottom, arrays, opc, oitem, otop, tpc, ttop, tarray,
                      titem, out>>

MCSpec == MCInit /\ [][MCNext]_mcVars

\* The thieves of the one queue are the consumers of the other.
Symmetry == Permutations(Thieves) \cup Permutations(Item)

\* The indexes of a deque fit its buffer, no live slot is written over, and a queue
\* that empty() calls empty is, or its owner is popping and will search itself (push,
\* pop, steal, empty).
DequeHonest == part = "deque" => Consistent /\ EmptyIsHonest

\* Owner and thieves see one queue: each push, pop and steal, resizing and stale
\* reads included, is one step of the abstract deque or none (tsq.h).
ImplementsDeque ==
    /\ part = "deque" => D!DInit
    /\ [][part = "deque" => D!DNext \/ UNCHANGED D!dequeVars]_mcVars

\* Items leave the ring buffer in the order of the positions at which they came, each
\* once (try_enqueue, enqueue, try_dequeue).
FifoExact == F!FifoExact

-----------------------------------------------------------------------------
(* The work-stealing queues *)

Slots == Item \cup {Nothing}
Buffers == UNION {Array(c) : c \in Nat \ {0}}

Types ==
    /\ bounded \in BOOLEAN
    /\ top \in Nat /\ bottom \in Int
    /\ arrays \in Seq(Buffers) /\ Len(arrays) > 0
    /\ opc \in OwnerPC /\ oitem \in Slots /\ otop \in Nat
    /\ tpc \in [Thieves -> ThiefPC]
    /\ ttop \in [Thieves -> Nat]
    /\ tarray \in [Thieves -> Nat]
    /\ titem \in [Thieves -> Slots]

\* The buffer has room for what lies between the indexes.
Indexes ==
    /\ Bottom - top \in 0 .. Current.C
    /\ bounded => Current.C = Size

\* What the owner knows at each place.  Its copy of _top may be out of date, in the
\* direction that makes the queue look longer.
OwnerKnows ==
    /\ opc = "grow" => /\ ~bounded /\ oitem \in Item
                       /\ otop <= top /\ bottom - otop = Current.C
    /\ opc \in {"store", "publish"} => oitem \in Item /\ bottom - top < Current.C
    /\ opc = "publish" => Get(Current, bottom) = oitem
    /\ opc = "popswap" => otop = bottom /\ otop <= top

\* What a thief knows, as long as _top is what it has read.
ThiefKnows(p) ==
    /\ ttop[p] <= top
    /\ tpc[p] = "slot" => tarray[p] \in 1 .. Len(arrays)
    /\ ttop[p] = top =>
          /\ tpc[p] \in {"array", "slot", "swap"} => top < Bottom
          /\ tpc[p] = "slot" => Get(arrays[tarray[p]], top) = Get(Current, top)
          /\ tpc[p] = "swap" => titem[p] = Get(Current, top)

IInv == Types /\ Indexes /\ OwnerKnows /\ \A p \in Thieves : ThiefKnows(p)

-----------------------------------------------------------------------------
(* Arithmetic: fewer indexes than slots have a slot each. *)

LEMMA Quotient ==
    ASSUME NEW c \in Nat \ {0}, NEW i \in Nat
    PROVE  i = c * (i \div c) + (i % c) /\ i \div c \in Int /\ i % c \in 0 .. c - 1
BY SMT

LEMMA SlotsDiffer ==
    ASSUME NEW c \in Nat \ {0}, NEW i \in Nat, NEW j \in Nat, i < j, j - i < c
    PROVE  i % c # j % c
<1> SUFFICES ASSUME i % c = j % c PROVE FALSE OBVIOUS
<1> DEFINE a == i \div c  b == j \div c
<1>1. i = c * a + (i % c) /\ a \in Int /\ i % c \in Int BY Quotient
<1>2. j = c * b + (j % c) /\ b \in Int BY Quotient
<1> HIDE DEF a, b
<1>3. j - i = c * (b - a) BY <1>1, <1>2, SMT
<1>4. CASE b - a >= 1
  <2>1. c * (b - a) >= c BY <1>1, <1>2, <1>4, SMT
  <2> QED BY <1>3, <2>1
<1>5. CASE b - a <= 0
  <2>1. c * (b - a) <= 0 BY <1>1, <1>2, <1>5, SMT
  <2> QED BY <1>3, <2>1
<1> QED BY <1>1, <1>2, <1>4, <1>5

-----------------------------------------------------------------------------
(* Buffers. *)

LEMMA BufferType ==
    ASSUME NEW a \in Buffers
    PROVE  /\ a.C \in Nat \ {0}
           /\ a.S \in [0 .. a.C - 1 -> Slots]
           /\ a = [C |-> a.C, S |-> a.S]
BY DEF Buffers, Array, Slots

LEMMA IsBuffer ==
    ASSUME NEW c \in Nat \ {0}, NEW f \in [0 .. c - 1 -> Slots]
    PROVE  [C |-> c, S |-> f] \in Buffers
<1>1. [C |-> c, S |-> f] \in Array(c) BY DEF Array, Slots
<1> QED BY <1>1 DEF Buffers

LEMMA GetType ==
    ASSUME NEW a \in Buffers, NEW i \in Nat
    PROVE  Get(a, i) \in Slots /\ i % a.C \in 0 .. a.C - 1
<1>1. i % a.C \in 0 .. a.C - 1 BY BufferType, Quotient
<1> QED BY <1>1, BufferType DEF Get

\* A slot that is written reads as what was written, and the others as before.
LEMMA PutFacts ==
    ASSUME NEW a \in Buffers, NEW i \in Nat, NEW x \in Slots
    PROVE  /\ Put(a, i, x) \in Buffers
           /\ Put(a, i, x).C = a.C
           /\ Get(Put(a, i, x), i) = x
           /\ \A j \in Nat : j % a.C # i % a.C => Get(Put(a, i, x), j) = Get(a, j)
<1>1. i % a.C \in 0 .. a.C - 1 BY GetType
<1> DEFINE f == [a.S EXCEPT ![i % a.C] = x]
<1>2. f \in [0 .. a.C - 1 -> Slots] BY BufferType
<1>3. Put(a, i, x) = [C |-> a.C, S |-> f] BY DEF Put
<1>4. Put(a, i, x) \in Buffers
  <2> HIDE DEF f
  <2> QED  BY <1>2, <1>3, BufferType, IsBuffer
<1>5. Put(a, i, x).C = a.C /\ Put(a, i, x).S = f BY <1>3
<1>6. Get(Put(a, i, x), i) = x BY <1>1, <1>5, BufferType DEF Get
<1>7. ASSUME NEW j \in Nat, j % a.C # i % a.C PROVE Get(Put(a, i, x), j) = Get(a, j)
  <2>1. j % a.C \in 0 .. a.C - 1 BY GetType
  <2> QED BY <1>1, <1>5, <1>7, <2>1, BufferType DEF Get
<1> QED BY <1>4, <1>5, <1>6, <1>7

\* The larger buffer has the items that the full one has, at the same indexes.
LEMMA ResizeFacts ==
    ASSUME NEW a \in Buffers, NEW b \in Nat, NEW t \in Nat, b - t = a.C
    PROVE  /\ Resize(a, b, t) \in Buffers
           /\ Resize(a, b, t).C = 2 * a.C
           /\ \A i \in t .. b - 1 : Get(Resize(a, b, t), i) = Get(a, i)
<1> DEFINE c == 2 * a.C
           f == [j \in 0 .. c - 1 |->
                   IF \E i \in t .. b - 1 : i % c = j
                   THEN Get(a, CHOOSE i \in t .. b - 1 : i % c = j)
                   ELSE Nothing]
<1>1. c \in Nat \ {0} BY BufferType
<1>2. Resize(a, b, t) = [C |-> c, S |-> f] BY DEF Resize
<1>3. f \in [0 .. c - 1 -> Slots]
  <2> SUFFICES ASSUME NEW j \in 0 .. c - 1 PROVE f[j] \in Slots OBVIOUS
  <2>1. CASE \E i \in t .. b - 1 : i % c = j
    <3>1. (CHOOSE i \in t .. b - 1 : i % c = j) \in t .. b - 1 BY <2>1
    <3>2. (CHOOSE i \in t .. b - 1 : i % c = j) \in Nat BY <3>1
    <3> QED BY <2>1, <3>2, GetType
  <2>2. CASE ~ \E i \in t .. b - 1 : i % c = j BY <2>2 DEF Slots
  <2> QED BY <2>1, <2>2
<1>4. ASSUME NEW i \in t .. b - 1 PROVE f[i % c] = Get(a, i)
  <2> HIDE DEF c
  <2>1. i \in Nat OBVIOUS
  <2>4. i % c \in 0 .. c - 1 BY <1>1, <2>1, Quotient
  <2>2. \A k \in t .. b - 1 : k % c = i % c => k = i
    <3> SUFFICES ASSUME NEW k \in t .. b - 1, k % c = i % c, k # i PROVE FALSE OBVIOUS
    <3>1. k \in Nat /\ i \in Nat /\ k - i < c /\ i - k < c BY <1>1, BufferType DEF c
    <3>2. CASE k < i BY <1>1, <3>1, <3>2, SlotsDiffer
    <3>3. CASE i < k BY <1>1, <3>1, <3>3, SlotsDiffer
    <3> QED BY <3>1, <3>2, <3>3
  <2>3. (CHOOSE k \in t .. b - 1 : k % c = i % c) = i BY <2>2
  <2> QED BY <2>3, <2>4
<1> HIDE DEF f
<1>5. Resize(a, b, t) \in Buffers BY <1>1, <1>2, <1>3, IsBuffer
<1>6. Resize(a, b, t).C = c /\ Resize(a, b, t).S = f BY <1>2
<1> QED BY <1>4, <1>5, <1>6 DEF Get

-----------------------------------------------------------------------------
(* The items at n indexes from t on, as a sequence. *)

Items(a, t, n) == [i \in 1 .. n |-> Get(a, t + i - 1)]

LEMMA ItemsFacts ==
    ASSUME NEW a \in Buffers, NEW t \in Nat, NEW n \in Nat
    PROVE  /\ Items(a, t, n) \in Seq(Slots)
           /\ Len(Items(a, t, n)) = n
           /\ \A i \in 1 .. n : Items(a, t, n)[i] = Get(a, t + i - 1)
           /\ Items(a, t, n) = <<>> <=> n = 0
<1>1. \A i \in 1 .. n : Get(a, t + i - 1) \in Slots
  <2> SUFFICES ASSUME NEW i \in 1 .. n PROVE Get(a, t + i - 1) \in Slots OBVIOUS
  <2>1. t + i - 1 \in Nat OBVIOUS
  <2> QED BY <2>1, GetType
<1>2. Items(a, t, n) \in [1 .. n -> Slots] BY <1>1 DEF Items
<1>3. Items(a, t, n) \in Seq(Slots) BY <1>2, SeqDef
<1>4. Len(Items(a, t, n)) = n
  <2>1. DOMAIN Items(a, t, n) = 1 .. n BY <1>2
  <2>2. DOMAIN Items(a, t, n) = 1 .. Len(Items(a, t, n)) /\ Len(Items(a, t, n)) \in Nat
    BY <1>3, LenProperties
  <2> QED BY <2>1, <2>2
<1>5. Items(a, t, n) = <<>> <=> n = 0 BY <1>3, <1>4, EmptySeq
<1> QED BY <1>3, <1>4, <1>5 DEF Items

LEMMA ItemsSame ==
    ASSUME NEW a \in Buffers, NEW b \in Buffers, NEW t \in Nat, NEW n \in Nat,
           \A i \in Nat : t <= i /\ i < t + n => Get(a, i) = Get(b, i)
    PROVE  Items(a, t, n) = Items(b, t, n)
<1>1. \A i \in 1 .. n : Get(a, t + i - 1) = Get(b, t + i - 1)
  <2> TAKE i \in 1 .. n
  <2>1. t + i - 1 \in Nat /\ t <= t + i - 1 /\ t + i - 1 < t + n OBVIOUS
  <2> QED BY <2>1
<1> QED BY <1>1 DEF Items

\* push, at the one end.
LEMMA ItemsPush ==
    ASSUME NEW a \in Buffers, NEW t \in Nat, NEW n \in Nat
    PROVE  Items(a, t, n + 1) = Append(Items(a, t, n), Get(a, t + n))
<1>1. n + 1 \in Nat /\ t + n \in Nat OBVIOUS
<1> DEFINE s == Items(a, t, n)  r == Items(a, t, n + 1)
<1>2. /\ s \in Seq(Slots) /\ Len(s) = n /\ \A i \in 1 .. n : s[i] = Get(a, t + i - 1) BY ItemsFacts
<1>3. /\ r \in Seq(Slots) /\ Len(r) = n + 1 /\ \A i \in 1 .. n + 1 : r[i] = Get(a, t + i - 1)
  BY <1>1, ItemsFacts
<1>4. Get(a, t + n) \in Slots BY <1>1, GetType
<1> HIDE DEF s, r
<1>5. /\ Append(s, Get(a, t + n)) \in Seq(Slots) /\ Len(Append(s, Get(a, t + n))) = n + 1
      /\ \A i \in 1 .. n : Append(s, Get(a, t + n))[i] = s[i]
      /\ Append(s, Get(a, t + n))[n + 1] = Get(a, t + n) BY <1>2, <1>4, AppendProperties
<1>6. \A i \in 1 .. n + 1 : r[i] = Append(s, Get(a, t + n))[i]
  <2> TAKE i \in 1 .. n + 1
  <2>1. CASE i = n + 1 BY <1>3, <1>5, <2>1
  <2>2. CASE i \in 1 .. n BY <1>2, <1>3, <1>5, <2>2
  <2>3. i = n + 1 \/ i \in 1 .. n OBVIOUS
  <2> QED BY <2>1, <2>2, <2>3
<1>7. r = Append(s, Get(a, t + n)) BY <1>3, <1>5, <1>6, SeqEqual
<1> QED BY <1>7 DEF r, s

\* pop, at the same end.
LEMMA ItemsPop ==
    ASSUME NEW a \in Buffers, NEW t \in Nat, NEW n \in Nat, n > 0
    PROVE  /\ Items(a, t, n)[n] = Get(a, t + n - 1)
           /\ Items(a, t, n - 1) = SubSeq(Items(a, t, n), 1, n - 1)
<1> DEFINE s == Items(a, t, n)  r == Items(a, t, n - 1)
<1>1. /\ s \in Seq(Slots) /\ Len(s) = n /\ \A i \in 1 .. n : s[i] = Get(a, t + i - 1) BY ItemsFacts
<1>2. n - 1 \in Nat OBVIOUS
<1>3. /\ r \in Seq(Slots) /\ Len(r) = n - 1 /\ \A i \in 1 .. n - 1 : r[i] = Get(a, t + i - 1)
  BY <1>2, ItemsFacts
<1> HIDE DEF s, r
<1>4. \A i \in 1 .. n - 1 : s[i] \in Slots BY <1>1, ElementOfSeq
<1>5. /\ SubSeq(s, 1, n - 1) \in Seq(Slots)
      /\ Len(SubSeq(s, 1, n - 1)) = n - 1
      /\ \A i \in 1 .. n - 1 : SubSeq(s, 1, n - 1)[i] = s[i]
  <2>1. /\ SubSeq(s, 1, n - 1) \in Seq(Slots)
        /\ Len(SubSeq(s, 1, n - 1)) = IF 1 <= n - 1 THEN n - 1 - 1 + 1 ELSE 0
        /\ \A i \in 1 .. n - 1 - 1 + 1 : SubSeq(s, 1, n - 1)[i] = s[1 + i - 1]
    BY <1>2, <1>4, SubSeqProperties
  <2> QED BY <1>2, <2>1
<1>6. \A i \in 1 .. n - 1 : r[i] = SubSeq(s, 1, n - 1)[i] BY <1>1, <1>3, <1>5
<1>7. r = SubSeq(s, 1, n - 1) BY <1>3, <1>5, <1>6, SeqEqual
<1>8. s[n] = Get(a, t + n - 1) BY <1>1
<1> QED BY <1>7, <1>8 DEF r, s

\* steal, at the other end.
LEMMA ItemsSteal ==
    ASSUME NEW a \in Buffers, NEW t \in Nat, NEW n \in Nat, n > 0
    PROVE  /\ Head(Items(a, t, n)) = Get(a, t)
           /\ Items(a, t + 1, n - 1) = Tail(Items(a, t, n))
<1> DEFINE s == Items(a, t, n)  r == Items(a, t + 1, n - 1)
<1>1. /\ s \in Seq(Slots) /\ Len(s) = n /\ s # <<>>
      /\ \A i \in 1 .. n : s[i] = Get(a, t + i - 1) BY ItemsFacts
<1>2. n - 1 \in Nat /\ t + 1 \in Nat OBVIOUS
<1>3. /\ r \in Seq(Slots) /\ Len(r) = n - 1 /\ \A i \in 1 .. n - 1 : r[i] = Get(a, t + 1 + i - 1)
  BY <1>2, ItemsFacts
<1> HIDE DEF s, r
<1>4. /\ Tail(s) \in Seq(Slots) /\ Len(Tail(s)) = n - 1
      /\ \A i \in 1 .. n - 1 : Tail(s)[i] = s[i + 1] BY <1>1, HeadTailProperties
<1>5. \A i \in 1 .. n - 1 : r[i] = Tail(s)[i]
  <2> TAKE i \in 1 .. n - 1
  <2>1. i + 1 \in 1 .. n /\ t + 1 + i - 1 = t + (i + 1) - 1 OBVIOUS
  <2> QED BY <1>1, <1>3, <1>4, <2>1
<1>6. r = Tail(s) BY <1>3, <1>4, <1>5, SeqEqual
<1>7. Head(s) = Get(a, t)
  <2>1. Head(s) = s[1] /\ 1 \in 1 .. n /\ t + 1 - 1 = t BY <1>1
  <2> QED BY <1>1, <2>1
<1> QED BY <1>6, <1>7 DEF r, s

LEMMA CurrentType ==
    ASSUME NEW s \in Seq(Buffers), Len(s) > 0
    PROVE  /\ Len(s) \in Nat \ {0}
           /\ \A k \in 1 .. Len(s) : s[k] \in Buffers
           /\ s[Len(s)] \in Buffers /\ s[Len(s)].C \in Nat \ {0}
<1>1. Len(s) \in Nat \ {0} BY LenProperties
<1>2. \A k \in 1 .. Len(s) : s[k] \in Buffers BY ElementOfSeq
<1>3. s[Len(s)] \in Buffers BY <1>1, <1>2
<1> QED BY <1>1, <1>2, <1>3, BufferType

-----------------------------------------------------------------------------
(* Types. *)

LEMMA OwnerTypes == ASSUME IInv, OwnerNext PROVE Types'
<1>1. /\ Len(arrays) \in Nat \ {0} /\ Current \in Buffers /\ Current.C \in Nat \ {0}
      /\ \A k \in 1 .. Len(arrays) : arrays[k] \in Buffers BY CurrentType DEF IInv, Types, Current
<1>2. CASE PushBegin BY <1>2 DEF PushBegin, IInv, Types, OwnerPC, thiefVars, Slots
<1>3. CASE Grow
  <2>1. bottom \in Nat /\ otop \in Nat /\ bottom - otop = Current.C
    BY <1>1, <1>3 DEF Grow, IInv, Types, OwnerKnows
  <2>2. Resize(Current, bottom, otop) \in Buffers BY <1>1, <2>1, ResizeFacts
  <2>3. arrays' \in Seq(Buffers) /\ Len(arrays') > 0
    BY <1>1, <1>3, <2>2, AppendProperties DEF Grow, IInv, Types
  <2> QED BY <1>3, <2>3 DEF Grow, IInv, Types, OwnerPC, thiefVars
<1>4. CASE Store
  <2>1. bottom \in Nat /\ oitem \in Slots
    BY <1>1, <1>4 DEF Store, IInv, Types, Indexes, Bottom, Popping
  <2>2. Put(Current, bottom, oitem) \in Buffers BY <1>1, <2>1, PutFacts
  <2>3. arrays' = [arrays EXCEPT ![Len(arrays)] = Put(Current, bottom, oitem)]
    BY <1>4 DEF Store, Current
  <2>4. arrays' \in Seq(Buffers) /\ Len(arrays') > 0
    <3>1. Len(arrays) \in 1 .. Len(arrays) BY <1>1
    <3> QED BY <1>1, <2>2, <2>3, <3>1, ExceptSeq DEF IInv, Types
  <2> QED BY <1>4, <2>4 DEF Store, IInv, Types, OwnerPC, thiefVars
<1>5. CASE Publish BY <1>5 DEF Publish, IInv, Types, OwnerPC, thiefVars, Slots
<1>6. CASE PopBegin BY <1>6 DEF PopBegin, IInv, Types, OwnerPC, thiefVars
<1>7. CASE PopTop BY <1>7 DEF PopTop, IInv, Types, OwnerPC, thiefVars
<1>8. CASE PopSwap BY <1>8 DEF PopSwap, IInv, Types, OwnerPC, thiefVars
<1>9. CASE Restore BY <1>9 DEF Restore, IInv, Types, OwnerPC, thiefVars
<1> QED BY <1>2, <1>3, <1>4, <1>5, <1>6, <1>7, <1>8, <1>9 DEF OwnerNext

LEMMA ThiefTypes ==
    ASSUME IInv, NEW p \in Thieves, ThiefNext(p) PROVE Types'
<1>1. /\ Len(arrays) \in Nat \ {0} /\ \A k \in 1 .. Len(arrays) : arrays[k] \in Buffers
  BY CurrentType DEF IInv, Types
<1>2. CASE StealTop(p) BY <1>2 DEF StealTop, IInv, Types, ThiefPC, ownerVars, Advance
<1>3. CASE StealBottom(p)
  <2>1. CASE Advance(p, "array") /\ UNCHANGED <<ttop, tarray, titem>>
    BY <1>3, <2>1 DEF StealBottom, IInv, Types, ThiefPC, ownerVars, Advance
  <2>2. CASE Reset(p) BY <1>3, <2>2 DEF StealBottom, IInv, Types, ThiefPC, ownerVars, Reset, Slots
  <2> QED BY <1>3, <2>1, <2>2 DEF StealBottom
<1>4. CASE StealArray(p) BY <1>1, <1>4 DEF StealArray, IInv, Types, ThiefPC, ownerVars, Advance
<1>5. CASE StealSlot(p)
  <2>1. arrays[tarray[p]] \in Buffers /\ ttop[p] \in Nat
    BY <1>1, <1>5 DEF StealSlot, IInv, ThiefKnows, Types
  <2>2. Get(arrays[tarray[p]], ttop[p]) \in Slots BY <2>1, GetType
  <2> QED BY <1>5, <2>2 DEF StealSlot, IInv, Types, ThiefPC, ownerVars, Advance
<1>6. CASE StealSwap(p) BY <1>6 DEF StealSwap, IInv, Types, ThiefPC, ownerVars, Reset, Slots
<1>7. CASE LookTop(p) BY <1>7 DEF LookTop, IInv, Types, ThiefPC, ownerVars, Advance
<1>8. CASE Look(p) BY <1>8 DEF Look, IInv, Types, ThiefPC, ownerVars, Reset, Slots
<1> QED BY <1>2, <1>3, <1>4, <1>5, <1>6, <1>7, <1>8 DEF ThiefNext

-----------------------------------------------------------------------------
(* The owner's steps: each keeps the invariant and is one of the deque's or   *)
(* none.                                                                      *)

Safe == Indexes /\ OwnerKnows /\ \A p \in Thieves : ThiefKnows(p)
Step == [D!DNext]_(D!dequeVars)

\* What the invariant says in the terms of the lemmas on buffers and items.
LEMMA Facts ==
    ASSUME IInv
    PROVE  /\ Len(arrays) \in Nat \ {0}
           /\ \A k \in 1 .. Len(arrays) : arrays[k] \in Buffers
           /\ Current \in Buffers /\ Current.C \in Nat \ {0}
           /\ top \in Nat /\ Bottom \in Nat /\ Bottom - top \in 0 .. Current.C
           /\ Bottom - top \in Nat
           /\ Len(Deque) = Bottom - top /\ (Deque = <<>> <=> Bottom = top)
           /\ Deque = Items(Current, top, Bottom - top)
           /\ Deque' = Items(Current', top', Bottom' - top')
<1>1. /\ Len(arrays) \in Nat \ {0}
      /\ \A k \in 1 .. Len(arrays) : arrays[k] \in Buffers
      /\ Current \in Buffers /\ Current.C \in Nat \ {0} BY CurrentType DEF IInv, Types, Current
<1>2. top \in Nat /\ Bottom - top \in 0 .. Current.C BY DEF IInv, Types, Indexes
<1>3. Bottom \in Nat BY <1>1, <1>2 DEF IInv, Types, Bottom, Popping
<1>4. Deque = Items(Current, top, Bottom - top) /\ Deque' = Items(Current', top', Bottom' - top')
  BY DEF Deque, Items
<1>5. Bottom - top \in Nat BY <1>1, <1>2
<1>6. Len(Deque) = Bottom - top /\ (Deque = <<>> <=> Bottom - top = 0)
  BY <1>1, <1>2, <1>4, <1>5, ItemsFacts
<1> QED BY <1>1, <1>2, <1>3, <1>4, <1>5, <1>6

\* The thieves know what they knew, when the owner leaves _top and the oldest item.
LEMMA ThievesKept ==
    ASSUME IInv, UNCHANGED <<top, thiefVars>>, Len(arrays) <= Len(arrays'), Len(arrays') \in Nat,
           top < Bottom => /\ top < Bottom'
                           /\ Get(Current, top)' = Get(Current, top)
                           /\ \A k \in 1 .. Len(arrays) :
                                 Get(arrays[k], top) = Get(Current, top)
                                    => Get(arrays'[k], top) = Get(Current, top)
    PROVE  \A p \in Thieves : ThiefKnows(p)'
<1> SUFFICES ASSUME NEW p \in Thieves PROVE ThiefKnows(p)' OBVIOUS
<1>1. ThiefKnows(p) /\ Len(arrays) \in Nat BY Facts DEF IInv
<1>2. UNCHANGED <<ttop, tpc, tarray, titem>> BY DEF thiefVars
<1>3. CASE ttop[p] = top /\ tpc[p] \in {"array", "slot", "swap"}
  <2>1. top < Bottom BY <1>1, <1>3 DEF ThiefKnows
  <2> QED BY <1>1, <1>2, <1>3, <2>1 DEF ThiefKnows
<1>4. CASE ~(ttop[p] = top /\ tpc[p] \in {"array", "slot", "swap"})
  BY <1>1, <1>2, <1>4 DEF ThiefKnows
<1> QED BY <1>3, <1>4

LEMMA PushBeginStep == ASSUME IInv, PushBegin PROVE Safe' /\ Step
<1>1. Bottom = bottom /\ Bottom' = bottom /\ UNCHANGED <<bounded, top, bottom, arrays, Current>>
  BY DEF PushBegin, Bottom, Popping, Current
<1>2. Indexes' BY <1>1 DEF IInv, Indexes
<1>3. OwnerKnows'
  <2>1. CASE bottom - top <= Current.C - 1 /\ opc' = "store" /\ oitem' \in Item
    BY <1>1, <2>1, Facts DEF OwnerKnows
  <2>2. CASE bottom - top > Current.C - 1 /\ ~bounded /\ opc' = "grow" /\ oitem' \in Item
    <3>1. otop' = top /\ bottom - top = Current.C BY <1>1, <2>2, Facts DEF PushBegin
    <3> QED BY <1>1, <2>2, <3>1, Facts DEF OwnerKnows
  <2>3. CASE opc' = "idle" BY <2>3 DEF OwnerKnows
  <2> QED BY <2>1, <2>2, <2>3 DEF PushBegin
<1>4. \A p \in Thieves : ThiefKnows(p)' BY <1>1, Facts, ThievesKept DEF PushBegin
<1>5. Deque' = Deque BY <1>1, Facts
<1>6. Step
  <2>1. CASE UNCHANGED out BY <1>1, <1>5, <2>1 DEF Step, D!dequeVars
  <2>2. CASE bottom - top > Current.C - 1 /\ bounded /\ Return(Owner, Full)
    <3>1. Len(Deque) = Size BY <1>1, <2>2, Facts DEF IInv, Indexes
    <3> QED BY <1>1, <1>5, <2>2, <3>1 DEF Step, D!DNext, D!DRefuse, Return, D!Return
  <2> QED BY <2>1, <2>2 DEF PushBegin
<1> QED BY <1>2, <1>3, <1>4, <1>6 DEF Safe

LEMMA GrowStep == ASSUME IInv, Grow PROVE Safe' /\ Step
<1>1. Bottom = bottom /\ Bottom' = bottom /\ UNCHANGED <<bounded, top, bottom>>
  BY DEF Grow, Bottom, Popping
<1>2. bottom \in Nat /\ otop \in Nat /\ bottom - otop = Current.C /\ otop <= top
      /\ ~bounded /\ oitem \in Item BY <1>1, Facts DEF Grow, IInv, Types, OwnerKnows
<1>3. /\ Current' = Resize(Current, bottom, otop) /\ Len(arrays') = Len(arrays) + 1
      /\ \A k \in 1 .. Len(arrays) : arrays'[k] = arrays[k]
  <2>1. Resize(Current, bottom, otop) \in Buffers BY <1>2, Facts, ResizeFacts
  <2> QED BY <2>1, Facts, AppendProperties DEF Grow, IInv, Types, Current
<1>4. /\ Current' \in Buffers /\ Current'.C = 2 * Current.C
      /\ \A i \in otop .. bottom - 1 : Get(Current', i) = Get(Current, i)
  BY <1>2, <1>3, Facts, ResizeFacts
<1>5. Indexes' BY <1>1, <1>2, <1>4, Facts DEF Indexes
<1>6. OwnerKnows' BY <1>1, <1>2, <1>4, Facts DEF Grow, OwnerKnows
<1>7. \A p \in Thieves : ThiefKnows(p)'
  <2>1. top < Bottom => Get(Current', top) = Get(Current, top) BY <1>1, <1>2, <1>4, Facts
  <2> QED BY <1>1, <1>3, <2>1, Facts, ThievesKept DEF Grow
<1>8. Deque' = Deque
  <2>1. \A i \in Nat : top <= i /\ i < top + (Bottom - top) => Get(Current', i) = Get(Current, i)
    BY <1>1, <1>2, <1>4, Facts
  <2>2. Current \in Buffers /\ top \in Nat /\ Bottom - top \in Nat BY Facts
  <2>3. Items(Current, top, Bottom - top) = Items(Current', top, Bottom - top)
    BY <1>4, <2>1, <2>2, ItemsSame
  <2>4. Deque = Items(Current, top, Bottom - top) /\ Deque' = Items(Current', top, Bottom - top)
    BY <1>1, Facts
  <2> QED BY <2>3, <2>4
<1>9. Step BY <1>1, <1>8 DEF Grow, Step, D!dequeVars
<1> QED BY <1>5, <1>6, <1>7, <1>9 DEF Safe

LEMMA StoreStep == ASSUME IInv, Store PROVE Safe' /\ Step
<1>1. Bottom = bottom /\ Bottom' = bottom /\ UNCHANGED <<bounded, top, bottom, oitem>>
  BY DEF Store, Bottom, Popping
<1>2. bottom \in Nat /\ bottom - top < Current.C /\ oitem \in Item /\ oitem \in Slots
  BY <1>1, Facts DEF Store, IInv, OwnerKnows, Slots
<1>3. /\ Current' = Put(Current, bottom, oitem) /\ Len(arrays') = Len(arrays)
      /\ \A k \in 1 .. Len(arrays) : k # Len(arrays) => arrays'[k] = arrays[k]
  <2>1. Put(Current, bottom, oitem) \in Buffers /\ Len(arrays) \in 1 .. Len(arrays)
    BY <1>2, Facts, PutFacts
  <2>2. arrays' = [arrays EXCEPT ![Len(arrays)] = Put(Current, bottom, oitem)] BY DEF Store, Current
  <2> QED BY <2>1, <2>2, ExceptSeq DEF IInv, Types, Current
<1>4. /\ Current' \in Buffers /\ Current'.C = Current.C
      /\ Get(Current', bottom) = oitem
      /\ \A i \in Nat : top <= i /\ i < bottom => Get(Current', i) = Get(Current, i)
  <2>1. ASSUME NEW i \in Nat, top <= i, i < bottom PROVE i % Current.C # bottom % Current.C
    <3>1. bottom - i < Current.C BY <1>2, <2>1, Facts
    <3> QED BY <1>2, <2>1, <3>1, Facts, SlotsDiffer
  <2>2. /\ Put(Current, bottom, oitem) \in Buffers
        /\ Put(Current, bottom, oitem).C = Current.C
        /\ Get(Put(Current, bottom, oitem), bottom) = oitem
        /\ \A i \in Nat : i % Current.C # bottom % Current.C
              => Get(Put(Current, bottom, oitem), i) = Get(Current, i) BY <1>2, Facts, PutFacts
  <2> QED BY <1>2, <1>3, <2>1, <2>2
<1>5. Indexes' BY <1>1, <1>4 DEF IInv, Indexes
<1>6. OwnerKnows' BY <1>1, <1>2, <1>4 DEF Store, OwnerKnows
<1>7. \A p \in Thieves : ThiefKnows(p)'
  <2>1. top < Bottom => Get(Current', top) = Get(Current, top) BY <1>1, <1>4, Facts
  <2>2. top < Bottom => \A k \in 1 .. Len(arrays) :
           Get(arrays[k], top) = Get(Current, top) => Get(arrays'[k], top) = Get(Current, top)
    BY <1>3, <2>1 DEF Current
  <2> QED
    <3>1. Len(arrays) <= Len(arrays') /\ Len(arrays') \in Nat BY <1>3, Facts
    <3>2. UNCHANGED <<top, thiefVars>> BY DEF Store
    <3> QED BY <1>1, <2>1, <2>2, <3>1, <3>2, ThievesKept
<1>8. Deque' = Deque
  <2>1. \A i \in Nat : top <= i /\ i < top + (Bottom - top) => Get(Current', i) = Get(Current, i)
    BY <1>1, <1>4, Facts
  <2>2. Current \in Buffers /\ top \in Nat /\ Bottom - top \in Nat BY Facts
  <2>3. Items(Current, top, Bottom - top) = Items(Current', top, Bottom - top)
    BY <1>4, <2>1, <2>2, ItemsSame
  <2>4. Deque = Items(Current, top, Bottom - top) /\ Deque' = Items(Current', top, Bottom - top)
    BY <1>1, Facts
  <2> QED BY <2>3, <2>4
<1>9. Step BY <1>1, <1>8 DEF Store, Step, D!dequeVars
<1> QED BY <1>5, <1>6, <1>7, <1>9 DEF Safe

LEMMA PublishStep == ASSUME IInv, Publish PROVE Safe' /\ Step
<1>1. /\ Bottom = bottom /\ Bottom' = bottom + 1 /\ bottom' = bottom + 1
      /\ UNCHANGED <<bounded, top, arrays, Current>> BY DEF Publish, Bottom, Popping, Current
<1>2. bottom - top < Current.C /\ Get(Current, bottom) = oitem /\ oitem \in Item
  BY DEF Publish, IInv, OwnerKnows
<1>3. Indexes' BY <1>1, <1>2, Facts DEF IInv, Indexes
<1>4. OwnerKnows' BY DEF Publish, OwnerKnows
<1>5. \A p \in Thieves : ThiefKnows(p)' BY <1>1, Facts, ThievesKept DEF Publish
<1>6. Step
  <2> DEFINE n == Bottom - top
  <2>1. n \in Nat /\ Bottom' - top' = n + 1 /\ top + n = bottom
    <3>1. bottom \in Int /\ top \in Nat /\ bottom - top \in Nat /\ n = bottom - top
      BY <1>1, Facts DEF IInv, Types
    <3> HIDE DEF n
    <3> QED BY <1>1, <3>1
  <2>2. Deque' = Append(Deque, oitem)
    <3> HIDE DEF n
    <3>1. Items(Current, top, n + 1) = Append(Items(Current, top, n), oitem)
      BY <1>2, <2>1, Facts, ItemsPush
    <3> QED BY <1>1, <2>1, <3>1, Facts DEF n
  <2>3. bounded => Len(Deque) < Size BY <1>1, <1>2, Facts DEF IInv, Indexes
  <2> QED BY <1>1, <1>2, <2>2, <2>3 DEF Publish, Step, D!DNext, D!DPush, Return, D!Return
<1> QED BY <1>3, <1>4, <1>5, <1>6 DEF Safe

LEMMA PopBeginStep == ASSUME IInv, PopBegin PROVE Safe' /\ Step
<1>1. Bottom = bottom /\ Bottom' = bottom /\ UNCHANGED <<bounded, top, arrays, Current>>
  <2>1. bottom \in Int BY DEF IInv, Types
  <2> QED BY <2>1 DEF PopBegin, Bottom, Popping, Current
<1>2. Indexes' BY <1>1 DEF IInv, Indexes
<1>3. OwnerKnows' BY DEF PopBegin, OwnerKnows
<1>4. \A p \in Thieves : ThiefKnows(p)' BY <1>1, Facts, ThievesKept DEF PopBegin
<1>5. Step BY <1>1, Facts DEF PopBegin, Step, D!dequeVars
<1> QED BY <1>2, <1>3, <1>4, <1>5 DEF Safe

\* The last of n items leaves at the owner's end.
LEMMA PopLast ==
    ASSUME IInv, Bottom > top, UNCHANGED <<bounded, Current>>,
           Return(Owner, Get(Current, Bottom - 1)),
           \/ top' = top /\ Bottom' = Bottom - 1
           \/ top' = top + 1 /\ Bottom' = Bottom /\ Bottom = top + 1
    PROVE  Step
<1> DEFINE n == Bottom - top
<1>1. /\ top \in Nat /\ Bottom \in Nat /\ Current \in Buffers /\ n \in Nat /\ n > 0
      /\ Deque = Items(Current, top, n) /\ Len(Deque) = n /\ Deque # <<>>
      /\ Deque' = Items(Current, top', Bottom' - top') BY Facts
<1>2. top + n - 1 = Bottom - 1 BY <1>1
<1> HIDE DEF n
<1>3. /\ Items(Current, top, n)[n] = Get(Current, top + n - 1)
      /\ Items(Current, top, n - 1) = SubSeq(Items(Current, top, n), 1, n - 1) BY <1>1, ItemsPop
<1>4. Deque[Len(Deque)] = Get(Current, Bottom - 1) BY <1>1, <1>2, <1>3
<1>5. Deque' = SubSeq(Deque, 1, Len(Deque) - 1)
  <2>1. CASE top' = top /\ Bottom' = Bottom - 1 BY <1>1, <1>3, <2>1 DEF n
  <2>2. CASE top' = top + 1 /\ Bottom' = Bottom /\ Bottom = top + 1
    <3>1. n = 1 /\ Bottom' - top' = 0 BY <1>1, <2>2 DEF n
    <3>2. /\ Items(Current, top + 1, 0) = <<>>
          /\ Items(Current, top, 0) = <<>>
      <4>1. \A t \in Nat : Items(Current, t, 0) = <<>> BY <1>1, ItemsFacts
      <4> QED BY <1>1, <4>1
    <3>3. Deque' = <<>> BY <1>1, <2>2, <3>1, <3>2
    <3>4. SubSeq(Items(Current, top, n), 1, n - 1) = <<>> BY <1>3, <3>1, <3>2
    <3> QED BY <1>1, <3>3, <3>4
  <2> QED BY <2>1, <2>2
<1> QED BY <1>1, <1>4, <1>5 DEF Step, D!DNext, D!DPop, Return, D!Return

\* An operation that returns nothing from an empty queue.
LEMMA PopNone ==
    ASSUME IInv, Deque = <<>>, UNCHANGED <<bounded, top, Bottom, Current>>, Return(Owner, Nothing)
    PROVE  Step
BY Facts DEF Step, D!DNext, D!DPop, Return, D!Return

LEMMA PopTopStep == ASSUME IInv, PopTop PROVE Safe' /\ Step
<1>1. Bottom = bottom + 1 /\ bottom \in Int /\ UNCHANGED <<bounded, top, bottom, arrays, Current>>
  BY DEF PopTop, Bottom, Popping, Current, IInv, Types
<1>2. CASE top < bottom /\ Return(Owner, Get(Current, bottom)) /\ opc' = "idle"
  <2>1. Bottom' = bottom /\ Bottom' = Bottom - 1 BY <1>1, <1>2 DEF Bottom, Popping
  <2>2. Indexes' BY <1>1, <1>2, <2>1, Facts DEF IInv, Indexes
  <2>3. OwnerKnows' BY <1>2 DEF OwnerKnows
  <2>4. \A p \in Thieves : ThiefKnows(p)' BY <1>1, <1>2, <2>1, Facts, ThievesKept DEF PopTop
  <2>5. Step
    <3>1. Bottom - 1 = bottom /\ Bottom > top BY <1>1, <1>2, Facts
    <3> QED BY <1>1, <1>2, <2>1, <3>1, PopLast
  <2> QED BY <2>2, <2>3, <2>4, <2>5 DEF Safe
<1>3. CASE ~(opc' = "idle")
  <2>1. opc' \in {"popswap", "restore"} BY <1>3 DEF PopTop
  <2>2. Bottom' = Bottom BY <1>1, <2>1 DEF Bottom, Popping
  <2>3. Indexes' BY <1>1, <2>2 DEF IInv, Indexes
  <2>4. OwnerKnows'
    <3>1. CASE opc' = "restore" BY <3>1 DEF OwnerKnows
    <3>2. CASE opc' = "popswap" BY <1>1, <3>2, Facts DEF PopTop, OwnerKnows
    <3> QED BY <2>1, <3>1, <3>2
  <2>5. \A p \in Thieves : ThiefKnows(p)' BY <1>1, <2>2, Facts, ThievesKept DEF PopTop
  <2>6. Step
    <3>1. CASE UNCHANGED out BY <1>1, <2>2, <3>1, Facts DEF Step, D!dequeVars
    <3>2. CASE top > bottom /\ Return(Owner, Nothing)
      <4>1. Deque = <<>> BY <1>1, <3>2, Facts
      <4> QED BY <1>1, <2>2, <3>2, <4>1, PopNone
    <3> QED BY <1>3, <3>1, <3>2 DEF PopTop
  <2> QED BY <2>3, <2>4, <2>5, <2>6 DEF Safe
<1> QED BY <1>2, <1>3 DEF PopTop

\* Once _top has moved on, nothing is known of the thieves and nothing is needed.
LEMMA ThievesBehind ==
    ASSUME IInv, top' = top + 1, UNCHANGED arrays,
           NEW p \in Thieves, UNCHANGED <<tpc[p], ttop[p], tarray[p], titem[p]>>
    PROVE  ThiefKnows(p)'
<1>1. ThiefKnows(p) /\ top \in Nat /\ ttop[p] \in Nat BY DEF IInv, Types
<1> QED BY <1>1 DEF ThiefKnows

LEMMA PopSwapStep == ASSUME IInv, PopSwap PROVE Safe' /\ Step
<1>1. /\ Bottom = bottom + 1 /\ Bottom' = Bottom /\ bottom \in Int /\ otop = bottom /\ otop <= top
      /\ UNCHANGED <<bounded, bottom, arrays, Current>>
  <2>1. opc = "popswap" /\ opc' = "restore" /\ UNCHANGED <<bounded, bottom, arrays>> BY DEF PopSwap
  <2>2. otop = bottom /\ otop <= top /\ bottom \in Int BY <2>1 DEF IInv, Types, OwnerKnows
  <2> QED BY <2>1, <2>2 DEF Bottom, Popping, Current
<1>2. OwnerKnows' BY DEF PopSwap, OwnerKnows
<1>3. CASE top = otop /\ top' = top + 1 /\ Return(Owner, Get(Current, bottom))
  <2>1. Indexes' BY <1>1, <1>3, Facts DEF IInv, Indexes
  <2>2. \A p \in Thieves : ThiefKnows(p)' BY <1>1, <1>3, ThievesBehind DEF PopSwap, thiefVars
  <2>3. Step
    <3>1. Bottom - 1 = bottom /\ Bottom = top + 1 /\ Bottom > top BY <1>1, <1>3
    <3> QED BY <1>1, <1>3, <3>1, PopLast
  <2> QED BY <1>2, <2>1, <2>2, <2>3 DEF Safe
<1>4. CASE top # otop /\ top' = top /\ Return(Owner, Nothing)
  <2>1. Indexes' BY <1>1, <1>4 DEF IInv, Indexes
  <2>2. \A p \in Thieves : ThiefKnows(p)' BY <1>1, <1>4, Facts, ThievesKept DEF PopSwap
  <2>3. Deque = <<>> BY <1>1, <1>4, Facts
  <2>4. Step BY <1>1, <1>4, <2>3, PopNone
  <2> QED BY <1>2, <2>1, <2>2, <2>4 DEF Safe
<1> QED BY <1>3, <1>4 DEF PopSwap

LEMMA RestoreStep == ASSUME IInv, Restore PROVE Safe' /\ Step
<1>1. Bottom' = Bottom /\ UNCHANGED <<bounded, top, arrays, Current>>
  BY DEF Restore, Bottom, Popping, Current
<1>2. Indexes' BY <1>1 DEF IInv, Indexes
<1>3. OwnerKnows' BY DEF Restore, OwnerKnows
<1>4. \A p \in Thieves : ThiefKnows(p)' BY <1>1, Facts, ThievesKept DEF Restore
<1>5. Step BY <1>1, Facts DEF Restore, Step, D!dequeVars
<1> QED BY <1>2, <1>3, <1>4, <1>5 DEF Safe

-----------------------------------------------------------------------------
(* The thieves' steps. *)

\* What holds after any step that moves none of the queue's own variables.
LEMMA QueueKept ==
    ASSUME IInv, UNCHANGED <<bounded, top, bottom, arrays, ownerVars>>
    PROVE  /\ Indexes' /\ OwnerKnows'
           /\ Bottom' = Bottom /\ Current' = Current /\ Deque' = Deque
<1>1. UNCHANGED <<bounded, top, bottom, arrays, opc, oitem, otop>> BY DEF ownerVars
<1>2. Bottom' = Bottom /\ Current' = Current BY <1>1 DEF Bottom, Popping, Current
<1>3. Indexes' BY <1>1, <1>2 DEF IInv, Indexes
<1>4. OwnerKnows' BY <1>1, <1>2 DEF IInv, OwnerKnows
<1> QED BY <1>1, <1>2, <1>3, <1>4, Facts

\* A thief's private step: the others know what they knew.
LEMMA ThiefAlone ==
    ASSUME IInv, NEW p \in Thieves, UNCHANGED <<bounded, top, bottom, arrays, ownerVars>>,
           \A q \in Thieves \ {p} : UNCHANGED <<tpc[q], ttop[q], tarray[q], titem[q]>>,
           ThiefKnows(p)'
    PROVE  Safe'
<1>1. Indexes' /\ OwnerKnows' /\ Bottom' = Bottom /\ Current' = Current BY QueueKept
<1>2. ASSUME NEW q \in Thieves, q # p PROVE ThiefKnows(q)'
  <2>1. ThiefKnows(q) /\ UNCHANGED <<tpc[q], ttop[q], tarray[q], titem[q], top, arrays>>
    BY <1>2 DEF IInv
  <2> QED BY <1>1, <2>1 DEF ThiefKnows
<1> QED BY <1>1, <1>2 DEF Safe

\* A steal that comes to nothing, for whatever reason, is allowed by the deque.
LEMMA StealNone ==
    ASSUME IInv, NEW p \in Thieves, Return(p, Nothing),
           UNCHANGED <<bounded, top, bottom, arrays, ownerVars>>
    PROVE  Step
BY QueueKept DEF Step, D!DNext, D!DSteal, Return, D!Return

LEMMA StealTopStep ==
    ASSUME IInv, NEW p \in Thieves, StealTop(p) \/ LookTop(p) PROVE Safe' /\ Step
<1>1. /\ UNCHANGED <<bounded, top, bottom, arrays, ownerVars, out>>
      /\ \A q \in Thieves \ {p} : UNCHANGED <<tpc[q], ttop[q], tarray[q], titem[q]>>
      /\ ttop'[p] = top /\ tpc'[p] \in {"bottom", "look"}
  BY DEF StealTop, LookTop, Advance, IInv, Types
<1>2. ThiefKnows(p)' BY <1>1, Facts DEF ThiefKnows
<1> QED BY <1>1, <1>2, ThiefAlone, QueueKept DEF Step, D!dequeVars

\* A thief that ends its operation knows nothing any more.
LEMMA ResetKnows ==
    ASSUME IInv, NEW p \in Thieves, Reset(p), UNCHANGED top
    PROVE  /\ ThiefKnows(p)'
           /\ \A q \in Thieves \ {p} : UNCHANGED <<tpc[q], ttop[q], tarray[q], titem[q]>>
<1>1. /\ tpc'[p] = "idle" /\ ttop'[p] = 0
      /\ \A q \in Thieves \ {p} : UNCHANGED <<tpc[q], ttop[q], tarray[q], titem[q]>>
  BY DEF Reset, IInv, Types
<1> QED BY <1>1, Facts DEF ThiefKnows

LEMMA StealBottomStep == ASSUME IInv, NEW p \in Thieves, StealBottom(p) PROVE Safe' /\ Step
<1>1. UNCHANGED <<bounded, top, bottom, arrays, ownerVars>> BY DEF StealBottom
<1>2. CASE ttop[p] < bottom /\ Advance(p, "array") /\ UNCHANGED <<ttop, tarray, titem, out>>
  <2>1. /\ \A q \in Thieves \ {p} : UNCHANGED <<tpc[q], ttop[q], tarray[q], titem[q]>>
        /\ ttop'[p] = ttop[p] /\ tpc'[p] = "array" BY <1>2 DEF Advance, IInv, Types
  <2>2. ttop[p] <= top /\ ttop[p] < Bottom'
    <3>1. ttop[p] <= top /\ ttop[p] \in Nat /\ bottom \in Int BY DEF IInv, ThiefKnows, Types
    <3>2. Bottom' = Bottom BY <1>1, QueueKept
    <3> QED BY <1>2, <3>1, <3>2 DEF Bottom
  <2>3. ThiefKnows(p)' BY <1>1, <2>1, <2>2 DEF ThiefKnows
  <2> QED BY <1>1, <1>2, <2>1, <2>3, ThiefAlone, QueueKept DEF Step, D!dequeVars
<1>3. CASE Return(p, Nothing) /\ Reset(p)
  <2>1. /\ ThiefKnows(p)'
        /\ \A q \in Thieves \ {p} : UNCHANGED <<tpc[q], ttop[q], tarray[q], titem[q]>>
    BY <1>1, <1>3, ResetKnows
  <2> QED BY <1>1, <1>3, <2>1, ThiefAlone, StealNone
<1> QED BY <1>2, <1>3 DEF StealBottom

LEMMA StealArrayStep == ASSUME IInv, NEW p \in Thieves, StealArray(p) PROVE Safe' /\ Step
<1>1. /\ UNCHANGED <<bounded, top, bottom, arrays, ownerVars, out>>
      /\ \A q \in Thieves \ {p} : UNCHANGED <<tpc[q], ttop[q], tarray[q], titem[q]>>
      /\ ttop'[p] = ttop[p] /\ tpc'[p] = "slot" /\ tarray'[p] = Len(arrays) /\ tpc[p] = "array"
  BY DEF StealArray, Advance, IInv, Types
<1>2. Bottom' = Bottom /\ Current' = Current /\ arrays'[tarray'[p]] = Current
  BY <1>1, QueueKept DEF Current
<1>3. ThiefKnows(p) /\ tarray'[p] \in 1 .. Len(arrays) BY <1>1, Facts DEF IInv
<1>4. ThiefKnows(p)' BY <1>1, <1>2, <1>3 DEF ThiefKnows
<1> QED BY <1>1, <1>4, ThiefAlone, QueueKept DEF Step, D!dequeVars

LEMMA StealSlotStep == ASSUME IInv, NEW p \in Thieves, StealSlot(p) PROVE Safe' /\ Step
<1>1. /\ UNCHANGED <<bounded, top, bottom, arrays, ownerVars, out>>
      /\ \A q \in Thieves \ {p} : UNCHANGED <<tpc[q], ttop[q], tarray[q], titem[q]>>
      /\ ttop'[p] = ttop[p] /\ tpc'[p] = "swap" /\ tpc[p] = "slot"
      /\ titem'[p] = Get(arrays[tarray[p]], ttop[p]) BY DEF StealSlot, Advance, IInv, Types
<1>2. Bottom' = Bottom /\ Current' = Current BY <1>1, QueueKept
<1>3. ThiefKnows(p) BY DEF IInv
<1>4. ThiefKnows(p)' BY <1>1, <1>2, <1>3 DEF ThiefKnows
<1> QED BY <1>1, <1>4, ThiefAlone, QueueKept DEF Step, D!dequeVars

LEMMA StealSwapStep == ASSUME IInv, NEW p \in Thieves, StealSwap(p) PROVE Safe' /\ Step
<1>1. /\ UNCHANGED <<bounded, bottom, arrays, ownerVars>> /\ Reset(p) /\ tpc[p] = "swap"
      /\ UNCHANGED <<opc, oitem, otop>> BY DEF StealSwap, ownerVars
<1>2. CASE top # ttop[p] /\ Return(p, Nothing) /\ UNCHANGED top
  <2>1. /\ ThiefKnows(p)'
        /\ \A q \in Thieves \ {p} : UNCHANGED <<tpc[q], ttop[q], tarray[q], titem[q]>>
    BY <1>1, <1>2, ResetKnows
  <2> QED BY <1>1, <1>2, <2>1, ThiefAlone, StealNone
<1>3. CASE top = ttop[p] /\ top' = top + 1 /\ Return(p, titem[p])
  <2>1. top < Bottom /\ titem[p] = Get(Current, top) BY <1>1, <1>3 DEF IInv, ThiefKnows
  <2>2. Bottom' = Bottom /\ Current' = Current BY <1>1 DEF Bottom, Popping, Current
  <2>3. Indexes' BY <1>1, <1>3, <2>1, <2>2, Facts DEF IInv, Indexes
  <2>4. OwnerKnows'
    <3>1. OwnerKnows /\ bottom \in Int /\ otop \in Nat /\ top \in Nat
          /\ Current.C \in Nat \ {0} BY Facts DEF IInv, Types
    <3> QED BY <1>1, <1>3, <2>2, <3>1 DEF OwnerKnows
  <2>5. ASSUME NEW q \in Thieves PROVE ThiefKnows(q)'
    <3>1. CASE q # p
      <4>1. UNCHANGED <<tpc[q], ttop[q], tarray[q], titem[q]>> BY <1>1, <3>1 DEF Reset, IInv, Types
      <4> QED BY <1>1, <1>3, <4>1, ThievesBehind
    <3>2. CASE q = p
      <4>1. tpc'[q] = "idle" /\ ttop'[q] = 0 BY <1>1, <3>2 DEF Reset, IInv, Types
      <4> QED BY <1>3, <4>1, Facts DEF ThiefKnows
    <3> QED BY <3>1, <3>2
  <2>6. Step
    <3> DEFINE n == Bottom - top
    <3>1. n \in Nat /\ n > 0 /\ Bottom' - top' = n - 1
      <4>1. Bottom \in Nat /\ top \in Nat BY Facts
      <4> QED BY <1>3, <2>1, <2>2, <4>1
    <3>2. /\ Deque = Items(Current, top, n) /\ Deque # <<>> /\ Current \in Buffers /\ top \in Nat
          /\ Deque' = Items(Current', top', Bottom' - top') BY <2>1, Facts
    <3> HIDE DEF n
    <3>3. /\ Head(Items(Current, top, n)) = Get(Current, top)
          /\ Items(Current, top + 1, n - 1) = Tail(Items(Current, top, n)) BY <3>1, <3>2, ItemsSteal
    <3>4. Head(Deque) = titem[p] /\ Deque' = Tail(Deque) BY <1>3, <2>1, <2>2, <3>1, <3>2, <3>3
    <3> QED BY <1>1, <1>3, <3>2, <3>4 DEF Step, D!DNext, D!DSteal, Return, D!Return
  <2> QED BY <2>3, <2>4, <2>5, <2>6 DEF Safe
<1> QED BY <1>2, <1>3 DEF StealSwap

LEMMA LookStep == ASSUME IInv, NEW p \in Thieves, Look(p) PROVE Safe' /\ Step
<1>1. UNCHANGED <<bounded, top, bottom, arrays, ownerVars, out>> /\ Reset(p) BY DEF Look
<1>2. /\ ThiefKnows(p)'
      /\ \A q \in Thieves \ {p} : UNCHANGED <<tpc[q], ttop[q], tarray[q], titem[q]>>
  BY <1>1, ResetKnows
<1> QED BY <1>1, <1>2, ThiefAlone, QueueKept DEF Step, D!dequeVars

-----------------------------------------------------------------------------
(* The specification. *)

LEMMA InitInv == ASSUME QueueAssumption, Init PROVE IInv /\ D!DInit
<1> DEFINE a == [C |-> Size, S |-> [i \in 0 .. Size - 1 |-> Nothing]]
<1>1. Size \in Nat \ {0} BY DEF QueueAssumption
<1>2. a \in Buffers /\ a.C = Size
  <2>1. a \in Array(Size) BY DEF Array
  <2> QED BY <1>1, <2>1 DEF Buffers
<1>3. arrays = <<a>> /\ Len(arrays) = 1 /\ arrays \in Seq(Buffers) /\ arrays[1] = a BY <1>2 DEF Init
<1> HIDE DEF a
<1>4. Types BY <1>3 DEF Init, Types, OwnerPC, ThiefPC, Slots
<1>5. Bottom = 0 /\ top = 0 /\ Current = a BY <1>3 DEF Init, Bottom, Popping, Current
<1>6. Indexes BY <1>1, <1>2, <1>5 DEF Indexes
<1>7. OwnerKnows /\ \A p \in Thieves : ThiefKnows(p) BY DEF Init, OwnerKnows, ThiefKnows
<1>8. IInv BY <1>4, <1>6, <1>7 DEF IInv
<1>9. Deque = <<>> BY <1>5, <1>8, Facts
<1> QED BY <1>8, <1>9 DEF Init, D!DInit

LEMMA NextInv == ASSUME IInv, Next PROVE IInv' /\ Step
<1>1. CASE OwnerNext
  <2>1. Types' BY <1>1, OwnerTypes
  <2>2. Safe' /\ Step BY <1>1, PushBeginStep, GrowStep, StoreStep, PublishStep,
       PopBeginStep, PopTopStep, PopSwapStep, RestoreStep DEF OwnerNext
  <2> QED BY <2>1, <2>2 DEF IInv, Safe
<1>2. ASSUME NEW p \in Thieves, ThiefNext(p) PROVE IInv' /\ Step
  <2>1. Types' BY <1>2, ThiefTypes
  <2>2. Safe' /\ Step
    BY <1>2, StealTopStep, StealBottomStep, StealArrayStep, StealSlotStep, StealSwapStep,
       LookStep DEF ThiefNext
  <2> QED BY <2>1, <2>2 DEF IInv, Safe
<1> QED BY <1>1, <1>2 DEF Next

LEMMA StepInv == ASSUME IInv, [Next]_vars PROVE IInv' /\ [D!DNext]_(D!dequeVars)
<1>1. CASE Next BY <1>1, NextInv DEF Step
<1>2. CASE UNCHANGED vars
  <2>1. UNCHANGED <<bounded, top, bottom, arrays, ownerVars, thiefVars, out>> BY <1>2 DEF vars
  <2>2. Indexes' /\ OwnerKnows' /\ Bottom' = Bottom /\ Current' = Current /\ Deque' = Deque
    BY <2>1, QueueKept
  <2>3. Types' BY <2>1 DEF IInv, Types, ownerVars, thiefVars
  <2>4. \A p \in Thieves : ThiefKnows(p)' BY <2>1, <2>2 DEF IInv, ThiefKnows, thiefVars
  <2> QED BY <2>1, <2>2, <2>3, <2>4 DEF IInv, D!dequeVars
<1> QED BY <1>1, <1>2

\* The queue of core/tsq.h, bounded or growing, with any number of thieves: every
\* operation takes effect in one step, as the abstract deque says.
THEOREM QueueImplementsDeque == QueueAssumption => (Spec => ImplementsTaskDeque)
<1> SUFFICES ASSUME QueueAssumption PROVE Spec => D!DSpec BY DEF ImplementsTaskDeque
<1>1. Init => IInv /\ D!DInit BY InitInv
<1>2. IInv /\ [Next]_vars => IInv' /\ [D!DNext]_(D!dequeVars) BY StepInv
<1> QED BY <1>1, <1>2, PTL DEF Spec, D!DSpec

\* What the calls return.
Returned == out \in [Thieves \cup {Owner} -> Item \cup {Nothing, Full}]

LEMMA ReturnedInit == Init => Returned
BY DEF Init, Returned

LEMMA ReturnedNext == ASSUME IInv, Returned, [Next]_vars PROVE Returned'
<1>1. ASSUME NEW p \in Thieves \cup {Owner}, NEW r \in Slots \cup {Full}, Return(p, r)
      PROVE  Returned' BY <1>1 DEF Returned, Return, Slots
<1>2. ASSUME UNCHANGED out PROVE Returned' BY <1>2 DEF Returned
<1>3. Owner \in Thieves \cup {Owner} /\ Nothing \in Slots \cup {Full} /\ Full \in Slots \cup {Full}
  BY DEF Slots
<1>4. ASSUME top <= bottom PROVE Get(Current, bottom) \in Slots \cup {Full}
  <2>1. bottom \in Nat BY <1>4, Facts DEF IInv, Types
  <2> QED BY <2>1, Facts, GetType
<1>5. CASE PushBegin BY <1>1, <1>2, <1>3, <1>5 DEF PushBegin
<1>6. CASE Publish BY <1>1, <1>3, <1>6 DEF Publish
<1>7. CASE PopTop
  <2>1. CASE top < bottom /\ Return(Owner, Get(Current, bottom))
    <3>1. top <= bottom BY <2>1, Facts DEF IInv, Types
    <3> QED BY <1>1, <1>3, <1>4, <2>1, <3>1
  <2>2. CASE UNCHANGED out BY <1>2, <2>2
  <2>3. CASE Return(Owner, Nothing) BY <1>1, <1>3, <2>3
  <2> QED BY <1>7, <2>1, <2>2, <2>3 DEF PopTop
<1>8. CASE PopSwap
  <2>1. CASE top = otop /\ Return(Owner, Get(Current, bottom))
    <3>1. otop = bottom BY <1>8 DEF PopSwap, IInv, OwnerKnows
    <3>2. top <= bottom BY <2>1, <3>1, Facts
    <3> QED BY <1>1, <1>3, <1>4, <2>1, <3>2
  <2>2. CASE Return(Owner, Nothing) BY <1>1, <1>3, <2>2
  <2> QED BY <1>8, <2>1, <2>2 DEF PopSwap
<1>9. CASE Grow \/ Store \/ PopBegin \/ Restore \/ UNCHANGED vars
  BY <1>2, <1>9 DEF Grow, Store, PopBegin, Restore, vars
<1>10. ASSUME NEW p \in Thieves, ThiefNext(p) PROVE Returned'
  <2>1. CASE StealBottom(p) BY <1>1, <1>2, <1>3, <2>1 DEF StealBottom
  <2>2. CASE StealSwap(p)
    <3>1. titem[p] \in Slots BY DEF IInv, Types
    <3> QED BY <1>1, <1>3, <2>2, <3>1 DEF StealSwap
  <2>3. CASE StealTop(p) \/ StealArray(p) \/ StealSlot(p) \/ LookTop(p) \/ Look(p)
    BY <1>2, <2>3 DEF StealTop, StealArray, StealSlot, LookTop, Look
  <2> QED BY <1>10, <2>1, <2>2, <2>3 DEF ThiefNext
<1> QED BY <1>5, <1>6, <1>7, <1>8, <1>9, <1>10 DEF Next, OwnerNext

LEMMA InvHonest == ASSUME IInv, Returned PROVE Consistent /\ EmptyIsHonest
<1>1. Bottom - top \in 0 .. Current.C BY Facts
<1>2. ASSUME opc = "store" PROVE Bottom - top < Current.C
  BY <1>2 DEF IInv, OwnerKnows, Bottom, Popping
<1>3. ASSUME NEW p \in Thieves, SeesEmpty(p), ~Popping PROVE Bottom <= top
  <2>1. bottom <= ttop[p] /\ ttop[p] <= top /\ bottom \in Int /\ ttop[p] \in Nat /\ top \in Nat
    BY <1>3 DEF SeesEmpty, IInv, ThiefKnows, Types
  <2> QED BY <1>3, <2>1 DEF Bottom
<1>4. ASSUME NEW k \in 1 .. Len(arrays)
      PROVE  arrays[k].C \in Nat \ {0} /\ arrays[k] \in Array(arrays[k].C)
  <2>1. arrays[k] \in Buffers BY Facts
  <2>2. PICK c \in Nat \ {0} : arrays[k] \in Array(c) BY <2>1 DEF Buffers
  <2>3. arrays[k].C = c BY <2>2 DEF Array
  <2> QED BY <2>2, <2>3
<1>5. TypeOK BY <1>4 DEF TypeOK, IInv, Types, Returned, Slots
<1> QED BY <1>1, <1>2, <1>3, <1>5 DEF Consistent, FitsBuffer, EmptyIsHonest

\* No index wraps onto a slot in use, the variables stay in their types, and no
\* worker is told that a queue is empty which is not, unless the owner is about to
\* look for work itself.
THEOREM QueueHonestAlways == QueueAssumption => (Spec => [](Consistent /\ EmptyIsHonest))
<1> SUFFICES ASSUME QueueAssumption PROVE Spec => [](Consistent /\ EmptyIsHonest) OBVIOUS
<1>1. Init => IInv /\ Returned BY InitInv, ReturnedInit
<1>2. IInv /\ Returned /\ [Next]_vars => IInv' /\ Returned' BY StepInv, ReturnedNext
<1>3. IInv /\ Returned => Consistent /\ EmptyIsHonest BY InvHonest
<1> QED BY <1>1, <1>2, <1>3, PTL DEF Spec

-----------------------------------------------------------------------------
(* The ring buffer *)

RingTypes ==
    /\ count \in [{"enqueue", "dequeue"} -> Nat]
    /\ cells \in [0 .. RingSize - 1 -> [sequence : Nat, data : Data]]
    /\ mpc \in [F!Users -> {"idle", "look", "reload", "claim", "move", "publish"}]
    /\ pos \in [F!Users -> Nat]
    /\ data \in [F!Users -> Data]
    /\ sent \in Seq(Data)

At(p) == cells[p % RingSize]

\* The counters: nobody is ahead of the one that it copied, and those that work have
\* a position of their own that was handed out.
Positions ==
    /\ Len(sent) = count["enqueue"]
    /\ \A t \in F!Users : pos[t] <= count[F!Side(t)]
    /\ \A t \in F!Users : F!Working(t) => pos[t] < count[F!Side(t)]
    /\ \A s, t \in F!Users : s # t /\ F!Working(s) /\ F!Working(t) /\ F!Side(s) = F!Side(t)
                              => pos[s] # pos[t]

\* Whose turn the number says it is, for those that work and for those that may still
\* win their compare-exchange.
Turns ==
    /\ \A t \in F!Users : F!Working(t) => At(pos[t]).sequence = F!Turn(t)
    /\ \A t \in F!Users : mpc[t] = "claim" /\ pos[t] = count[F!Side(t)]
                           => At(pos[t]).sequence = F!Turn(t)

\* What the number says of the counters.
Numbered ==
    \A p \in Nat : /\ At(p).sequence = p + 1 => p < count["enqueue"]
                   /\ At(p).sequence = p => p < count["dequeue"] + RingSize

\* Where the items are.
Stored ==
    /\ \A p \in Nat : At(p).sequence = p + 1 => At(p).data = sent[p + 1]
    /\ \A t \in Producers : F!Working(t) => data[t] = sent[pos[t] + 1]
    /\ \A t \in Producers : mpc[t] = "publish" => At(pos[t]).data = sent[pos[t] + 1]
    /\ \A t \in Consumers : mpc[t] = "publish" => data[t] = sent[pos[t] + 1]

Bounded ==
    count["dequeue"] <= count["enqueue"] /\ count["enqueue"] <= count["dequeue"] + RingSize

RingInv == RingTypes /\ Positions /\ Turns /\ Numbered /\ Stored /\ Bounded

-----------------------------------------------------------------------------
(* Arithmetic: cells of neighbouring positions differ.                        *)

\* The size as the provers need it.
LEMMA RingSizeType == RingSize \in Nat /\ RingSize >= 2
BY QueuesAssumption DEF F!MPMCAssumption

\* A cell's index is in the buffer, and not above the position.
LEMMA ModRange ==
    ASSUME NEW p \in Nat
    PROVE  p % RingSize \in 0 .. RingSize - 1 /\ p % RingSize <= p
<1>1. p = RingSize * (p \div RingSize) + (p % RingSize) /\ p \div RingSize \in Int
      /\ p % RingSize \in 0 .. RingSize - 1 BY RingSizeType, SMT
<1>2. p \div RingSize >= 0 BY RingSizeType, SMT
<1>3. RingSize * (p \div RingSize) >= 0 BY <1>1, <1>2, RingSizeType, SMT
<1> QED BY <1>1, <1>3, RingSizeType, SMT

\* Two positions in one cell differ by a multiple of the size.
LEMMA ModSame ==
    ASSUME NEW p \in Nat, NEW q \in Nat, p % RingSize = q % RingSize
    PROVE  \E k \in Int : p = q + k * RingSize
<1> DEFINE a == p \div RingSize  b == q \div RingSize
<1>1. p = RingSize * a + (p % RingSize) /\ a \in Int /\ p % RingSize \in Int BY RingSizeType, SMT
<1>2. q = RingSize * b + (q % RingSize) /\ b \in Int BY RingSizeType, SMT
<1>3. a - b \in Int BY <1>1, <1>2
<1>4. p = q + (a - b) * RingSize
  <2> HIDE DEF a, b
  <2> QED  BY <1>1, <1>2, RingSizeType, SMT
<1> QED BY <1>3, <1>4

\* No multiple of the size is one.
LEMMA NoUnit ==
    ASSUME NEW k \in Int
    PROVE  k * RingSize # 1
<1>1. CASE k >= 1 BY <1>1, RingSizeType, SMT
<1>2. CASE k <= 0 BY <1>2, RingSizeType, SMT
<1> QED BY <1>1, <1>2

LEMMA ModSucc ==
    ASSUME NEW p \in Nat
    PROVE  p % RingSize # (p + 1) % RingSize
<1> SUFFICES ASSUME p % RingSize = (p + 1) % RingSize PROVE FALSE OBVIOUS
<1>1. p + 1 \in Nat OBVIOUS
<1>2. PICK k \in Int : p + 1 = p + k * RingSize BY <1>1, ModSame
<1>3. k * RingSize = 1 BY <1>2, RingSizeType, SMT
<1> QED BY <1>3, NoUnit

LEMMA ModRound ==
    ASSUME NEW p \in Nat, NEW q \in Nat, p + RingSize = q + 1
    PROVE  p % RingSize # q % RingSize
<1> SUFFICES ASSUME p % RingSize = q % RingSize PROVE FALSE OBVIOUS
<1>1. PICK k \in Int : p = q + k * RingSize BY ModSame
<1>2. (k + 1) * RingSize = 1 /\ k + 1 \in Int BY <1>1, RingSizeType, SMT
<1> QED BY <1>2, NoUnit

-----------------------------------------------------------------------------
(* Nobody works on the cell of another one. *)

\* Where the sequence numbers that two threads wait for are equal and one of them is
\* a producer, the other a consumer, the cells differ.
LEMMA SidesApart ==
    ASSUME RingTypes, NEW s \in F!Users, NEW t \in F!Users, F!Side(s) # F!Side(t), F!Turn(s) = F!Turn(t)
    PROVE  F!Cell(s) # F!Cell(t)
<1>1. pos[s] \in Nat /\ pos[t] \in Nat BY DEF RingTypes
<1>2. CASE s \in Producers /\ t \notin Producers
  <2>1. pos[s] = pos[t] + 1 BY <1>2 DEF F!Turn
  <2> QED BY <1>1, <2>1, ModSucc DEF F!Cell
<1>3. CASE t \in Producers /\ s \notin Producers
  <2>1. pos[t] = pos[s] + 1 BY <1>3 DEF F!Turn
  <2> QED BY <1>1, <2>1, ModSucc DEF F!Cell
<1> QED BY <1>2, <1>3 DEF F!Side

\* Threads that work have cells of their own.
LEMMA Alone ==
    ASSUME RingTypes, Positions, Turns, NEW s \in F!Users, NEW t \in F!Users, s # t,
           F!Working(s), F!Working(t)
    PROVE  F!Cell(s) # F!Cell(t)
<1> SUFFICES ASSUME F!Cell(s) = F!Cell(t) PROVE FALSE OBVIOUS
<1>1. F!Turn(s) = F!Turn(t) BY DEF Turns, At, F!Cell
<1>2. F!Side(s) = F!Side(t) BY <1>1, SidesApart
<1>3. pos[s] = pos[t] BY <1>1, <1>2 DEF F!Turn, F!Side, RingTypes
<1> QED BY <1>2, <1>3 DEF Positions

\* A thread whose compare-exchange will succeed has a cell nobody works on.
LEMMA ClaimAlone ==
    ASSUME RingTypes, Positions, Turns, NEW s \in F!Users, NEW t \in F!Users, s # t,
           F!Working(s), mpc[t] = "claim", pos[t] = count[F!Side(t)]
    PROVE  F!Cell(s) # F!Cell(t)
<1> SUFFICES ASSUME F!Cell(s) = F!Cell(t) PROVE FALSE OBVIOUS
<1>1. F!Turn(s) = F!Turn(t) BY DEF Turns, At, F!Cell
<1>2. F!Side(s) = F!Side(t) BY <1>1, SidesApart
<1>3. pos[s] = pos[t] BY <1>1, <1>2 DEF F!Turn, F!Side, RingTypes
<1>4. pos[s] < count[F!Side(s)] /\ pos[s] \in Nat BY DEF Positions, RingTypes
<1> QED BY <1>2, <1>3, <1>4

-----------------------------------------------------------------------------
(* The invariant. *)

LEMMA RingInit == F!Init => RingInv
<1> SUFFICES ASSUME F!Init PROVE RingInv OBVIOUS
<1>1. RingTypes
  <2>1. (CHOOSE x \in Data : TRUE) \in Data BY QueuesAssumption DEF F!MPMCAssumption
  <2> QED BY <2>1, RingSizeType DEF F!Init, RingTypes
<1>2. \A p \in Nat : At(p).sequence = p % RingSize /\ p % RingSize \in 0 .. RingSize - 1 /\ p % RingSize <= p
  BY ModRange DEF F!Init, At
<1>3. Positions BY DEF F!Init, Positions, F!Working, F!Side
<1>4. Turns BY DEF F!Init, Turns, F!Working
<1>5. Numbered
  <2> SUFFICES ASSUME NEW p \in Nat
               PROVE  /\ At(p).sequence = p + 1 => p < count["enqueue"]
                      /\ At(p).sequence = p => p < count["dequeue"] + RingSize BY DEF Numbered
  <2>1. p % RingSize # p + 1 /\ (p % RingSize = p => p < RingSize) BY <1>2, RingSizeType
  <2>2. count["dequeue"] = 0 BY DEF F!Init
  <2> QED BY <1>2, <2>1, <2>2, RingSizeType
<1>6. Stored
  <2>1. ASSUME NEW p \in Nat PROVE At(p).sequence # p + 1 BY <1>2
  <2> QED BY <2>1 DEF Stored, F!Init, F!Working, F!Users
<1>7. Bounded BY RingSizeType DEF F!Init, Bounded
<1> QED BY <1>1, <1>3, <1>4, <1>5, <1>6, <1>7 DEF RingInv

\* A position's cell is in the buffer.
LEMMA CellInBuffer ==
    ASSUME RingTypes, NEW t \in F!Users
    PROVE  F!Cell(t) \in 0 .. RingSize - 1 /\ pos[t] \in Nat /\ At(pos[t]) = cells[F!Cell(t)]
BY ModRange DEF RingTypes, F!Cell, At

LEMMA RingTypesNext == ASSUME RingTypes, F!Next PROVE RingTypes'
<1> PICK t \in F!Users : F!Call(t) \/ F!Look(t) \/ F!Reload(t) \/ F!Claim(t) \/ F!Move(t) \/ F!Publish(t)
  BY DEF F!Next
<1>1. F!Side(t) \in {"enqueue", "dequeue"} /\ F!Cell(t) \in 0 .. RingSize - 1 /\ pos[t] \in Nat
  BY CellInBuffer DEF F!Side
<1>2. CASE F!Call(t) BY <1>1, <1>2 DEF F!Call, RingTypes, F!LoadCounter, F!Goto
<1>3. CASE F!Look(t) BY <1>1, <1>3 DEF F!Look, RingTypes, F!Goto
<1>4. CASE F!Reload(t) BY <1>1, <1>4 DEF F!Reload, RingTypes, F!LoadCounter, F!Goto
<1>5. CASE F!Claim(t)
  <2>1. CASE /\ count' = [count EXCEPT ![F!Side(t)] = pos[t] + 1]
             /\ sent' = IF t \in Producers THEN Append(sent, data[t]) ELSE sent
             /\ F!Goto(t, "move")
             /\ UNCHANGED pos BY <1>1, <1>5, <2>1 DEF F!Claim, RingTypes, F!Goto
  <2>2. CASE F!LoadCounter(t) /\ F!Goto(t, "look") /\ UNCHANGED <<count, sent>>
    BY <1>1, <1>5, <2>2 DEF F!Claim, RingTypes, F!LoadCounter, F!Goto
  <2> QED BY <1>5, <2>1, <2>2 DEF F!Claim
<1>6. CASE F!Move(t)
  <2>1. CASE t \in Producers
    <3>1. cells' = [cells EXCEPT ![F!Cell(t)].data = data[t]] BY <1>6, <2>1 DEF F!Move
    <3>2. cells' \in [0 .. RingSize - 1 -> [sequence : Nat, data : Data]]
      BY <1>1, <3>1 DEF RingTypes
    <3> QED BY <1>1, <1>6, <2>1, <3>2 DEF F!Move, RingTypes, F!Goto
  <2>2. CASE t \notin Producers BY <1>1, <1>6, <2>2 DEF F!Move, RingTypes, F!Goto
  <2> QED BY <2>1, <2>2
<1>7. CASE F!Publish(t)
  <2>1. F!Release(t) \in Nat BY <1>1, RingSizeType DEF F!Release
  <2>2. cells' \in [0 .. RingSize - 1 -> [sequence : Nat, data : Data]]
    BY <1>1, <1>7, <2>1 DEF F!Publish, RingTypes
  <2> QED BY <1>1, <1>7, <2>2 DEF F!Publish, RingTypes, F!Goto
<1> QED BY <1>2, <1>3, <1>4, <1>5, <1>6, <1>7

-----------------------------------------------------------------------------
(* The four kinds of steps: those that only look, and those after which the   *)
(* counter, the data or the number of a cell are others.                      *)

Quiet(t) ==
    /\ UNCHANGED <<count, cells, sent>>
    /\ ~F!Working(t)
    /\ mpc'[t] \notin {"move", "publish"}
    /\ pos'[t] \in {pos[t], count[F!Side(t)]}
    /\ mpc'[t] = "claim" => pos'[t] = pos[t] /\ At(pos[t]).sequence = F!Turn(t)
    /\ \A s \in F!Users \ {t} : mpc'[s] = mpc[s] /\ pos'[s] = pos[s] /\ data'[s] = data[s]

Wins(t) ==
    /\ mpc[t] = "claim" /\ count[F!Side(t)] = pos[t]
    /\ count' = [count EXCEPT ![F!Side(t)] = pos[t] + 1]
    /\ sent' = IF t \in Producers THEN Append(sent, data[t]) ELSE sent
    /\ mpc' = [mpc EXCEPT ![t] = "move"]
    /\ UNCHANGED <<cells, pos, data>>

LEMMA StepKinds ==
    ASSUME RingTypes, F!Next
    PROVE  \E t \in F!Users : Quiet(t) \/ Wins(t) \/ F!Move(t) \/ F!Publish(t)
<1> PICK t \in F!Users : F!Call(t) \/ F!Look(t) \/ F!Reload(t) \/ F!Claim(t) \/ F!Move(t) \/ F!Publish(t)
  BY DEF F!Next
<1>1. CASE F!Call(t)
  <2>1. Quiet(t) BY <1>1 DEF F!Call, Quiet, RingTypes, F!LoadCounter, F!Goto, F!Working
  <2> QED BY <2>1
<1>2. CASE F!Look(t)
  <2>1. mpc'[t] \in {"claim", "idle", "reload"} BY <1>2 DEF F!Look, F!Goto, RingTypes
  <2>2. mpc'[t] = "claim" => At(pos[t]).sequence = F!Turn(t)
    BY <1>2 DEF F!Look, F!Goto, RingTypes, At, F!Cell
  <2>3. \A s \in F!Users \ {t} : mpc'[s] = mpc[s] BY <1>2 DEF F!Look, F!Goto, RingTypes
  <2>4. Quiet(t) BY <1>2, <2>1, <2>2, <2>3 DEF F!Look, Quiet, F!Working
  <2> QED BY <2>4
<1>3. CASE F!Reload(t)
  <2>1. Quiet(t) BY <1>3 DEF F!Reload, Quiet, RingTypes, F!LoadCounter, F!Goto, F!Working
  <2> QED BY <2>1
<1>4. CASE F!Claim(t)
  <2>1. CASE F!LoadCounter(t) /\ F!Goto(t, "look") /\ UNCHANGED <<count, sent>>
    <3>1. Quiet(t) BY <1>4, <2>1 DEF F!Claim, Quiet, RingTypes, F!LoadCounter, F!Goto, F!Working
    <3> QED BY <3>1
  <2>2. CASE /\ F!Claimed(t)
             /\ count' = [count EXCEPT ![F!Side(t)] = pos[t] + 1]
             /\ sent' = IF t \in Producers THEN Append(sent, data[t]) ELSE sent
             /\ F!Goto(t, "move")
             /\ UNCHANGED pos
    <3>1. Wins(t) BY <1>4, <2>2 DEF F!Claim, F!Claimed, Wins, F!Goto
    <3> QED BY <3>1
  <2> QED BY <1>4, <2>1, <2>2 DEF F!Claim
<1>5. CASE F!Move(t) \/ F!Publish(t) BY <1>5
<1> QED BY <1>1, <1>2, <1>3, <1>4, <1>5

\* What storing or taking an item changes: the data of one cell, or of one thread.
LEMMA MoveFacts ==
    ASSUME RingTypes, NEW t \in F!Users, F!Move(t)
    PROVE  /\ mpc' = [mpc EXCEPT ![t] = "publish"]
           /\ \A i \in 0 .. RingSize - 1 : cells'[i].sequence = cells[i].sequence
           /\ \A i \in 0 .. RingSize - 1 : i # F!Cell(t) \/ t \notin Producers => cells'[i] = cells[i]
           /\ t \in Producers => cells'[F!Cell(t)].data = data[t] /\ data' = data
           /\ t \notin Producers => data' = [data EXCEPT ![t] = cells[F!Cell(t)].data]
<1>1. F!Cell(t) \in 0 .. RingSize - 1 BY CellInBuffer
<1>2. CASE t \in Producers
  <2>1. cells' = [cells EXCEPT ![F!Cell(t)].data = data[t]] /\ data' = data BY <1>2 DEF F!Move
  <2> QED BY <1>1, <1>2, <2>1 DEF F!Move, RingTypes, F!Goto
<1>3. CASE t \notin Producers BY <1>1, <1>3 DEF F!Move, RingTypes, F!Goto
<1> QED BY <1>2, <1>3

\* What publishing changes: the number of one cell.
LEMMA PublishFacts ==
    ASSUME RingTypes, NEW t \in F!Users, F!Publish(t)
    PROVE  /\ mpc' = [mpc EXCEPT ![t] = "idle"]
           /\ cells'[F!Cell(t)].sequence = F!Release(t)
           /\ cells'[F!Cell(t)].data = cells[F!Cell(t)].data
           /\ \A i \in 0 .. RingSize - 1 : i # F!Cell(t) => cells'[i] = cells[i]
<1>1. F!Cell(t) \in 0 .. RingSize - 1 BY CellInBuffer
<1> QED BY <1>1 DEF F!Publish, RingTypes, F!Goto

-----------------------------------------------------------------------------
\* As long as the counters stay and nobody begins to work, the positions stay exact.
LEMMA PositionsKept ==
    ASSUME RingTypes, Positions, UNCHANGED <<count, sent>>,
           \A s \in F!Users : pos'[s] <= count[F!Side(s)],
           \A s \in F!Users : F!Working(s)' => F!Working(s) /\ pos'[s] = pos[s]
    PROVE  Positions'
<1>1. \A s \in F!Users : F!Working(s)' => pos'[s] < count[F!Side(s)] BY DEF Positions
<1>2. \A r, s \in F!Users : r # s /\ F!Working(r)' /\ F!Working(s)' /\ F!Side(r) = F!Side(s)
                             => pos'[r] # pos'[s] BY DEF Positions
<1> QED BY <1>1, <1>2 DEF Positions, F!Side

LEMMA PositionsNext ==
    ASSUME RingTypes, Positions, F!Next PROVE Positions'
<1> PICK t \in F!Users : Quiet(t) \/ Wins(t) \/ F!Move(t) \/ F!Publish(t) BY StepKinds
<1>1. CASE Quiet(t)
  <2>1. \A s \in F!Users : pos[s] <= count[F!Side(s)] /\ count[F!Side(s)] \in Nat
    BY DEF Positions, RingTypes, F!Side
  <2>2. \A s \in F!Users : pos'[s] <= count[F!Side(s)] BY <1>1, <2>1 DEF Quiet
  <2>3. \A s \in F!Users : F!Working(s)' => F!Working(s) /\ pos'[s] = pos[s]
    BY <1>1 DEF Quiet, F!Working
  <2> QED BY <1>1, <2>2, <2>3, PositionsKept DEF Quiet
<1>2. CASE Wins(t)
  <2>1. pos' = pos /\ pos \in [F!Users -> Nat] /\ F!Side(t) \in {"enqueue", "dequeue"}
    BY <1>2 DEF Wins, RingTypes, F!Side
  <2>2. /\ count'[F!Side(t)] = count[F!Side(t)] + 1
        /\ \A s \in F!Users : F!Side(s) # F!Side(t) => count'[F!Side(s)] = count[F!Side(s)]
    BY <1>2, <2>1 DEF Wins, RingTypes, F!Side
  <2>3. mpc'[t] = "move" /\ \A s \in F!Users : s # t => mpc'[s] = mpc[s] BY <1>2 DEF Wins, RingTypes
  <2>4. \A s \in F!Users : s # t => (F!Working(s)' <=> F!Working(s)) BY <2>3 DEF F!Working
  <2>5. Len(sent') = count'["enqueue"]
    <3>1. CASE t \in Producers BY <1>2, <2>2, <3>1 DEF Wins, Positions, RingTypes, F!Side
    <3>2. CASE t \notin Producers BY <1>2, <3>2 DEF Wins, Positions, RingTypes, F!Side
    <3> QED BY <3>1, <3>2
  <2>6. \A s \in F!Users : pos'[s] <= count'[F!Side(s)]
    BY <2>1, <2>2 DEF Positions, RingTypes, F!Side
  <2>7. \A s \in F!Users : F!Working(s)' => pos'[s] < count'[F!Side(s)]
    BY <1>2, <2>1, <2>2, <2>4 DEF Positions, RingTypes, F!Side, Wins
  <2>8. \A r, s \in F!Users : r # s /\ F!Working(r)' /\ F!Working(s)' /\ F!Side(r) = F!Side(s)
                               => pos'[r] # pos'[s]
    BY <1>2, <2>1, <2>4 DEF Positions, RingTypes, Wins
  <2> QED BY <2>5, <2>6, <2>7, <2>8 DEF Positions, F!Side
<1>3. CASE F!Move(t)
  <2>1. UNCHANGED <<count, pos, sent>> /\ mpc' = [mpc EXCEPT ![t] = "publish"] /\ F!Working(t)
    BY <1>3, MoveFacts DEF F!Move, F!Working
  <2>2. \A s \in F!Users : F!Working(s)' => F!Working(s) BY <2>1 DEF F!Working, RingTypes
  <2> QED BY <2>1, <2>2, PositionsKept DEF Positions
<1>4. CASE F!Publish(t)
  <2>1. UNCHANGED <<count, pos, sent>> /\ mpc' = [mpc EXCEPT ![t] = "idle"]
    BY <1>4, PublishFacts DEF F!Publish
  <2>2. \A s \in F!Users : F!Working(s)' => F!Working(s) BY <2>1 DEF F!Working, RingTypes
  <2> QED BY <2>1, <2>2, PositionsKept DEF Positions
<1> QED BY <1>1, <1>2, <1>3, <1>4

LEMMA TurnsNext ==
    ASSUME RingTypes, Positions, Turns, F!Next PROVE Turns'
<1> PICK t \in F!Users : Quiet(t) \/ Wins(t) \/ F!Move(t) \/ F!Publish(t) BY StepKinds
<1>1. CASE Quiet(t) BY <1>1 DEF Quiet, Turns, F!Working, At, F!Turn, F!Side
<1>2. CASE Wins(t)
  <2>1. /\ UNCHANGED <<cells, pos>>
        /\ mpc'[t] = "move" /\ \A s \in F!Users : s # t => mpc'[s] = mpc[s]
    BY <1>2 DEF Wins, RingTypes
  <2>2. ASSUME NEW s \in F!Users, mpc'[s] = "claim", pos[s] = count'[F!Side(s)]
        PROVE  pos[s] = count[F!Side(s)] BY <1>2, <2>2 DEF Wins, Positions, RingTypes, F!Side
  <2> QED BY <1>2, <2>1, <2>2 DEF Turns, F!Working, At, F!Turn, F!Side, Wins
<1>3. CASE F!Move(t)
  <2>1. /\ UNCHANGED <<count, pos>>
        /\ mpc' = [mpc EXCEPT ![t] = "publish"]
        /\ \A s \in F!Users : At(pos[s])'.sequence = At(pos[s]).sequence
    BY <1>3, MoveFacts, CellInBuffer DEF F!Move, At, F!Cell
  <2> QED BY <1>3, <2>1 DEF Turns, F!Working, F!Turn, F!Side, RingTypes, F!Move, At
<1>4. CASE F!Publish(t)
  <2>1. UNCHANGED <<count, pos>> /\ mpc' = [mpc EXCEPT ![t] = "idle"] /\ F!Working(t)
    BY <1>4, PublishFacts DEF F!Publish, F!Working
  <2>2. \A s \in F!Users : F!Cell(s) # F!Cell(t) => At(pos[s])' = At(pos[s])
    BY <1>4, <2>1, PublishFacts, CellInBuffer DEF At, F!Cell
  <2>3. \A s \in F!Users : s # t /\ F!Working(s) => F!Cell(s) # F!Cell(t) BY <2>1, Alone
  <2>4. \A s \in F!Users : s # t /\ mpc[s] = "claim" /\ pos[s] = count[F!Side(s)]
                            => F!Cell(s) # F!Cell(t) BY <2>1, ClaimAlone
  <2> QED BY <2>1, <2>2, <2>3, <2>4 DEF Turns, F!Working, F!Turn, F!Side, RingTypes, At
<1> QED BY <1>1, <1>2, <1>3, <1>4

LEMMA NumberedNext ==
    ASSUME RingTypes, Positions, Numbered, F!Next PROVE Numbered'
<1> PICK t \in F!Users : Quiet(t) \/ Wins(t) \/ F!Move(t) \/ F!Publish(t) BY StepKinds
<1> SUFFICES ASSUME NEW p \in Nat
             PROVE  /\ At(p)'.sequence = p + 1 => p < count'["enqueue"]
                    /\ At(p)'.sequence = p => p < count'["dequeue"] + RingSize BY DEF Numbered, At
<1>1. /\ At(p).sequence = p + 1 => p < count["enqueue"]
      /\ At(p).sequence = p => p < count["dequeue"] + RingSize
      /\ count["enqueue"] \in Nat /\ count["dequeue"] \in Nat BY DEF Numbered, RingTypes
<1>2. p % RingSize \in 0 .. RingSize - 1 BY ModRange
<1>3. CASE Quiet(t) BY <1>1, <1>3 DEF Quiet, At
<1>4. CASE Wins(t)
  <2>1. At(p)' = At(p) BY <1>4 DEF Wins, At
  <2>2. count'["enqueue"] >= count["enqueue"] /\ count'["dequeue"] >= count["dequeue"]
        /\ count'["enqueue"] \in Nat /\ count'["dequeue"] \in Nat
    BY <1>4 DEF Wins, RingTypes, F!Side
  <2> QED BY <1>1, <2>1, <2>2, RingSizeType
<1>5. CASE F!Move(t)
  <2>1. At(p)'.sequence = At(p).sequence /\ count' = count BY <1>2, <1>5, MoveFacts DEF F!Move, At
  <2> QED BY <1>1, <2>1
<1>6. CASE F!Publish(t)
  <2>1. count' = count BY <1>6 DEF F!Publish
  <2>2. CASE p % RingSize # F!Cell(t) BY <1>1, <1>2, <1>6, <2>1, <2>2, PublishFacts DEF At
  <2>3. CASE p % RingSize = F!Cell(t)
    <3>1. At(p)'.sequence = F!Release(t) BY <1>6, <2>3, PublishFacts DEF At
    <3>2. pos[t] \in Nat /\ pos[t] < count[F!Side(t)]
      BY <1>6 DEF Positions, RingTypes, F!Publish, F!Working
    <3>3. CASE t \in Producers
      <4>1. F!Release(t) = pos[t] + 1 /\ F!Side(t) = "enqueue" BY <3>3 DEF F!Release, F!Side
      <4>2. p # pos[t] + 1 BY <2>3, <3>2, ModSucc DEF F!Cell
      <4> QED BY <2>1, <3>1, <3>2, <4>1, <4>2
    <3>4. CASE t \notin Producers
      <4>1. F!Release(t) = pos[t] + RingSize /\ F!Side(t) = "dequeue" BY <3>4 DEF F!Release, F!Side
      <4>2. pos[t] + RingSize # p + 1 BY <2>3, <3>2, ModRound DEF F!Cell
      <4> QED BY <1>1, <2>1, <3>1, <3>2, <4>1, <4>2, RingSizeType
    <3> QED BY <3>3, <3>4
  <2> QED BY <2>2, <2>3
<1> QED BY <1>3, <1>4, <1>5, <1>6

\* The item at a position that was handed out stays what it is.
LEMMA SentStays ==
    ASSUME RingTypes, NEW t \in F!Users, Wins(t), NEW p \in Nat, p < Len(sent)
    PROVE  sent'[p + 1] = sent[p + 1]
<1>1. sent' = sent \/ \E d \in Data : sent' = Append(sent, d) BY DEF Wins, RingTypes
<1> QED BY <1>1 DEF RingTypes

LEMMA StoredNext ==
    ASSUME RingTypes, Positions, Turns, Numbered, Stored, Bounded, F!Next PROVE Stored'
<1> PICK t \in F!Users : Quiet(t) \/ Wins(t) \/ F!Move(t) \/ F!Publish(t) BY StepKinds
<1>1. F!Cell(t) \in 0 .. RingSize - 1 /\ pos[t] \in Nat /\ Producers \cap Consumers = {}
      /\ F!Users = Producers \cup Consumers
  BY CellInBuffer, QueuesAssumption DEF F!Users, F!MPMCAssumption
<1>2. CASE Quiet(t) BY <1>1, <1>2 DEF Quiet, Stored, F!Working, At
<1>3. CASE Wins(t)
  <2>1. /\ UNCHANGED <<cells, pos, data>>
        /\ mpc'[t] = "move" /\ \A s \in F!Users : s # t => mpc'[s] = mpc[s]
    BY <1>3 DEF Wins, RingTypes
  <2>2. ASSUME NEW p \in Nat, At(p)'.sequence = p + 1 PROVE At(p)'.data = sent'[p + 1]
    <3>1. At(p)' = At(p) BY <2>1 DEF At
    <3>2. p < Len(sent) /\ At(p).data = sent[p + 1] BY <2>2, <3>1 DEF Numbered, Positions, Stored
    <3> QED BY <1>3, <3>1, <3>2, SentStays
  <2>3. ASSUME NEW s \in F!Users, s # t, F!Working(s) PROVE sent'[pos[s] + 1] = sent[pos[s] + 1]
    <3>1. pos[s] < Len(sent) /\ pos[s] \in Nat BY <2>3 DEF Positions, RingTypes, Bounded, F!Side
    <3> QED BY <1>3, <3>1, SentStays
  <2>4. t \in Producers => data[t] = sent'[pos[t] + 1]
    BY <1>1, <1>3 DEF Wins, Positions, RingTypes, F!Side
  <2>5. \A s \in Producers : F!Working(s)' => data'[s] = sent'[pos'[s] + 1]
    BY <1>1, <2>1, <2>3, <2>4 DEF Stored, F!Working
  <2>6. \A s \in Producers : mpc'[s] = "publish" => At(pos[s])'.data = sent'[pos'[s] + 1]
    BY <1>1, <2>1, <2>3 DEF Stored, F!Working, At
  <2>7. \A s \in Consumers : mpc'[s] = "publish" => data'[s] = sent'[pos'[s] + 1]
    BY <1>1, <2>1, <2>3 DEF Stored, F!Working
  <2> QED BY <2>2, <2>5, <2>6, <2>7 DEF Stored, At
<1>4. CASE F!Move(t)
  <2>1. UNCHANGED <<pos, sent>> /\ F!Working(t)
        /\ mpc'[t] = "publish" /\ \A s \in F!Users : s # t => mpc'[s] = mpc[s]
    BY <1>4, MoveFacts DEF F!Move, RingTypes, F!Working
  <2>2. At(pos[t]).sequence = F!Turn(t) BY <2>1 DEF Turns
  <2>3. CASE t \in Producers
    <3>1. data' = data /\ data[t] = sent[pos[t] + 1] BY <1>4, <2>1, <2>3, MoveFacts DEF Stored
    <3>2. ASSUME NEW p \in Nat, At(p)'.sequence = p + 1 PROVE At(p)'.data = sent[p + 1]
      <4>1. p % RingSize \in 0 .. RingSize - 1 /\ At(p).sequence = p + 1
        BY <1>4, <3>2, ModRange, MoveFacts DEF At
      <4>2. p % RingSize # F!Cell(t)
        <5> SUFFICES ASSUME p % RingSize = F!Cell(t) PROVE FALSE OBVIOUS
        <5>1. pos[t] = p + 1 BY <2>2, <2>3, <4>1 DEF At, F!Cell, F!Turn
        <5> QED BY <5>1, ModSucc DEF F!Cell
      <4> QED BY <1>4, <4>1, <4>2, MoveFacts DEF At, Stored
    <3>3. \A s \in F!Users : s # t /\ F!Working(s) => At(pos[s])' = At(pos[s])
      <4>1. \A s \in F!Users : s # t /\ F!Working(s) => F!Cell(s) # F!Cell(t) BY <2>1, Alone
      <4> QED BY <1>4, <2>1, <4>1, CellInBuffer, MoveFacts DEF At, F!Cell
    <3>4. At(pos[t])'.data = sent[pos[t] + 1] BY <1>4, <2>1, <2>3, <3>1, MoveFacts DEF At, F!Cell
    <3>5. \A s \in Producers : F!Working(s)' => data'[s] = sent'[pos'[s] + 1]
      BY <1>1, <2>1, <3>1 DEF Stored, F!Working
    <3>6. \A s \in Producers : mpc'[s] = "publish" => At(pos[s])'.data = sent'[pos'[s] + 1]
      BY <1>1, <2>1, <3>3, <3>4 DEF Stored, F!Working
    <3>7. \A s \in Consumers : mpc'[s] = "publish" => data'[s] = sent'[pos'[s] + 1]
      BY <1>1, <2>1, <2>3, <3>1 DEF Stored, F!Working
    <3> QED BY <2>1, <3>2, <3>5, <3>6, <3>7 DEF Stored, At
  <2>4. CASE t \notin Producers
    <3>1. \A i \in 0 .. RingSize - 1 : cells'[i] = cells[i] BY <1>4, <2>4, MoveFacts
    <3>2. \A p \in Nat : At(p)' = At(p) BY <3>1, ModRange DEF At
    <3>3. data' = [data EXCEPT ![t] = At(pos[t]).data] BY <1>4, <2>4, MoveFacts DEF At, F!Cell
    <3>4. At(pos[t]).data = sent[pos[t] + 1] BY <1>1, <2>2, <2>4 DEF Stored, F!Turn
    <3>5. data'[t] = sent[pos[t] + 1] /\ \A s \in F!Users : s # t => data'[s] = data[s]
      BY <3>3, <3>4 DEF RingTypes
    <3>6. \A s \in Producers : s # t /\ s \in F!Users /\ pos[s] \in Nat BY <1>1, <2>4 DEF RingTypes
    <3>7. \A s \in Producers : mpc'[s] = "publish" => At(pos[s])'.data = sent'[pos'[s] + 1]
      BY <2>1, <3>2, <3>6 DEF Stored
    <3>8. \A s \in Producers : F!Working(s)' => data'[s] = sent'[pos'[s] + 1]
      BY <2>1, <3>5, <3>6 DEF Stored, F!Working
    <3>9. \A s \in Consumers : mpc'[s] = "publish" => data'[s] = sent'[pos'[s] + 1]
      BY <1>1, <2>1, <3>5 DEF Stored
    <3> QED BY <2>1, <3>2, <3>7, <3>8, <3>9 DEF Stored, At
  <2> QED BY <2>3, <2>4
<1>5. CASE F!Publish(t)
  <2>1. UNCHANGED <<pos, data, sent>> /\ F!Working(t) /\ mpc[t] = "publish"
        /\ mpc'[t] = "idle" /\ \A s \in F!Users : s # t => mpc'[s] = mpc[s]
    BY <1>5, PublishFacts DEF F!Publish, RingTypes, F!Working
  <2>2. ASSUME NEW p \in Nat, At(p)'.sequence = p + 1 PROVE At(p)'.data = sent[p + 1]
    <3>1. p % RingSize \in 0 .. RingSize - 1 BY ModRange
    <3>2. CASE p % RingSize # F!Cell(t) BY <1>5, <2>2, <3>1, <3>2, PublishFacts DEF At, Stored
    <3>3. CASE p % RingSize = F!Cell(t)
      <4>1. F!Release(t) = p + 1 /\ At(p)'.data = At(pos[t]).data
        BY <1>5, <2>2, <3>3, PublishFacts DEF At, F!Cell
      <4>2. t \in Producers
        <5> SUFFICES ASSUME t \notin Producers PROVE FALSE OBVIOUS
        <5>1. pos[t] + RingSize = p + 1 BY <4>1 DEF F!Release
        <5> QED BY <1>1, <3>3, <5>1, ModRound DEF F!Cell
      <4>3. pos[t] = p BY <1>1, <4>1, <4>2 DEF F!Release
      <4> QED BY <2>1, <4>1, <4>2, <4>3 DEF Stored
    <3> QED BY <3>2, <3>3
  <2>3. \A s \in F!Users : s # t /\ F!Working(s) => At(pos[s])' = At(pos[s])
    <3>1. \A s \in F!Users : s # t /\ F!Working(s) => F!Cell(s) # F!Cell(t) BY <2>1, Alone
    <3> QED BY <1>5, <2>1, <3>1, CellInBuffer, PublishFacts DEF At, F!Cell
  <2>4. \A s \in Producers : F!Working(s)' => data'[s] = sent'[pos'[s] + 1]
    BY <1>1, <2>1 DEF Stored, F!Working
  <2>5. \A s \in Producers : mpc'[s] = "publish" => At(pos[s])'.data = sent'[pos'[s] + 1]
    BY <1>1, <2>1, <2>3 DEF Stored, F!Working
  <2>6. \A s \in Consumers : mpc'[s] = "publish" => data'[s] = sent'[pos'[s] + 1]
    BY <1>1, <2>1 DEF Stored
  <2> QED BY <2>1, <2>2, <2>4, <2>5, <2>6 DEF Stored, At
<1> QED BY <1>2, <1>3, <1>4, <1>5

LEMMA BoundedNext ==
    ASSUME RingTypes, Turns, Numbered, Bounded, F!Next PROVE Bounded'
<1> PICK t \in F!Users : Quiet(t) \/ Wins(t) \/ F!Move(t) \/ F!Publish(t) BY StepKinds
<1>1. CASE Wins(t)
  <2>1. At(pos[t]).sequence = F!Turn(t) /\ pos[t] \in Nat /\ pos[t] = count[F!Side(t)]
    BY <1>1 DEF Wins, Turns, RingTypes
  <2>2. CASE t \in Producers
    <3>1. pos[t] < count["dequeue"] + RingSize BY <2>1, <2>2 DEF Numbered, F!Turn
    <3> QED BY <1>1, <2>1, <2>2, <3>1, RingSizeType DEF Wins, F!Side, RingTypes, Bounded
  <2>3. CASE t \notin Producers
    <3>1. pos[t] < count["enqueue"] BY <2>1, <2>3 DEF Numbered, F!Turn
    <3> QED BY <1>1, <2>1, <2>3, <3>1, RingSizeType DEF Wins, F!Side, RingTypes, Bounded
  <2> QED BY <2>2, <2>3
<1>2. CASE Quiet(t) \/ F!Move(t) \/ F!Publish(t) BY <1>2 DEF Quiet, F!Move, F!Publish, Bounded
<1> QED BY <1>1, <1>2

-----------------------------------------------------------------------------
LEMMA RingNext == RingInv /\ [F!Next]_(F!mpmcVars) => RingInv'
<1> SUFFICES ASSUME RingInv, [F!Next]_(F!mpmcVars) PROVE RingInv' OBVIOUS
<1>1. CASE F!Next
  BY <1>1, RingTypesNext, PositionsNext, TurnsNext, NumberedNext, StoredNext, BoundedNext DEF RingInv
<1>2. CASE UNCHANGED F!mpmcVars
  BY <1>2 DEF F!mpmcVars, RingInv, RingTypes, Positions, Turns, Numbered, Stored, Bounded, At, F!Working,
              F!Side, F!Turn
<1> QED BY <1>1, <1>2

LEMMA RingExact == RingInv => F!FifoExact
<1> SUFFICES ASSUME RingInv PROVE F!FifoExact OBVIOUS
<1>1. \A s, t \in F!Users : s # t /\ F!Working(s) /\ F!Working(t) => F!Cell(s) # F!Cell(t)
  BY Alone DEF RingInv
<1> QED BY <1>1 DEF F!FifoExact, RingInv, Bounded, Positions, Stored

\* Items leave the ring buffer in the order of the positions at which they came, each
\* once, and no two threads touch one cell, for any number of producers and consumers
\* and any size of two or more (try_enqueue, enqueue and try_dequeue).
THEOREM RingFifo == F!Spec => []F!FifoExact
<1> QED BY RingInit, RingNext, RingExact, PTL DEF F!Spec

-----------------------------------------------------------------------------
(* The two queues side by side, as the run checks them. *)

DequeInv == part = "deque" => IInv /\ Returned

LEMMA DequeInit == MCInit => DequeInv /\ (part = "deque" => D!DInit)
BY QueuesAssumption, InitInv, ReturnedInit DEF MCInit, DequeInv

LEMMA DequeNext ==
    DequeInv /\ [MCNext]_mcVars
       => /\ DequeInv'
          /\ [part = "deque" => D!DNext \/ UNCHANGED D!dequeVars]_mcVars
<1> SUFFICES ASSUME DequeInv, [MCNext]_mcVars
             PROVE  /\ DequeInv'
                    /\ part = "deque" => D!DNext \/ UNCHANGED D!dequeVars OBVIOUS
<1>1. CASE part = "deque" /\ [Next]_vars
  <2>1. IInv /\ Returned BY <1>1 DEF DequeInv
  <2>2. IInv' /\ [D!DNext]_(D!dequeVars) BY <1>1, <2>1, StepInv
  <2>3. Returned' BY <1>1, <2>1, ReturnedNext
  <2> QED BY <2>2, <2>3 DEF DequeInv
<1>2. CASE part # "deque" /\ part' = part BY <1>2 DEF DequeInv
<1>3. CASE UNCHANGED mcVars
  <2>1. UNCHANGED vars /\ part' = part BY <1>3 DEF mcVars, vars, ownerVars, thiefVars
  <2> QED BY <1>1, <1>2, <2>1
<1> QED BY <1>1, <1>2, <1>3 DEF MCNext

\* The work-stealing queues are honest: no index wraps onto a slot in use, and what
\* empty() calls empty is, or its owner is about to look for work (tsq.h).
THEOREM DequeHonestAlways == MCSpec => []DequeHonest
<1>1. DequeInv => DequeHonest BY InvHonest DEF DequeInv, DequeHonest
<1> QED BY DequeInit, DequeNext, <1>1, PTL DEF MCSpec

\* The work-stealing queues implement the abstract deque, step by step (push, pop,
\* steal and resize_array).
THEOREM ImplementsDequeAlways == MCSpec => ImplementsDeque
<1> QED BY DequeInit, DequeNext, PTL DEF MCSpec, ImplementsDeque

\* The ring buffer next to them is first-in-first-out.
THEOREM FifoExactAlways == MCSpec => []FifoExact
<1>1. MCInit => F!Init BY DEF MCInit
<1>2. [MCNext]_mcVars => [F!Next]_(F!mpmcVars) BY DEF MCNext, mcVars, F!mpmcVars
<1> QED BY <1>1, <1>2, RingInit, RingNext, RingExact, PTL DEF MCSpec, FifoExact
=============================================================================
