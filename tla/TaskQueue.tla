----------------------------- MODULE TaskQueue ------------------------------
(***************************************************************************)
(* The Chase-Lev queues of core/tsq.h.  BoundedTaskQueue (a worker's own   *)
(* queue) refuses an item when its buffer is full; UnboundedTaskQueue (the *)
(* shared buffers of the freelist, whose pushes a mutex serialises) moves  *)
(* to a buffer of twice the size and keeps the old one for thieves that    *)
(* still read it.  The rest of the two classes is the same code.           *)
(*                                                                         *)
(* A step is one access to shared memory, in program order and             *)
(* sequentially consistent; the fences of the code are what makes this so  *)
(* where it matters (tsq.h:228, 254).  The owner alone writes _bottom,     *)
(* _array and the slots, so that its own loads of them are no steps.       *)
(***************************************************************************)
EXTENDS Integers, Sequences

CONSTANTS Item, Thieves, Owner, Nothing, Full,
    Size,       \* of the first buffer
    MaxIndex    \* bound on _bottom

QueueAssumption ==
    /\ Nothing \notin Item
    /\ Owner \notin Thieves
    /\ Size \in Nat \ {0}
    /\ MaxIndex \in Nat

VARIABLES
    bounded,    \* the class of the queue: is its size limited?
    top,        \* _top
    bottom,     \* _bottom
    arrays,     \* the buffers: _garbage, and _array as the last one
    opc,        \* where the owner is
    oitem,      \* the item the owner pushes
    otop,       \* the owner's copy of _top
    tpc,        \* where each thief is
    ttop,       \* its copy of _top
    tarray,     \* its copy of _array, an index into arrays
    titem,      \* the item it has read
    out         \* what each thread's last operation returned

ownerVars == <<opc, oitem, otop>>
thiefVars == <<tpc, ttop, tarray, titem>>
vars == <<bounded, top, bottom, arrays, ownerVars, thiefVars, out>>

\* Struct Array: i & M is i % C because C is a power of two.
Array(c) == [C : {c}, S : [0 .. c - 1 -> Item \cup {Nothing}]]
Get(a, i) == a.S[i % a.C]
Put(a, i, x) == [C |-> a.C, S |-> [a.S EXCEPT ![i % a.C] = x]]

Current == arrays[Len(arrays)]

OwnerPC == {"idle", "grow", "store", "publish", "poptop", "popswap", "restore"}
ThiefPC == {"idle", "bottom", "array", "slot", "swap", "look"}

TypeOK ==
    /\ bounded \in BOOLEAN
    /\ top \in Nat
    /\ bottom \in Int
    /\ Len(arrays) > 0
    /\ \A k \in 1 .. Len(arrays) :
          arrays[k].C \in Nat \ {0} /\ arrays[k] \in Array(arrays[k].C)
    /\ opc \in OwnerPC
    /\ oitem \in Item \cup {Nothing}
    /\ otop \in Nat
    /\ tpc \in [Thieves -> ThiefPC]
    /\ ttop \in [Thieves -> Nat]
    /\ tarray \in [Thieves -> Nat]
    /\ titem \in [Thieves -> Item \cup {Nothing}]
    /\ out \in [Thieves \cup {Owner} -> Item \cup {Nothing, Full}]

Init ==
    /\ bounded \in BOOLEAN
    /\ top = 0 /\ bottom = 0
    /\ arrays = << [C |-> Size, S |-> [i \in 0 .. Size - 1 |-> Nothing]] >>
    /\ opc = "idle" /\ oitem = Nothing /\ otop = 0
    /\ tpc = [p \in Thieves |-> "idle"]
    /\ ttop = [p \in Thieves |-> 0]
    /\ tarray = [p \in Thieves |-> 0]
    /\ titem = [p \in Thieves |-> Nothing]
    /\ out = [p \in Thieves \cup {Owner} |-> Nothing]

Return(p, r) == out' = [out EXCEPT ![p] = r]

----------------------------------------------------------------------------
(* push and try_push *)

\* The owner loads _top and compares.
PushBegin ==
    /\ opc = "idle"
    /\ bottom < MaxIndex
    /\ otop' = top
    /\ \E x \in Item :
          \/ /\ bottom - top <= Current.C - 1
             /\ opc' = "store" /\ oitem' = x
             /\ UNCHANGED out
          \/ /\ bottom - top > Current.C - 1 /\ ~bounded
             /\ opc' = "grow" /\ oitem' = x
             /\ UNCHANGED out
          \/ /\ bottom - top > Current.C - 1 /\ bounded
             /\ Return(Owner, Full)
             /\ UNCHANGED <<opc, oitem>>
    /\ UNCHANGED <<bounded, top, bottom, arrays, thiefVars>>

\* A faulty variant that copies the slots without moving them to the places
\* their indexes have in the larger buffer.
ResizeInPlace(a, b, t) ==
    [C |-> 2 * a.C,
     S |-> [j \in 0 .. 2 * a.C - 1 |-> IF j < a.C THEN a.S[j] ELSE Nothing]]

\* A copy of the items with indexes t .. b - 1 in a buffer of twice the size.
Resize(a, b, t) ==
    [C |-> 2 * a.C,
     S |-> [j \in 0 .. 2 * a.C - 1 |->
              IF \E i \in t .. b - 1 : i % (2 * a.C) = j
              THEN Get(a, CHOOSE i \in t .. b - 1 : i % (2 * a.C) = j)
              ELSE Nothing]]

\* resize_array: the old buffer goes to _garbage, the new one is published.
Grow ==
    /\ opc = "grow"
    /\ arrays' = Append(arrays, Resize(Current, bottom, otop))
    /\ opc' = "store"
    /\ UNCHANGED <<bounded, top, bottom, oitem, otop, thiefVars, out>>

Store ==
    /\ opc = "store"
    /\ arrays' = [arrays EXCEPT ![Len(arrays)] = Put(@, bottom, oitem)]
    /\ opc' = "publish"
    /\ UNCHANGED <<bounded, top, bottom, oitem, otop, thiefVars, out>>

Publish ==
    /\ opc = "publish"
    /\ bottom' = bottom + 1
    /\ Return(Owner, Nothing)
    /\ opc' = "idle" /\ oitem' = Nothing /\ otop' = 0
    /\ UNCHANGED <<bounded, top, arrays, thiefVars>>

----------------------------------------------------------------------------
(* pop *)

PopBegin ==
    /\ opc = "idle"
    /\ bottom' = bottom - 1
    /\ opc' = "poptop"
    /\ UNCHANGED <<bounded, top, arrays, oitem, otop, thiefVars, out>>

\* The load of _top, and of a slot only the owner writes.  An item that is not
\* the last one is the owner's; the last one is taken with a compare-and-swap.
PopTop ==
    /\ opc = "poptop"
    /\ \/ /\ top < bottom
          /\ Return(Owner, Get(Current, bottom))
          /\ opc' = "idle"
          /\ UNCHANGED otop
       \/ /\ top = bottom
          /\ opc' = "popswap"
          /\ otop' = top
          /\ UNCHANGED out
       \/ /\ top > bottom
          /\ Return(Owner, Nothing)
          /\ opc' = "restore"
          /\ UNCHANGED otop
    /\ UNCHANGED <<bounded, top, bottom, arrays, oitem, thiefVars>>

PopSwap ==
    /\ opc = "popswap"
    /\ \/ /\ top = otop
          /\ top' = top + 1
          /\ Return(Owner, Get(Current, bottom))
       \/ /\ top # otop
          /\ Return(Owner, Nothing)
          /\ UNCHANGED top
    /\ opc' = "restore"
    /\ otop' = 0
    /\ UNCHANGED <<bounded, bottom, arrays, oitem, thiefVars>>

Restore ==
    /\ opc = "restore"
    /\ bottom' = bottom + 1
    /\ opc' = "idle"
    /\ UNCHANGED <<bounded, top, arrays, oitem, otop, thiefVars, out>>

----------------------------------------------------------------------------
(* steal *)

\* A thief ends its operation and forgets its copies.
Reset(p) ==
    /\ tpc' = [tpc EXCEPT ![p] = "idle"]
    /\ ttop' = [ttop EXCEPT ![p] = 0]
    /\ tarray' = [tarray EXCEPT ![p] = 0]
    /\ titem' = [titem EXCEPT ![p] = Nothing]

Advance(p, l) == tpc' = [tpc EXCEPT ![p] = l]

StealTop(p) ==
    /\ tpc[p] = "idle"
    /\ ttop' = [ttop EXCEPT ![p] = top]
    /\ Advance(p, "bottom")
    /\ UNCHANGED <<bounded, top, bottom, arrays, ownerVars, tarray, titem, out>>

StealBottom(p) ==
    /\ tpc[p] = "bottom"
    /\ \/ /\ ttop[p] < bottom
          /\ Advance(p, "array")
          /\ UNCHANGED <<ttop, tarray, titem, out>>
       \/ /\ ttop[p] >= bottom
          /\ Return(p, Nothing)
          /\ Reset(p)
    /\ UNCHANGED <<bounded, top, bottom, arrays, ownerVars>>

StealArray(p) ==
    /\ tpc[p] = "array"
    /\ tarray' = [tarray EXCEPT ![p] = Len(arrays)]
    /\ Advance(p, "slot")
    /\ UNCHANGED <<bounded, top, bottom, arrays, ownerVars, ttop, titem, out>>

StealSlot(p) ==
    /\ tpc[p] = "slot"
    /\ titem' = [titem EXCEPT ![p] = Get(arrays[tarray[p]], ttop[p])]
    /\ Advance(p, "swap")
    /\ UNCHANGED <<bounded, top, bottom, arrays, ownerVars, ttop, tarray, out>>

StealSwap(p) ==
    /\ tpc[p] = "swap"
    /\ \/ /\ top = ttop[p]
          /\ top' = top + 1
          /\ Return(p, titem[p])
       \/ /\ top # ttop[p]
          /\ Return(p, Nothing)
          /\ UNCHANGED top
    /\ Reset(p)
    /\ UNCHANGED <<bounded, bottom, arrays, ownerVars>>

----------------------------------------------------------------------------
(* empty and size: they load _top first and _bottom second. *)

\* A faulty variant that loads _bottom first.
LookBottomFirst(p) ==
    /\ tpc[p] = "idle"
    /\ ttop' = [ttop EXCEPT ![p] = IF bottom > 0 THEN bottom ELSE 0]
    /\ Advance(p, "look")
    /\ UNCHANGED <<bounded, top, bottom, arrays, ownerVars, tarray, titem, out>>

LookTop(p) ==
    /\ tpc[p] = "idle"
    /\ ttop' = [ttop EXCEPT ![p] = top]
    /\ Advance(p, "look")
    /\ UNCHANGED <<bounded, top, bottom, arrays, ownerVars, tarray, titem, out>>

SeesEmpty(p) == tpc[p] = "look" /\ bottom <= ttop[p]

Look(p) ==
    /\ tpc[p] = "look"
    /\ Reset(p)
    /\ UNCHANGED <<bounded, top, bottom, arrays, ownerVars, out>>

----------------------------------------------------------------------------
OwnerNext ==
    \/ PushBegin \/ Grow \/ Store \/ Publish
    \/ PopBegin \/ PopTop \/ PopSwap \/ Restore

ThiefNext(p) ==
    \/ StealTop(p) \/ StealBottom(p) \/ StealArray(p) \/ StealSlot(p) \/ StealSwap(p)
    \/ LookTop(p) \/ Look(p)

Next == OwnerNext \/ \E p \in Thieves : ThiefNext(p)

Spec == Init /\ [][Next]_vars

----------------------------------------------------------------------------
(* Properties *)

\* A pop that has not taken its item yet has already lowered _bottom.
Popping == opc \in {"poptop", "popswap", "restore"}

\* One past the index of the newest item in the queue.
Bottom == IF Popping THEN bottom + 1 ELSE bottom

\* The queue the two indexes and the current buffer represent.
Deque == [i \in 1 .. Bottom - top |-> Get(Current, top + i - 1)]

D == INSTANCE TaskDeque WITH deque <- Deque

\* Every operation takes effect in one step as the abstract queue says: no item is
\* lost, taken twice or read torn, an empty-handed pop had nothing to take, and a
\* refused push met a full buffer.
ImplementsTaskDeque == D!DSpec

\* No index wraps onto a live slot: the buffer holds all that is in the queue, and
\* room is left for an item about to be stored.
FitsBuffer ==
    /\ Bottom - top \in 0 .. Current.C
    /\ opc = "store" => Bottom - top < Current.C

\* The indexes and the buffers agree.
Consistent == TypeOK /\ FitsBuffer

\* empty() tells the truth to a worker that is about to sleep: a queue it calls
\* empty is empty, or its owner is popping and will search for more work itself.
EmptyIsHonest == \A p \in Thieves : SeesEmpty(p) => Bottom <= top \/ Popping
=============================================================================
