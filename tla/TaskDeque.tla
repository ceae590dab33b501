----------------------------- MODULE TaskDeque ------------------------------
(***************************************************************************)
(* What a work-stealing queue promises (core/tsq.h): a sequence of items   *)
(* whose owner pushes and pops at one end while thieves take from the      *)
(* other.  An empty-handed pop means that the queue is empty; an           *)
(* empty-handed steal means nothing; a push is refused only by a queue of  *)
(* bounded size that is full.                                              *)
(***************************************************************************)
EXTENDS Integers, Sequences

CONSTANTS
    Item,       \* what is stored (task pointers)
    Thieves,    \* the threads that steal
    Owner,      \* the thread that pushes and pops
    Nothing,    \* the null pointer a failed pop or steal returns
    Full,       \* what a refused push reports
    Size        \* the limit of a bounded queue

VARIABLES
    bounded,    \* is the size limited?
    deque,      \* the items in the queue, oldest first
    out         \* what each thread's last operation returned

dequeVars == <<bounded, deque, out>>

DTypeOK ==
    /\ bounded \in BOOLEAN
    /\ deque \in Seq(Item)
    /\ out \in [Thieves \cup {Owner} -> Item \cup {Nothing, Full}]

DInit ==
    /\ bounded \in BOOLEAN
    /\ deque = <<>>
    /\ out = [p \in Thieves \cup {Owner} |-> Nothing]

Return(p, r) == out' = [out EXCEPT ![p] = r]

DPush ==
    /\ bounded => Len(deque) < Size
    /\ \E x \in Item : deque' = Append(deque, x)
    /\ Return(Owner, Nothing)
    /\ UNCHANGED bounded

DRefuse ==
    /\ bounded
    /\ Len(deque) = Size
    /\ Return(Owner, Full)
    /\ UNCHANGED <<bounded, deque>>

DPop ==
    \/ /\ deque # <<>>
       /\ Return(Owner, deque[Len(deque)])
       /\ deque' = SubSeq(deque, 1, Len(deque) - 1)
       /\ UNCHANGED bounded
    \/ /\ deque = <<>>
       /\ Return(Owner, Nothing)
       /\ UNCHANGED <<bounded, deque>>

DSteal(p) ==
    \/ /\ deque # <<>>
       /\ Return(p, Head(deque))
       /\ deque' = Tail(deque)
       /\ UNCHANGED bounded
    \/ /\ Return(p, Nothing)
       /\ UNCHANGED <<bounded, deque>>

DNext ==
    \/ DPush \/ DRefuse \/ DPop
    \/ \E p \in Thieves : DSteal(p)

DSpec == DInit /\ [][DNext]_dequeVars
=============================================================================
