---------------------------- MODULE SmallVector ----------------------------
(***************************************************************************)
(* SmallVector (utility/small_vector.h): a vector with room for the first  *)
(* elements in itself, that holds the neighbours and semaphores of nodes.  *)
(* Its memory is modelled cell by cell.  A cell is raw, or holds an object *)
(* with a value or one that was moved from.  Objects may be made only in   *)
(* raw cells, assigned and destroyed only where there is one, and memory   *)
(* may be released only when none is left; with a POD anything goes.       *)
(* `good' tells whether that was respected.                                *)
(***************************************************************************)
EXTENDS Integers, Sequences, SequencesExt

CONSTANTS
    Value,
    Raw, Moved,     \* cells without an object, and with an empty one
    Inline,         \* N, the elements that fit into the vector itself
    MaxSize         \* bound on the size

VARIABLES
    pod,        \* IsPod<T>
    vec,        \* the vectors: storage, capacity and size
    contents    \* what a std::vector would hold after the same operations

vectorVars == <<pod, vec, contents>>

Vector == {1, 2}
Least(x, y) == IF x < y THEN x ELSE y
Greatest(x, y) == IF x < y THEN y ELSE x
Copies(n, x) == [i \in 1 .. n |-> x]
Empty == [small |-> TRUE, cap |-> Inline, size |-> 0, mem |-> Copies(Inline, Raw), good |-> TRUE]

Init ==
    /\ pod \in BOOLEAN
    /\ vec = [v \in Vector |-> Empty]
    /\ contents = [v \in Vector |-> <<>>]

(***************************************************************************)
(* What the operations do with memory.  Cells a + 1 to b are the range     *)
(* from a to b of the code.                                                *)
(***************************************************************************)
Cells(v, a, b) == SubSeq(v.mem, a + 1, b)
Live(v, a, b)  == \A i \in a + 1 .. b : v.mem[i] # Raw
IsRaw(v, a, b) == \A i \in a + 1 .. b : v.mem[i] = Raw

Written(v, at, s, allowed) ==
    [v EXCEPT !.mem = [i \in DOMAIN v.mem |-> IF i \in at + 1 .. at + Len(s) THEN s[i - at] ELSE v.mem[i]],
              !.good = @ /\ (pod \/ allowed)]
Made(v, at, s)     == Written(v, at, s, IsRaw(v, at, at + Len(s)))
Assigned(v, at, s) == Written(v, at, s, Live(v, at, at + Len(s)))
Left(v, a, b)      == IF pod THEN v ELSE Assigned(v, a, Copies(b - a, Moved))
Destroyed(v, a, b) == Written(v, a, Copies(b - a, Raw), Live(v, a, b))
Released(v)        == [v EXCEPT !.good = @ /\ (pod \/ v.small \/ IsRaw(v, 0, Len(v.mem)))]

\* NextCapacity: the least power of two above A.
NextCapacity(A) == CHOOSE c \in {2 ^ k : k \in 0 .. A} : c > A /\ c <= 2 * Greatest(A, 1)

\* grow and grow_pod
Grow(v, min) ==
    LET cap == Greatest(IF pod THEN 2 * v.cap + 1 ELSE NextCapacity(v.cap + 2), min)
        old == Released(Destroyed(v, 0, v.size))
    IN  [old EXCEPT !.small = FALSE, !.cap = cap, !.mem = Cells(v, 0, v.size) \o Copies(cap - v.size, Raw)]
Reserve(v, n) == IF v.cap < n THEN Grow(v, n) ELSE v

\* push_back, emplace_back and append; each has its own way to the same test.
Appended(v, s) ==
    LET r == IF v.size + Len(s) > v.cap THEN Grow(v, IF Len(s) = 1 THEN 0 ELSE v.size + Len(s)) ELSE v
    IN  [Made(r, r.size, s) EXCEPT !.size = @ + Len(s)]

Clear(v) == [Destroyed(v, 0, v.size) EXCEPT !.size = 0]

Assign(v, s) ==
    LET r == Reserve(Clear(v), Len(s))
    IN  [Made(r, 0, s) EXCEPT !.size = Len(s)]

Resize(v, n, x) ==
    IF n <= v.size
    THEN [Destroyed(v, n, v.size) EXCEPT !.size = n]
    ELSE LET r == Reserve(v, n)
         IN  [Made(r, r.size, Copies(n - r.size, x)) EXCEPT !.size = n]

\* Elements i + 1 to j: the rest is moved down.
Erase(v, i, j) ==
    LET rest == Cells(v, j, v.size)
        r == Assigned(Left(v, j, v.size), i, rest)
    IN  [Destroyed(r, i + Len(rest), v.size) EXCEPT !.size = i + Len(rest)]

\* A faulty ArgumentAt, which does not follow an argument that was shifted.
ArgumentStays(i, k) == k

\* insert(I, Elt) where Elt is element k of the vector itself.
ArgumentAt(i, k) == IF k > i THEN k + 1 ELSE k

\* insert(I, Elt): k = 0 says that Elt = x is not an element of the vector.
InsertOne(v, i, k, x) ==
    IF i = v.size
    THEN Appended(v, <<IF k = 0 THEN x ELSE v.mem[k]>>)
    ELSE LET r == IF v.size = v.cap THEN Grow(v, 0) ELSE v
             a == Left(Made(r, r.size, Cells(r, r.size - 1, r.size)), r.size - 1, r.size)
             b == Assigned(Left(a, i, r.size - 1), i + 1, Cells(a, i, r.size - 1))
             e == IF k = 0 THEN x ELSE b.mem[ArgumentAt(i, k)]
         IN  [Assigned(b, i, <<e>>) EXCEPT !.size = @ + 1]

\* insert(I, n, Elt) and insert(I, From, To)
InsertMany(v, i, s) ==
    LET n    == Len(s)
        r    == Reserve(v, v.size + n)
        old  == r.size
        tail == old - i
        \* the last n elements to the end, the others up, the new ones between
        a == Left(Made(r, old, Cells(r, old - n, old)), old - n, old)
        b == Assigned(Left(a, i, old - n), i + n, Cells(a, i, old - n))
        \* fewer than n: they jump over the place of the new ones
        c == Left(Made(r, i + n, Cells(r, i, old)), i, old)
        d == Made(Assigned(c, i, SubSeq(s, 1, tail)), old, SubSeq(s, tail + 1, n))
    IN  IF tail = 0 THEN Appended(v, s)
        ELSE [(IF tail >= n THEN Assigned(b, i, s) ELSE d) EXCEPT !.size = old + n]

(***************************************************************************)
(* Operations on two vectors                                               *)
(***************************************************************************)
\* operator=(const &), and the part of operator=(&&) that goes by elements
Copied(v, s) ==
    IF Len(s) <= v.size
    THEN [Destroyed(Assigned(v, 0, s), Len(s), v.size) EXCEPT !.size = Len(s)]
    ELSE LET w == IF v.cap < Len(s) THEN Grow(Clear(v), Len(s))
                                    ELSE Assigned(v, 0, SubSeq(s, 1, v.size))
         IN  [Made(w, w.size, SubSeq(s, w.size + 1, Len(s))) EXCEPT !.size = Len(s)]

CopyAssign(u, v) == [vec EXCEPT ![u] = Copied(vec[u], Cells(vec[v], 0, vec[v].size))]

MoveAssign(u, v) ==
    LET this == vec[u]  rhs == vec[v]
    IN  IF ~rhs.small
        THEN [vec EXCEPT ![u] = [rhs EXCEPT !.good = @ /\ Released(Clear(this)).good],
                         ![v] = [Empty EXCEPT !.cap = 0]]       \* resetToSmall
        ELSE [vec EXCEPT ![u] = Copied(this, Cells(rhs, 0, rhs.size)),
                         ![v] = Clear(Left(rhs, 0, rhs.size))]

\* The elements that both have are swapped, the others copied and destroyed.
SwapElements(a, b) ==
    LET n == Least(a.size, b.size)
        Give(x, y) == [Made(x, x.size, Cells(y, n, y.size)) EXCEPT !.size = Greatest(x.size, y.size)]
        Lose(x)    == [Destroyed(x, n, x.size) EXCEPT !.size = n]
        a1 == Assigned(a, 0, Cells(b, 0, n))
        b1 == Assigned(b, 0, Cells(a, 0, n))
    IN  IF a.size > b.size THEN <<Lose(a1), Give(b1, a1)>> ELSE <<Give(a1, b1), Lose(b1)>>

Swap ==
    IF ~vec[1].small /\ ~vec[2].small
    THEN <<vec[2], vec[1]>>
    ELSE SwapElements(Reserve(vec[1], vec[2].size), Reserve(vec[2], vec[1].size))

(***************************************************************************)
(* The state machine                                                       *)
(***************************************************************************)
Do(v, new, expected) ==
    /\ Len(expected) <= MaxSize
    /\ vec' = [vec EXCEPT ![v] = new]
    /\ contents' = [contents EXCEPT ![v] = expected]
    /\ UNCHANGED pod

\* What a call may add or assign at once: neighbours in it differ.
Strings == {s \in [1 .. 2 -> Value] \cup [1 .. 3 -> Value] :
              \A i \in 1 .. Len(s) - 1 : s[i] # s[i + 1]}

\* Calls that the code does not carry out like std::vector are left out: insert of
\* an own element into a vector that must grow, whose reference the growth leaves
\* dangling; and, with element types that are not PODs, erase of an empty range,
\* which moves elements onto themselves, as the standard's types need not survive.
Operate(v) ==
    LET s == contents[v]
        n == Len(s)
    IN  \/ \E x \in Value : Do(v, Appended(vec[v], <<x>>), Append(s, x))
        \/ n > 0 /\ Do(v, Resize(vec[v], n - 1, Raw), Front(s))       \* pop_back
        \/ \E t \in Strings : Do(v, Appended(vec[v], t), s \o t)
        \/ \E t \in Strings : Do(v, Assign(vec[v], t), t)
        \/ \E m \in 0 .. MaxSize, x \in Value :
              Do(v, Resize(vec[v], m, x), SubSeq(s, 1, Least(m, n)) \o Copies(Greatest(m - n, 0), x))
        \/ \E m \in 0 .. MaxSize : Do(v, Reserve(vec[v], m), s)
        \/ \E i, j \in 0 .. n : i <= j /\ (pod \/ i < j)
              /\ Do(v, Erase(vec[v], i, j), SubSeq(s, 1, i) \o SubSeq(s, j + 1, n))
        \/ \E i \in 0 .. n, x \in Value : Do(v, InsertOne(vec[v], i, 0, x), InsertAt(s, i + 1, x))
        \/ \E i \in 0 .. n, k \in 1 .. n :
              n < vec[v].cap /\ Do(v, InsertOne(vec[v], i, k, Raw), InsertAt(s, i + 1, s[k]))
        \/ \E i \in 0 .. n, t \in Strings :
              Do(v, InsertMany(vec[v], i, t), SubSeq(s, 1, i) \o t \o SubSeq(s, i + 1, n))
        \/ Do(v, [Empty EXCEPT !.good = Released(Clear(vec[v])).good], <<>>)      \* ~SmallVector

Combine(u, v) ==
    /\ u # v
    /\ \/ vec' = CopyAssign(u, v) /\ contents' = [contents EXCEPT ![u] = contents[v]]
       \/ vec' = MoveAssign(u, v) /\ contents' = [contents EXCEPT ![u] = contents[v], ![v] = <<>>]
       \/ vec' = Swap /\ contents' = <<contents[2], contents[1]>>
    /\ UNCHANGED pod

Next == (\E v \in Vector : Operate(v)) \/ \E u, v \in Vector : Combine(u, v)
Spec == Init /\ [][Next]_vectorVars

-----------------------------------------------------------------------------
\* The vector holds what a std::vector would, after the calls of Operate, which
\* leave out the two named there; no object is made twice,
\* forgotten or destroyed twice, in the vector or in the memory it left; and
\* behind its end there is nothing.
VectorExact ==
    \A v \in Vector :
        /\ vec[v].good
        /\ vec[v].size <= vec[v].cap /\ vec[v].cap <= Len(vec[v].mem)
        /\ Cells(vec[v], 0, vec[v].size) = contents[v]
        /\ IsRaw(vec[v], vec[v].size, Len(vec[v].mem))
=============================================================================
