----------------------------- MODULE IndexRanges ----------------------------
(***************************************************************************)
(* Index ranges (utility/iterator.h) and how the algorithms that go by     *)
(* index walk over one in parts (for_each.h, reduce.h): a part [b, e) of   *)
(* 0 .. N becomes indices again, either one by one or as a range that the  *)
(* callable goes through itself.  Indices are integers of Bits bits.       *)
(*                                                                         *)
(* Which parts there are is up to a partitioner (ParallelLoops); here they *)
(* are any, one after the other.                                           *)
(***************************************************************************)
EXTENDS Integers, Sequences, SequencesExt

CONSTANT Bits

VARIABLES
    range,      \* an IndexRange, and whether its type is signed
    given,  \* "index" or "range": what the callable is given
    phase,      \* "build", "parts", "done"
    taken,      \* the elements of the discrete domain that were handed out
    visited     \* the indices the callable has seen

rangeVars == <<range, given, phase, taken, visited>>

IndexType == {[signed |-> s, min |-> IF s THEN -(2 ^ (Bits - 1)) ELSE 0] : s \in BOOLEAN}
Values(type) == type.min .. (type.min + 2 ^ Bits - 1)
Wrapped(type, x) == type.min + ((x - type.min) % (2 ^ Bits))
\* Division rounds towards zero; a and b have one sign.
Quotient(a, b) == IF b > 0 THEN a \div b ELSE (-a) \div (-b)

is_index_range_invalid(r) ==
    \/ r.step = 0 /\ r.begin # r.end
    \/ r.begin < r.end /\ r.step <= 0
    \/ r.begin > r.end /\ r.step >= 0

Rounded(r) == r.end - r.begin + r.step + (IF r.step > 0 THEN -1 ELSE 1)
distance(r) == Quotient(Wrapped(r.type, Rounded(r)), r.step)

At(r, k) == Wrapped(r.type, k * r.step + r.begin)
discrete_domain(r, b, e) == [r EXCEPT !.begin = At(r, b), !.end = At(r, e)]

\* The loop from begin to end that a user writes.
Traversed(r) ==
    LET Goes(k) == LET i == r.begin + k * r.step IN IF r.step > 0 THEN i < r.end ELSE i > r.end
        ks == SetToSortSeq({k \in 0 .. 2 ^ Bits : Goes(k)}, <)
    IN  [j \in DOMAIN ks |-> r.begin + ks[j] * r.step]

\* In the type of the indices the distance does not overflow, nor does the end of the
\* last part.
DistanceFits(r) == Rounded(r) \in Values(r.type)
EndFits(r) == DistanceFits(r) /\ r.begin + distance(r) * r.step \in Values(r.type)

\* Nothing is asked of a range that divides by zero, or overflows a signed type.
Ranges == {r \in UNION {[begin : Values(t), end : Values(t), step : Values(t), type : {t}] :
                          t \in IndexType} :
             /\ r.step # 0 \/ r.begin # r.end
             /\ is_index_range_invalid(r) \/ ~r.type.signed
                \/ EndFits(r)}

-----------------------------------------------------------------------------
Init ==
    /\ range \in Ranges
    /\ given \in {"index", "range"}
    /\ phase = "build" /\ taken = 0 /\ visited = <<>>

Change(r) == phase = "build" /\ r \in Ranges /\ range' = r
             /\ UNCHANGED <<given, phase, taken, visited>>
SetBegin(b) == Change([range EXCEPT !.begin = b])
SetEnd(e)   == Change([range EXCEPT !.end = e])
SetStep(s)  == Change([range EXCEPT !.step = s])
Reset(b, e, s) == Change([begin |-> b, end |-> e, step |-> s, type |-> range.type])

\* An invalid range is none; with one worker, or a large chunk, all is done at once.
Start ==
    /\ phase = "build"
    /\ phase' = IF is_index_range_invalid(range) THEN "done" ELSE "parts"
    /\ UNCHANGED <<range, given, taken, visited>>
OneByOne(b, e) == [k \in 1 .. e - b |-> At(range, b + k - 1)]
Alone ==
    /\ phase = "parts" /\ taken = 0
    /\ visited' = IF given = "index" THEN OneByOne(0, distance(range))
                  ELSE Traversed(range)
    /\ phase' = "done" /\ taken' = distance(range)
    /\ UNCHANGED <<range, given>>

Part(b, e) ==
    IF given = "index" THEN OneByOne(b, e) ELSE Traversed(discrete_domain(range, b, e))
TakePart ==
    /\ phase = "parts"
    /\ \E e \in taken + 1 .. distance(range) :
          visited' = visited \o Part(taken, e) /\ taken' = e
    /\ UNCHANGED <<range, given, phase>>
Finish ==
    /\ phase = "parts" /\ taken = distance(range)
    /\ phase' = "done"
    /\ UNCHANGED <<range, given, taken, visited>>

Next ==
    \/ \E v \in Values(range.type) : SetBegin(v) \/ SetEnd(v) \/ SetStep(v)
    \/ \E v \in Values(range.type) : Reset(v, v, 1)
    \/ Start \/ Alone \/ TakePart \/ Finish

-----------------------------------------------------------------------------
\* Whatever the parts are, the callable sees the indices that a loop over the whole
\* range has, in its order, each once, provided that what is computed on the way fits
\* into the type (distance, discrete_domain).
IndicesExact ==
    \/ phase = "build"
    \/ is_index_range_invalid(range) /\ visited = <<>>
    \/ given = "index" /\ ~DistanceFits(range)
    \/ given = "range" /\ ~EndFits(range)
    \/ /\ IsPrefix(visited, Traversed(range))
       /\ phase = "done" => visited = Traversed(range)
=============================================================================
