------------------------------- MODULE Numbers ------------------------------
(***************************************************************************)
(* The helpers on numbers of utility/math.h: powers of two and logarithms  *)
(* by shifts in an unsigned type of Bits bits, medians of three and of     *)
(* nine, coprimes, and a variable that several threads raise or lower to   *)
(* what they have seen, with a compare-exchange.                           *)
(***************************************************************************)
EXTENDS Integers, Sequences, FiniteSets, FiniteSetsExt, Folds, Bitwise

CONSTANTS
    Bits,
    Samples,    \* sequences, none of them empty, of which a median is taken
    Raisers     \* threads of atomic_max and atomic_min, with what they offer

VARIABLES
    number, sample,     \* what the helpers are given
    atomic,             \* the variables that are raised and lowered
    state,              \* of a thread: what it does, and prev
    finished            \* the threads whose call has returned

numberVars == <<number, sample, atomic, state, finished>>

Words == 0 .. (2 ^ Bits - 1)
Shifted(x, k) == x \div (2 ^ k)

\* x |= x >> 1, x |= x >> 2 and so on to half of the width.
Smeared(x) == FoldFunction(LAMBDA k, y : y | Shifted(y, k), x,
                           [j \in {j \in 0 .. Bits : 2 ^ j < Bits} |-> 2 ^ j])
next_pow2(x) == IF x = 0 THEN 1 ELSE (Smeared(x - 1) + 1) % (2 ^ Bits)
is_pow2(x) == x # 0 /\ (x & (x - 1)) = 0

\* The portable loops; the builtins of the compilers give the same.
floor_log2(x) == LET log[n \in Words] == IF n \div 2 = 0 THEN 0 ELSE 1 + log[n \div 2] IN log[x]
ctz(x) == LET zeros[n \in Words] == IF n % 2 = 1 THEN 0 ELSE 1 + zeros[n \div 2] IN zeros[x]
static_floor_log2[n \in Words] == IF n < 2 THEN 0 ELSE 1 + static_floor_log2[n \div 2]

Divides(d, n) == n % d = 0
Gcd(a, b) == Max({d \in 1 .. b : Divides(d, a) /\ Divides(d, b)})
coprime(n) ==
    LET From[x \in 0 .. n] == IF x = 0 THEN 1 ELSE IF Gcd(x, n) = 1 THEN x ELSE From[x - 1]
    IN  IF n < 3 THEN 1 ELSE From[n - 1]

\* Positions in s, and one of them whose element is in the middle.
median_of_three(s, l, m, r) ==
    IF s[l] < s[m]
    THEN IF s[m] < s[r] THEN m ELSE IF s[l] < s[r] THEN r ELSE l
    ELSE IF s[r] < s[m] THEN m ELSE IF s[r] < s[l] THEN r ELSE l

Offset(s) == Len(s) \div 8
Spread(s) == [i \in 0 .. 8 |-> IF i = 8 THEN Len(s) ELSE 1 + i * Offset(s)]
pseudo_median_of_nine(s) ==
    LET p == Spread(s)
    IN  median_of_three(s, median_of_three(s, p[0], p[1], p[2]),
                           median_of_three(s, p[3], p[4], p[5]),
                           median_of_three(s, p[6], p[7], p[8]))

-----------------------------------------------------------------------------
Init ==
    /\ number \in Words /\ sample \in Samples \cup {<<>>}
    /\ number # 0 => sample = <<>>
    /\ atomic = [max |-> 2, min |-> 2]
    /\ state = [t \in Raisers |-> [pc |-> "load", prev |-> 0]]
    /\ finished = {}

Beyond(t, v) == IF t.op = "max" THEN t.value > v ELSE t.value < v

Load(t) ==
    /\ state[t].pc = "load"
    /\ state' = [state EXCEPT ![t] = [pc |-> "compare", prev |-> atomic[t.op]]]
    /\ UNCHANGED <<number, sample, atomic, finished>>

\* A compare-exchange that fails reads the variable again.
CompareExchange(t) ==
    /\ state[t].pc = "compare" /\ Beyond(t, state[t].prev)
    /\ IF atomic[t.op] = state[t].prev
       THEN /\ atomic' = [atomic EXCEPT ![t.op] = t.value]
            /\ state' = [state EXCEPT ![t].pc = "done"] /\ finished' = finished \cup {t}
       ELSE /\ state' = [state EXCEPT ![t].prev = atomic[t.op]]
            /\ UNCHANGED <<atomic, finished>>
    /\ UNCHANGED <<number, sample>>

GiveUp(t) ==
    /\ state[t].pc = "compare" /\ ~Beyond(t, state[t].prev)
    /\ state' = [state EXCEPT ![t].pc = "done"] /\ finished' = finished \cup {t}
    /\ UNCHANGED <<number, sample, atomic>>

\* The threads are tried with one input, the other helpers have no state.
Raising == number = 0 /\ sample = <<>>
Next == Raising /\ \E t \in Raisers : Load(t) \/ CompareExchange(t) \/ GiveUp(t)

-----------------------------------------------------------------------------
Powers == {2 ^ k : k \in 0 .. Bits}

\* The bit tricks give what their names say, but for the numbers whose next power is
\* too large, for which next_pow2 gives zero.
BitsExact ==
    LET x == number
    IN  /\ next_pow2(x) = Min({p \in Powers : p >= x}) % (2 ^ Bits)
        /\ is_pow2(x) <=> x \in Powers
        /\ coprime(x) = Max({1} \cup {c \in 1 .. x - 1 : Gcd(c, x) = 1})
        /\ x > 0 => /\ \A log \in {floor_log2(x), static_floor_log2[x]} :
                          2 ^ log <= x /\ x < 2 ^ (log + 1)
                    /\ Divides(2 ^ ctz(x), x) /\ ~Divides(2 ^ (ctz(x) + 1), x)

\* A median is the position of an element with its share of others on either side:
\* one of three, and three of the nine that are sampled (median_of_three).
Sides(s, p, at) == <<Cardinality({i \in DOMAIN p : s[p[i]] <= s[at]}),
                     Cardinality({i \in DOMAIN p : s[p[i]] >= s[at]})>>
MediansExact ==
    sample # <<>> =>
        LET nine == pseudo_median_of_nine(sample)
            three == [i \in 1 .. 3 |-> 1 + ((i * 2) % Len(sample))]
            middle == median_of_three(sample, three[1], three[2], three[3])
        IN  /\ nine \in DOMAIN sample
            /\ \A k \in 1 .. 2 : Sides(sample, Spread(sample), nine)[k] >= 4
            /\ middle \in {three[i] : i \in 1 .. 3}
            /\ \A k \in 1 .. 2 : Sides(sample, three, middle)[k] >= 2

\* Whatever the others do, after a call the variable is at least, or at most, what
\* was offered, and it holds nothing that nobody offered (atomic_max, atomic_min).
ExtremesExact ==
    /\ \A t \in finished : ~Beyond(t, atomic[t.op])
    /\ \A op \in {"max", "min"} :
          atomic[op] \in {2} \cup {t.value : t \in {u \in Raisers : u.op = op}}

NumbersExact == BitsExact /\ MediansExact /\ ExtremesExact
=============================================================================
