----------------------------- MODULE Serializer -----------------------------
(***************************************************************************)
(* Serializer and Deserializer (utility/serializer.h): values of nested    *)
(* types are written to a stream of bytes and read back, in order, into    *)
(* variables that hold other values of the same types.                     *)
(*                                                                         *)
(* A type is a record with a kind; a value is a number, a sequence, a set  *)
(* of keys or of <<key, value>> pairs, <<>> or <<v>> for an optional, and  *)
(* <<index, v>> for a variant.  A byte has Base values.  The operands of   *)
(* the fold expressions are evaluated from left to right.                  *)
(***************************************************************************)
EXTENDS Integers, Sequences, FiniteSets, SequencesExt

CONSTANTS
    Base,           \* the values of a byte
    SizeWidth,      \* sizeof(size_type)
    Items,          \* the [type, value] records that may be written
    MaxPending      \* bound on the items in the stream

VARIABLES
    stream,
    pending,        \* what is in the stream: the items, and the count that _save returned
    loaded          \* the last load: what it gave and returned, and what it should

serialVars == <<stream, pending, loaded>>

Sized == {"string", "vector", "list"}
Keyed == {"set", "map"}

Init == stream = <<>> /\ pending = <<>> /\ loaded = <<>>

\* The bytes of a number in memory, and back.
Bytes(v, width) == [i \in 1 .. width |-> (v \div Base ^ (i - 1)) % Base]
Number(s, at, width) ==
    FoldLeft(LAMBDA n, i : n + s[at + i] * Base ^ (i - 1), 0, [i \in 1 .. width |-> i])

Joined(S, T) == {s \o t : s \in S, t \in T}
Order(S) == {f \in [1 .. Cardinality(S) -> S] : ToSet(f) = S}

(***************************************************************************)
(* _save: the byte strings that a value may become.  What a container of   *)
(* keys is written like depends on the order in which it keeps them.       *)
(***************************************************************************)
RECURSIVE Save(_, _)

SaveAll(types, values) ==
    FoldLeft(LAMBDA S, i : Joined(S, Save(types[i], values[i])), {<<>>}, [i \in DOMAIN values |-> i])
SaveCounted(type, values) ==
    Joined({Bytes(Len(values), SizeWidth)}, SaveAll([i \in DOMAIN values |-> type], values))

Pair(T) == [kind |-> "tuple", elements |-> <<T.key, T.mapped>>]
Element(T) == IF T.kind = "map" THEN Pair(T) ELSE T.element

Save(T, v) ==
    CASE T.kind = "number"   -> {Bytes(v, T.width)}
      [] T.kind \in Sized    -> SaveCounted(T.element, v)
      [] T.kind \in Keyed    -> UNION {SaveCounted(Element(T), s) : s \in Order(v)}
      [] T.kind = "array"    -> SaveAll([i \in DOMAIN v |-> T.element], v)
      [] T.kind = "tuple"    -> SaveAll(T.elements, v)
      [] T.kind = "optional" -> Joined({Bytes(Len(v), 1)}, SaveAll([i \in DOMAIN v |-> T.element], v))
      [] T.kind = "variant"  -> Joined({Bytes(v[1] - 1, SizeWidth)}, Save(T.elements[v[1]], v[2]))

(***************************************************************************)
(* _load: the value that a variable with a prior value gets from the       *)
(* stream behind position at, and the position after it.                   *)
(***************************************************************************)
RECURSIVE Default(_), Load(_, _, _, _)

\* T()
Default(T) ==
    CASE T.kind = "number"  -> 0
      [] T.kind \in Sized \cup {"optional"} -> <<>>
      [] T.kind \in Keyed   -> {}
      [] T.kind = "array"   -> [i \in 1 .. T.size |-> Default(T.element)]
      [] T.kind = "tuple"   -> [i \in DOMAIN T.elements |-> Default(T.elements[i])]
      [] T.kind = "variant" -> <<1, Default(T.elements[1])>>

LoadAll(types, priors, s, at) ==
    FoldLeft(LAMBDA r, i : LET x == Load(types[i], priors[i], s, r.at)
                           IN  [value |-> Append(r.value, x.value), at |-> x.at],
             [value |-> <<>>, at |-> at], [i \in DOMAIN priors |-> i])

\* t.resize(n)
Resized(T, prior, n) == [i \in 1 .. n |-> IF i <= Len(prior) THEN prior[i] ELSE Default(T)]

\* A faulty Emptied, without clear().
NotEmptied(prior) == prior

\* t.clear()
Emptied(prior) == {}

\* A container is filled through one variable for all of its keys (and
\* values); a key that was moved may leave its value behind.
LoadKeys(T, prior, n, s, at) ==
    LET r == FoldLeft(LAMBDA x, i : LET k == Load(Element(T), x.key, s, x.at)
                                    IN  [value |-> x.value \cup {k.value}, key |-> k.value, at |-> k.at],
                      [value |-> Emptied(prior), key |-> Default(Element(T)), at |-> at],
                      [i \in 1 .. n |-> i])
    IN  [value |-> r.value, at |-> r.at]

\* The value inside of an optional or variant that holds one of the type is
\* loaded over.
LoadInto(T, prior, s, at) ==
    LET size  == Number(s, at, SizeWidth)
        inner == at + SizeWidth
        index == size + 1
        keeps == T.kind = "variant" /\ prior[1] = index
        x     == Load(T.elements[index], IF keeps THEN prior[2] ELSE Default(T.elements[index]), s, inner)
    IN  CASE T.kind \in Sized ->
               LoadAll([i \in 1 .. size |-> T.element], Resized(T.element, prior, size), s, inner)
          [] T.kind \in Keyed -> LoadKeys(T, prior, size, s, inner)
          [] T.kind = "variant" -> [value |-> <<index, x.value>>, at |-> x.at]

Load(T, prior, s, at) ==
    CASE T.kind = "number"   -> [value |-> Number(s, at, T.width), at |-> at + T.width]
      [] T.kind = "array"    -> LoadAll([i \in DOMAIN prior |-> T.element], prior, s, at)
      [] T.kind = "tuple"    -> LoadAll(T.elements, prior, s, at)
      [] T.kind = "optional" -> LET n == Number(s, at, 1)
                                IN  LoadAll([i \in 1 .. n |-> T.element], Resized(T.element, prior, n), s, at + 1)
      [] OTHER               -> LoadInto(T, prior, s, at)

\* Serializer::operator()
Write(item) ==
    /\ Len(pending) < MaxPending
    /\ \E s \in Save(item.type, item.value) :
          /\ stream' = stream \o s
          /\ pending' = Append(pending, [type |-> item.type, value |-> item.value, count |-> Len(s)])
    /\ loaded' = <<>>

\* Deserializer::operator(), into a variable of the type that was written.
Read(prior) ==
    /\ pending # <<>> /\ prior.type = Head(pending).type
    /\ LET x == Load(prior.type, prior.value, stream, 0)
       IN  /\ loaded' = <<[value |-> x.value, count |-> x.at],
                          [value |-> Head(pending).value, count |-> Head(pending).count]>>
           /\ stream' = SubSeq(stream, x.at + 1, Len(stream))
    /\ pending' = Tail(pending)

Next == \E item \in Items : Write(item) \/ Read(item)
Spec == Init /\ [][Next]_serialVars

-----------------------------------------------------------------------------
\* What is read is what was written, whatever the variable held before and
\* whatever follows in the stream; both sides report the same number of bytes,
\* and an empty stream has nothing left.
RoundTrip ==
    /\ loaded # <<>> => loaded[1] = loaded[2]
    /\ pending = <<>> => stream = <<>>
=============================================================================
