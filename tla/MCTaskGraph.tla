----------------------------- MODULE MCTaskGraph -----------------------------
\* The graphs that are run: acyclic graphs of four static tasks, a loop,
\* a multi-condition, modules in modules, a module in a loop, and sets of
\* tasks that share semaphores.
EXTENDS TaskGraph, TLC

CONSTANTS a, b, c, d, e, s1, s2, s3

\* A graph of the given tasks and edges; the rest is static and at the top.
With0(nodes, succ) ==
    [kind |-> [n \in Node |-> "static"],
     succ |-> [n \in Node |-> IF n \in DOMAIN succ THEN succ[n] ELSE <<>>],
     parent |-> [n \in Node |-> IF n \in nodes THEN Top ELSE NoNode],
     acquire |-> [n \in Node |-> <<>>], release |-> [n \in Node |-> <<>>]]

WithKind(gr, n, kd) == [gr EXCEPT !.kind[n] = kd]
Inside(gr, m, N) == [gr EXCEPT !.kind[m] = "module",
                               !.parent = [n \in Node |-> IF n \in N THEN m ELSE @[n]]]
Using(gr, n, S) == [gr EXCEPT !.acquire[n] = S, !.release[n] = S]

Dags == {With0({a, b, c, d}, a :> A @@ b :> B @@ c :> C) :
            A \in {<<>>, <<b>>, <<b, c>>, <<b, c, d>>},
            B \in {<<>>, <<c>>, <<d>>, <<c, d>>}, C \in {<<>>, <<d>>}}
Loop == WithKind(With0({a, b, c, d}, a :> <<b>> @@ b :> <<c>> @@ c :> <<b, d>>), c, "condition")
Branches == WithKind(With0({a, b, c, d}, a :> <<b, c>> @@ b :> <<d>>), a, "multi")
Nested == Inside(Inside(With0({a, b, c, d, e}, a :> <<e>> @@ c :> <<d>>), a, {b}), b, {c, d})
ModuleLoop == WithKind(Inside(With0({a, b, c, d}, a :> <<b>> @@ b :> <<c>> @@ c :> <<b>>), b, {d}),
                       c, "condition")
Exclusive == Using(Using(Using(With0({a, b, c}, a :> <<>>), a, <<s1, s2>>), b, <<s1, s2>>), c, <<s2>>)
AroundModule == Using(Using(Inside(With0({a, b, c}, a :> <<>>), a, {b}), a, <<s1>>), c, <<s2, s1>>)
CrossedPair == Using(Using(With0({a, b}, a :> <<>>), a, <<s2, s3>>), b, <<s3, s2>>)
MCShapes == Dags \cup {Loop, Branches, Nested, ModuleLoop, Exclusive, AroundModule, CrossedPair}
MCMaxTwo == s1 :> 2 @@ s2 :> 1 @@ s3 :> 1
MCSymmetry == Permutations(Worker)

MCExclusive == {Exclusive}

\* a takes a unit that its successor b gives back, as in tests/test_semaphores.cc, and
\* c needs one too.
HandedOn == Using([With0({a, b, c}, a :> <<b>>) EXCEPT !.acquire[a] = <<s2>>, !.release[b] = <<s2>>],
                  c, <<s2>>)
MCHandedOn == {HandedOn}
=============================================================================
