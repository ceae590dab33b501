--------------------------- MODULE NotifierProofs ----------------------------
(***************************************************************************)
(* The three notifiers (core/nonblocking_notifier.h, atomic_notifier.h),   *)
(* for any number of waiters and notifiers: the counters and the stack     *)
(* agree with the waiters, every sleeper has somebody who can wake it, and *)
(* the nonblocking ones implement their atomic event counts, whatever      *)
(* loads, compare-exchanges and spurious wake-ups come between.            *)
(*                                                                         *)
(* The stack and the lists that notify_all and notify_one have taken from  *)
(* it are disjoint lists that end, and hold together the waiters that are  *)
(* asleep and not woken yet (Lists); pushing, popping and taking all keep  *)
(* that.  A pop is right although it compares a word and not the list: in  *)
(* V2 the epoch in the word is the one that the top stored when it was     *)
(* pushed, in V1 no waiter is decided about while the epoch stays, hence   *)
(* what a notifier read below the top is still there (Reads).              *)
(* In V1 the announced waiters that nothing was decided about have the     *)
(* tickets from the epoch on, each its own, so the one that goes ahead is  *)
(* the first of the line (Tickets).  In the atomic notifier a sleeper that *)
(* saw the present epoch is woken by whoever changes it, and the others    *)
(* are covered by a notification that has passed them (Covered).           *)
(***************************************************************************)
EXTENDS MCNotifier, FiniteSetTheorems, SequenceTheorems, TLAPS

----------------------------------------------------------------------------
(* Lists of waiters *)

Linkings == [Waiters -> Waiters \cup {None}]

\* Nothing follows from no waiter.
LEMMA ReachNone == ASSUME NEW f PROVE Reach(f, None) = {}
<1> SUFFICES ASSUME NEW v \in Reach(f, None) PROVE FALSE OBVIOUS
<1>1. {} \in SUBSET Waiters /\ None \in {} \cup {None} /\ \A u \in {} : f[u] \in {} \cup {None} OBVIOUS
<1>2. v \in {} BY <1>1 DEF Reach
<1> QED BY <1>2

\* From a waiter on follow the waiter and what follows from its link on.
LEMMA ReachStep ==
    ASSUME NEW f \in Linkings, NEW w \in Waiters
    PROVE  Reach(f, w) = {w} \cup Reach(f, f[w])
<1>1. ASSUME NEW v \in Reach(f, w), v # w PROVE v \in Reach(f, f[w])
  <2>1. v \in Waiters BY DEF Reach
  <2>2. ASSUME NEW S \in SUBSET Waiters, f[w] \in S \cup {None}, \A u \in S : f[u] \in S \cup {None}
        PROVE  v \in S
    <3>1. S \cup {w} \in SUBSET Waiters OBVIOUS
    <3>2. \A u \in S \cup {w} : f[u] \in (S \cup {w}) \cup {None} BY <2>2
    <3>3. v \in S \cup {w} BY <1>1, <3>1, <3>2 DEF Reach
    <3> QED BY <3>3, <1>1
  <2> QED BY <2>1, <2>2 DEF Reach
<1>2. ASSUME NEW v \in Reach(f, f[w]) PROVE v \in Reach(f, w)
  <2>1. v \in Waiters BY <1>2 DEF Reach
  <2>2. ASSUME NEW S \in SUBSET Waiters, w \in S \cup {None}, \A u \in S : f[u] \in S \cup {None}
        PROVE  v \in S
    <3>1. w \in S BY <2>2, NotifierAssumption DEF NotifierAssumption
    <3>2. f[w] \in S \cup {None} BY <2>2, <3>1
    <3> QED BY <1>2, <2>2, <3>2 DEF Reach
  <2> QED BY <2>1, <2>2 DEF Reach
<1>3. w \in Reach(f, w) BY NotifierAssumption DEF Reach, NotifierAssumption
<1> QED BY <1>1, <1>2, <1>3

\* What follows is closed under links, and what follows from it follows.
LEMMA ReachClosed ==
    ASSUME NEW f \in Linkings, NEW x \in Waiters \cup {None}, NEW v \in Reach(f, x)
    PROVE  /\ v \in Waiters
           /\ f[v] \in Reach(f, x) \cup {None}
           /\ Reach(f, v) \subseteq Reach(f, x)
           /\ Reach(f, f[v]) \subseteq Reach(f, x)
<1>1. v \in Waiters BY DEF Reach
<1>2. Reach(f, v) \subseteq Reach(f, x)
  <2> SUFFICES ASSUME NEW u \in Reach(f, v) PROVE u \in Reach(f, x) OBVIOUS
  <2>1. u \in Waiters BY DEF Reach
  <2>2. ASSUME NEW S \in SUBSET Waiters, x \in S \cup {None}, \A t \in S : f[t] \in S \cup {None}
        PROVE  u \in S
    <3>1. v \in S BY <2>2 DEF Reach
    <3> QED BY <2>2, <3>1 DEF Reach
  <2> QED BY <2>1, <2>2 DEF Reach
<1>3. f[v] \in Waiters \cup {None} BY <1>1 DEF Linkings
<1>4. Reach(f, f[v]) \subseteq Reach(f, x) BY <1>1, <1>2, ReachStep
<1>5. CASE f[v] \in Waiters
  <2>1. f[v] \in Reach(f, f[v]) BY <1>5, ReachStep
  <2> QED BY <1>1, <1>2, <1>4, <2>1
<1>6. CASE f[v] = None BY <1>1, <1>2, <1>4, <1>6
<1> QED BY <1>3, <1>5, <1>6

\* What follows lies in every closed set that it starts in.
LEMMA ReachLeast ==
    ASSUME NEW f \in Linkings, NEW x \in Waiters \cup {None}, NEW S \in SUBSET Waiters,
           x \in S \cup {None}, \A u \in S : f[u] \in S \cup {None}
    PROVE  Reach(f, x) \subseteq S BY DEF Reach

\* Links outside of a list do not matter.
LEMMA ReachSame ==
    ASSUME NEW f \in Linkings, NEW g \in Linkings, NEW x \in Waiters \cup {None},
           \A v \in Reach(f, x) : g[v] = f[v]
    PROVE  Reach(g, x) = Reach(f, x)
<1>0. x \in Reach(f, x) \cup {None} /\ x \in Reach(g, x) \cup {None} BY ReachStep
<1>1. Reach(f, x) \in SUBSET Waiters /\ Reach(g, x) \in SUBSET Waiters BY DEF Reach
<1>2. Reach(g, x) \subseteq Reach(f, x)
  <2>1. \A u \in Reach(f, x) : g[u] \in Reach(f, x) \cup {None} BY ReachClosed
  <2> QED BY <1>0, <1>1, <2>1, ReachLeast
<1>3. Reach(f, x) \subseteq Reach(g, x)
  <2>1. \A u \in Reach(g, x) : f[u] \in Reach(g, x) \cup {None} BY <1>2, ReachClosed
  <2> QED BY <1>0, <1>1, <2>1, ReachLeast
<1> QED BY <1>2, <1>3

LEMMA EndsSame ==
    ASSUME NEW f \in Linkings, NEW g \in Linkings, NEW x \in Waiters \cup {None},
           \A v \in Reach(f, x) : g[v] = f[v], Ends(f, x)
    PROVE  Ends(g, x)
<1>1. Reach(g, x) = Reach(f, x) BY ReachSame
<1> SUFFICES ASSUME NEW v \in Reach(f, x) PROVE v \notin Reach(g, g[v]) BY <1>1 DEF Ends
<1>2. g[v] = f[v] /\ f[v] \in Waiters \cup {None} /\ Reach(f, f[v]) \subseteq Reach(f, x)
  <2>1. f[v] \in Waiters \cup {None} BY ReachClosed
  <2>2. Reach(f, f[v]) \subseteq Reach(f, x) BY ReachClosed
  <2> QED BY <2>1, <2>2
<1>3. Reach(g, f[v]) = Reach(f, f[v]) BY <1>2, ReachSame
<1> QED BY <1>2, <1>3 DEF Ends

\* The head of a list that ends is not in the rest of it, which ends.
LEMMA EndsRest ==
    ASSUME NEW f \in Linkings, NEW w \in Waiters, Ends(f, w)
    PROVE  w \notin Reach(f, f[w]) /\ Ends(f, f[w]) /\ f[w] \in Waiters \cup {None}
<1>1. Reach(f, w) = {w} \cup Reach(f, f[w]) BY ReachStep
<1> QED BY <1>1 DEF Ends, Linkings

LEMMA EndsNone == ASSUME NEW f PROVE Ends(f, None) BY ReachNone DEF Ends

\* A waiter put in front of a list that it is not in.
LEMMA EndsPush ==
    ASSUME NEW f \in Linkings, NEW w \in Waiters, Ends(f, f[w]), w \notin Reach(f, f[w])
    PROVE  Ends(f, w) BY ReachStep DEF Ends

----------------------------------------------------------------------------
(* Disjoint lists *)

\* The lists with the heads h end, have no waiter in common, and hold A together.
Partition(f, I, h, A) ==
    /\ \A i \in I : Ends(f, h[i]) /\ Reach(f, h[i]) \subseteq A
    /\ \A i, j \in I : i # j => Reach(f, h[i]) \cap Reach(f, h[j]) = {}
    /\ \A w \in A : \E i \in I : w \in Reach(f, h[i])

Heads(I) == [I -> Waiters \cup {None}]

LEMMA PartitionSame ==
    ASSUME NEW f \in Linkings, NEW g \in Linkings, NEW I, NEW h \in Heads(I),
           NEW A \in SUBSET Waiters, Partition(f, I, h, A), \A v \in A : g[v] = f[v]
    PROVE  /\ Partition(g, I, h, A)
           /\ \A i \in I : Reach(g, h[i]) = Reach(f, h[i])
<1>1. ASSUME NEW i \in I PROVE Reach(g, h[i]) = Reach(f, h[i]) /\ Ends(g, h[i])
  <2>1. h[i] \in Waiters \cup {None} BY DEF Heads
  <2>2. \A v \in Reach(f, h[i]) : g[v] = f[v] BY DEF Partition
  <2>3. Ends(f, h[i]) BY DEF Partition
  <2> QED BY <2>1, <2>2, <2>3, ReachSame, EndsSame
<1> QED BY <1>1 DEF Partition

LEMMA PartitionPush ==
    ASSUME NEW f \in Linkings, NEW I, NEW h \in Heads(I), NEW A \in SUBSET Waiters,
           NEW w \in Waiters, NEW i \in I,
           Partition(f, I, h, A), w \notin A, f[w] = h[i]
    PROVE  /\ Partition(f, I, [h EXCEPT ![i] = w], A \cup {w})
           /\ Reach(f, w) = Reach(f, h[i]) \cup {w}
<1> DEFINE g == [h EXCEPT ![i] = w]
<1>1. Reach(f, w) = Reach(f, h[i]) \cup {w} BY ReachStep
<1>2. Ends(f, w)
  <2>1. Ends(f, f[w]) /\ w \notin Reach(f, f[w]) BY DEF Partition
  <2> QED BY <2>1, EndsPush
<1>3. g[i] = w /\ \A j \in I \ {i} : g[j] = h[j] BY DEF Heads
<1>4. ASSUME NEW j \in I PROVE Ends(f, g[j]) /\ Reach(f, g[j]) \subseteq A \cup {w}
  BY <1>1, <1>2, <1>3 DEF Partition
<1>5. ASSUME NEW j \in I, NEW k \in I, j # k PROVE Reach(f, g[j]) \cap Reach(f, g[k]) = {}
  <2>1. \A l \in I : w \notin Reach(f, h[l]) BY DEF Partition
  <2>2. Reach(f, h[j]) \cap Reach(f, h[k]) = {} BY <1>5 DEF Partition
  <2> QED BY <1>1, <1>3, <1>5, <2>1, <2>2
<1>6. ASSUME NEW v \in A \cup {w} PROVE \E j \in I : v \in Reach(f, g[j])
  <2>1. CASE v = w BY <2>1, <1>1, <1>3
  <2>2. CASE v # w
    <3>1. PICK j \in I : v \in Reach(f, h[j]) BY <2>2, <1>6 DEF Partition
    <3> QED BY <3>1, <1>1, <1>3
  <2> QED BY <2>1, <2>2
<1> HIDE DEF g
<1>7. Partition(f, I, g, A \cup {w}) BY <1>4, <1>5, <1>6 DEF Partition
<1> QED BY <1>1, <1>7 DEF g

\* One list changes its head with an empty one.
LEMMA PartitionTake ==
    ASSUME NEW f, NEW I, NEW h \in Heads(I), NEW A \in SUBSET Waiters,
           NEW i \in I, NEW j \in I, i # j,
           Partition(f, I, h, A), h[j] = None
    PROVE  Partition(f, I, [h EXCEPT ![i] = None, ![j] = h[i]], A)
<1> DEFINE g == [h EXCEPT ![i] = None, ![j] = h[i]]
<1>1. g[i] = None /\ g[j] = h[i] /\ \A k \in I \ {i, j} : g[k] = h[k] BY DEF Heads
<1>2. Reach(f, None) = {} /\ Ends(f, None) BY ReachNone, EndsNone
<1> HIDE DEF g
<1>3. \A k \in I : Ends(f, g[k]) /\ Reach(f, g[k]) \subseteq A
  <2> TAKE k \in I
  <2>1. Ends(f, h[k]) /\ Reach(f, h[k]) \subseteq A /\ Ends(f, h[i]) /\ Reach(f, h[i]) \subseteq A
    BY DEF Partition
  <2> QED BY <1>1, <1>2, <2>1
<1>4. ASSUME NEW k \in I, NEW l \in I, k # l PROVE Reach(f, g[k]) \cap Reach(f, g[l]) = {}
  <2>1. /\ Reach(f, h[k]) \cap Reach(f, h[l]) = {}
        /\ k # i => Reach(f, h[k]) \cap Reach(f, h[i]) = {}
        /\ l # i => Reach(f, h[i]) \cap Reach(f, h[l]) = {} BY <1>4 DEF Partition
  <2>2. CASE k = i \/ l = i BY <1>1, <1>2, <2>2
  <2>3. CASE k = j /\ l # i BY <1>1, <1>4, <2>1, <2>3
  <2>4. CASE l = j /\ k # i BY <1>1, <1>4, <2>1, <2>4
  <2>5. CASE k \notin {i, j} /\ l \notin {i, j} BY <1>1, <2>1, <2>5
  <2> QED BY <2>2, <2>3, <2>4, <2>5
<1>5. ASSUME NEW v \in A PROVE \E k \in I : v \in Reach(f, g[k])
  <2>1. PICK k \in I : v \in Reach(f, h[k]) BY <1>5 DEF Partition
  <2>2. CASE k = i BY <2>1, <2>2, <1>1
  <2>3. CASE k = j BY <2>1, <2>3, <1>2
  <2>4. CASE k \notin {i, j} BY <2>1, <2>4, <1>1
  <2> QED BY <2>2, <2>3, <2>4
<1>6. Partition(f, I, g, A) BY <1>3, <1>4, <1>5 DEF Partition
<1> QED BY <1>6 DEF g

\* The head w of the list i is cut off and becomes the list j, which was empty.
Cut(f, e, I, h, g, A, i, j, w, b) ==
    /\ f \in Linkings /\ e \in Linkings /\ h \in Heads(I) /\ A \in SUBSET Waiters
    /\ i \in I /\ j \in I /\ i # j /\ w \in Waiters
    /\ Partition(f, I, h, A)
    /\ h[i] = w /\ h[j] = None /\ f[w] = b
    /\ e[w] = None /\ \A v \in Waiters \ {w} : e[v] = f[v]
    /\ g[i] = b /\ g[j] = w /\ \A k \in I \ {i, j} : g[k] = h[k]

LEMMA PartitionPop ==
    ASSUME NEW f, NEW e, NEW I, NEW h, NEW g, NEW A, NEW i, NEW j, NEW w, NEW b,
           Cut(f, e, I, h, g, A, i, j, w, b)
    PROVE  Partition(e, I, g, A) /\ Reach(e, b) = Reach(f, w) \ {w}
<1>t. /\ f \in Linkings /\ e \in Linkings /\ h \in Heads(I) /\ A \in SUBSET Waiters
      /\ i \in I /\ j \in I /\ i # j /\ w \in Waiters /\ b \in Waiters \cup {None}
      /\ Partition(f, I, h, A) /\ h[i] = w /\ h[j] = None /\ f[w] = b BY DEF Cut, Linkings
<1> USE <1>t
<1>0. e[w] = None /\ \A v \in Waiters \ {w} : e[v] = f[v] BY DEF Cut
<1>1. g[i] = b /\ g[j] = w /\ \A k \in I \ {i, j} : g[k] = h[k] BY DEF Cut
<1>2. Reach(e, w) = {w} /\ Ends(e, w)
  <2>1. Reach(e, w) = {w} BY <1>0, ReachStep, ReachNone
  <2>2. w \notin Reach(e, e[w]) BY <1>0, ReachNone
  <2> QED BY <2>1, <2>2 DEF Ends
<1>3. Ends(f, w) BY DEF Partition
<1>4. w \notin Reach(f, b) /\ Ends(f, b) /\ b \in Waiters \cup {None} BY <1>3, EndsRest
<1>5. Reach(f, w) = {w} \cup Reach(f, b) BY ReachStep
<1>6. \A v \in Reach(f, b) : e[v] = f[v] BY <1>0, <1>4 DEF Reach
<1>7. Reach(e, b) = Reach(f, b) /\ Ends(e, b) BY <1>0, <1>4, <1>6, ReachSame, EndsSame
<1>8. Reach(e, b) = Reach(f, w) \ {w} BY <1>4, <1>5, <1>7
<1>9. ASSUME NEW k \in I, k # i PROVE Reach(e, h[k]) = Reach(f, h[k]) /\ Ends(e, h[k])
  <2>1. h[k] \in Waiters \cup {None} BY DEF Heads
  <2>2. w \notin Reach(f, h[k]) BY <1>5, <1>9 DEF Partition
  <2>3. \A v \in Reach(f, h[k]) : e[v] = f[v] BY <1>0, <2>2 DEF Reach
  <2>4. Ends(f, h[k]) BY DEF Partition
  <2> QED BY <1>0, <2>1, <2>3, <2>4, ReachSame, EndsSame
<1>10. Reach(f, w) \subseteq A BY DEF Partition
<1>11. \A k \in I : Ends(e, g[k]) /\ Reach(e, g[k]) \subseteq A
  <2> TAKE k \in I
  <2>1. CASE k = i BY <2>1, <1>1, <1>7, <1>8, <1>10
  <2>2. CASE k = j BY <2>2, <1>1, <1>2, <1>5, <1>10
  <2>3. CASE k \notin {i, j}
    <3>1. Reach(e, h[k]) = Reach(f, h[k]) /\ Ends(e, h[k]) BY <1>9, <2>3
    <3>2. Reach(f, h[k]) \subseteq A BY DEF Partition
    <3> QED BY <3>1, <3>2, <2>3, <1>1
  <2> QED BY <2>1, <2>2, <2>3
<1>12. ASSUME NEW k \in I \ {i, j} PROVE Reach(e, g[k]) = Reach(f, h[k]) /\ Reach(f, h[k]) \cap Reach(f, w) = {}
  BY <1>1, <1>9 DEF Partition
<1>13. Reach(e, g[i]) = Reach(f, w) \ {w} /\ Reach(e, g[j]) = {w} BY <1>1, <1>2, <1>8
<1>14. ASSUME NEW k \in I, NEW l \in I, k # l PROVE Reach(e, g[k]) \cap Reach(e, g[l]) = {}
  <2>0. w \in Reach(f, w) BY <1>5
  <2>1. CASE k \notin {i, j} /\ l \notin {i, j}
    <3>1. Reach(f, h[k]) \cap Reach(f, h[l]) = {} BY <1>14 DEF Partition
    <3> QED BY <1>12, <2>1, <3>1
  <2>2. CASE k \notin {i, j} /\ l \in {i, j} BY <1>12, <1>13, <2>0, <2>2
  <2>3. CASE k \in {i, j} /\ l \notin {i, j} BY <1>12, <1>13, <2>0, <2>3
  <2>4. CASE k \in {i, j} /\ l \in {i, j} BY <1>13, <1>14, <2>4
  <2> QED BY <2>1, <2>2, <2>3, <2>4
<1>15. ASSUME NEW v \in A PROVE \E k \in I : v \in Reach(e, g[k])
  <2>1. PICK k \in I : v \in Reach(f, h[k]) BY <1>15 DEF Partition
  <2>2. CASE k = i BY <2>1, <2>2, <1>13
  <2>3. CASE k = j BY <2>1, <2>3, ReachNone
  <2>4. CASE k \notin {i, j} BY <2>1, <2>4, <1>12
  <2> QED BY <2>2, <2>3, <2>4
<1>16. Partition(e, I, g, A) BY <1>11, <1>14, <1>15 DEF Partition
<1> QED BY <1>8, <1>16

\* The head of a list leaves it.
LEMMA PartitionDrop ==
    ASSUME NEW f \in Linkings, NEW I, NEW h \in Heads(I), NEW A \in SUBSET Waiters,
           NEW j \in I, Partition(f, I, h, A), NEW w \in Waiters, w = h[j], NEW b, b = f[w]
    PROVE  /\ Partition(f, I, [h EXCEPT ![j] = b], A \ {w})
           /\ Reach(f, b) = Reach(f, w) \ {w}
<1> DEFINE g == [h EXCEPT ![j] = b]
<1>1. g[j] = b /\ \A k \in I \ {j} : g[k] = h[k] BY DEF Heads
<1> HIDE DEF g
<1>3. Ends(f, w) BY DEF Partition
<1>4. w \notin Reach(f, b) /\ Ends(f, b) /\ b \in Waiters \cup {None} BY <1>3, EndsRest
<1>5. Reach(f, w) = {w} \cup Reach(f, b) BY ReachStep
<1>6. Reach(f, b) = Reach(f, w) \ {w} BY <1>4, <1>5
<1>7. ASSUME NEW k \in I PROVE Ends(f, g[k]) /\ Reach(f, g[k]) \subseteq A \ {w}
  <2>1. CASE k = j BY <2>1, <1>1, <1>4, <1>6 DEF Partition
  <2>2. CASE k # j
    <3>1. w \notin Reach(f, h[k]) BY <2>2, <1>5 DEF Partition
    <3> QED BY <3>1, <2>2, <1>1 DEF Partition
  <2> QED BY <2>1, <2>2
<1>8. ASSUME NEW k \in I, NEW l \in I, k # l PROVE Reach(f, g[k]) \cap Reach(f, g[l]) = {}
  <2>1. Reach(f, h[k]) \cap Reach(f, h[l]) = {} BY <1>8 DEF Partition
  <2> QED BY <2>1, <1>1, <1>6, <1>8
<1>9. ASSUME NEW v \in A \ {w} PROVE \E k \in I : v \in Reach(f, g[k])
  <2>1. PICK k \in I : v \in Reach(f, h[k]) BY <1>9 DEF Partition
  <2> QED BY <2>1, <1>1, <1>6, <1>9
<1>10. Partition(f, I, g, A \ {w}) BY <1>7, <1>8, <1>9 DEF Partition
<1> QED BY <1>6, <1>10 DEF g

Asleep(w) == pc[w] \in {"park", "blocked"}

\* The sleeper from which on a notifier has still to unpark.
Start(n) ==
    IF pc[n] = "unpark" THEN cur[n] ELSE IF pc[n] = "wake" THEN below[n].stack ELSE None

\* Those that own a list: the notifiers, and the word the stack.
WordOwner == CHOOSE x : x \notin Notifiers
Owners == Notifiers \cup {WordOwner}
Tops == [i \in Owners |-> IF i \in Notifiers THEN Start(i) ELSE state.stack]

\* The sleepers that nobody has signaled are in the lists, each in one.
Linked == {w \in Waiters : Asleep(w) /\ wstate[w] # "signaled"}
Lists == Partition(Links, Owners, Tops, Linked)

\* The places of each kind of thread, and what a notifier's place says of what it holds.
Places ==
    /\ \A w \in Waiters : pc[w] \in WaiterPC
    /\ \A n \in Notifiers : pc[n] \in NotifierPC
    /\ \A n \in Notifiers : pc[n] \in {"unpark", "wake"} => cur[n] \in Waiters
    /\ \A n \in Notifiers : pc[n] = "next" => ~all[n] /\ seen[n].signals >= seen[n].waiters
    /\ \A n \in Notifiers : pc[n] \in {"next", "swap"} /\ ~all[n] /\ seen[n].signals >= seen[n].waiters
                               => seen[n].stack \in Waiters

\* A waiter that has not gone to sleep yet is not signaled, and it links itself above
\* the top that it saw; one that is signaled while it blocks is about to be woken.
Committing(w) ==
    /\ pc[w] \in {"commit", "push"} => wstate[w] = "notsignaled"
    /\ pc[w] = "push" /\ seen[w].signals = 0 => next[w] = TopOf(seen[w])
    /\ pc[w] = "blocked" => wstate[w] # "notsignaled"
    /\ pc[w] = "blocked" /\ wstate[w] = "signaled"
         => \E n \in Notifiers : pc[n] = "wake" /\ cur[n] = w

\* Whatever points to a waiter on the stack has the epoch that it was pushed with, and
\* no copy of the word has one that a later push will have.
Epochs ==
    /\ state.stack # None => state.epoch = epoch[state.stack] - 1
    /\ \A w \in Stacked : next[w].stack # None => next[w].epoch = epoch[next[w].stack] - 1
    /\ \A t \in Threads : seen[t].stack # None => seen[t].epoch < epoch[seen[t].stack]

\* What a notifier has read below the top is still there while the top is.
Reads(n) ==
    pc[n] = "swap" /\ ~all[n] /\ seen[n].signals >= seen[n].waiters
      /\ seen[n].stack \in Stacked /\ seen[n].epoch = epoch[seen[n].stack] - 1
    => below[n] = next[seen[n].stack]

IInv == /\ TypeOK /\ CountersAgree /\ Places
        /\ \A w \in Waiters : Committing(w)
        /\ Lists /\ Epochs
        /\ \A n \in Notifiers : Reads(n)

----------------------------------------------------------------------------
(* Types and places *)

LEMMA Threads2 ==
    /\ \A w \in Waiters : w \in Threads /\ w \notin Notifiers /\ w # None
    /\ \A n \in Notifiers : n \in Threads /\ n \notin Waiters
  BY NotifierAssumption DEF NotifierAssumption, Threads

LEMMA PrewaitingFinite ==
    /\ IsFiniteSet(Prewaiting)
    /\ Cardinality(Prewaiting) \in Nat
    /\ \A w \in Prewaiting : Cardinality(Prewaiting) > 0
<1>1. Prewaiting \subseteq Waiters BY DEF Prewaiting
<1>2. IsFiniteSet(Prewaiting) BY <1>1, FS_Subset, NotifierAssumption DEF NotifierAssumption
<1>3. Cardinality(Prewaiting) \in Nat BY <1>2, FS_CardinalityType
<1>4. ASSUME NEW w \in Prewaiting PROVE Cardinality(Prewaiting) > 0 BY <1>2, <1>3, <1>4, FS_EmptySet
<1> QED BY <1>2, <1>3, <1>4

LEMMA WordFacts ==
    ASSUME TypeOK
    PROVE  /\ state.stack \in Waiters \cup {None} /\ state.epoch \in Nat
           /\ state.waiters \in Nat /\ state.signals \in Nat
           /\ \A t \in Threads : /\ seen[t] \in Word
                                 /\ seen[t].stack \in Waiters \cup {None} /\ seen[t].epoch \in Nat
                                 /\ seen[t].waiters \in Nat /\ seen[t].signals \in Nat
           /\ \A w \in Waiters : next[w] \in Top /\ next[w].stack \in Waiters \cup {None} /\ next[w].epoch \in Nat
           /\ NoWord \in Word /\ NoTop \in Top BY DEF TypeOK, Word, Top, NoWord, NoTop

\* What the new words are.
LEMMA NewWords ==
    ASSUME NEW s \in Word, NEW w \in Waiters, NEW e \in Nat
    PROVE  /\ [s EXCEPT !.waiters = @ + 1] \in Word
           /\ [s EXCEPT !.signals = @ + 1] \in Word
           /\ s.waiters > 0 => [s EXCEPT !.stack = w, !.epoch = e, !.waiters = @ - 1] \in Word
           /\ s.waiters > 0 /\ s.signals > 0 => [s EXCEPT !.waiters = @ - 1, !.signals = @ - 1] \in Word
           /\ s.waiters > 0 =>
                [s EXCEPT !.waiters = @ - 1, !.signals = IF s.waiters = @ THEN @ - 1 ELSE @] \in Word
<1>1. s.waiters \in Nat /\ s.signals \in Nat /\ s.epoch \in Nat /\ s.stack \in Waiters \cup {None}
  BY DEF Word
<1>2. [s EXCEPT !.waiters = @ + 1] \in Word BY DEF Word
<1>3. [s EXCEPT !.signals = @ + 1] \in Word BY DEF Word
<1>4. ASSUME s.waiters > 0 PROVE [s EXCEPT !.stack = w, !.epoch = e, !.waiters = @ - 1] \in Word
  <2>1. s.waiters - 1 \in Nat BY <1>1, <1>4
  <2> QED BY <2>1 DEF Word
<1>5. ASSUME s.waiters > 0, s.signals > 0 PROVE [s EXCEPT !.waiters = @ - 1, !.signals = @ - 1] \in Word
  <2>1. s.waiters - 1 \in Nat /\ s.signals - 1 \in Nat BY <1>1, <1>5
  <2> QED BY <2>1 DEF Word
<1>6. ASSUME s.waiters > 0
      PROVE  [s EXCEPT !.waiters = @ - 1, !.signals = IF s.waiters = @ THEN @ - 1 ELSE @] \in Word
  <2>1. s.waiters - 1 \in Nat BY <1>1, <1>6
  <2>2. (IF s.waiters = s.signals THEN s.signals - 1 ELSE s.signals) \in Nat BY <1>1, <1>6
  <2> QED BY <2>1, <2>2 DEF Word
<1> QED BY <1>2, <1>3, <1>4, <1>5, <1>6

----------------------------------------------------------------------------
(* What the actions do *)

PCs == WaiterPC \cup NotifierPC

\* Thread t goes on at l, and the others stay where they are.
Goes(t, l) == pc'[t] = l /\ (\A u \in Threads \ {t} : pc'[u] = pc[u]) /\ pc' \in [Threads -> PCs]

\* Thread t has s as its copy of the word now, and the others have theirs.
Sees(t, s) == seen'[t] = s /\ (\A u \in Threads \ {t} : seen'[u] = seen[u]) /\ seen' \in [Threads -> Word]

LEMMA GotoGoes ==
    ASSUME TypeOK, NEW t \in Threads, NEW l \in PCs, Goto(t, l)
    PROVE  Goes(t, l) BY DEF TypeOK, Goto, Goes, PCs

LEMMA LoadSees ==
    ASSUME TypeOK, NEW t \in Threads, NEW l \in PCs, Load(t, l)
    PROVE  Goes(t, l) /\ Sees(t, state) BY GotoGoes DEF TypeOK, Load, Sees

LEMMA ForgetSees ==
    ASSUME TypeOK, NEW t \in Threads, NEW s \in Word, seen' = [seen EXCEPT ![t] = s]
    PROVE  Sees(t, s) BY DEF TypeOK, Sees

\* A compare-and-swap takes effect on the word that the thread has seen, or the
\* thread sees the word anew.
LEMMA SwapEffect ==
    ASSUME TypeOK, NEW t \in Threads, NEW new, NEW l \in PCs, NEW k \in PCs, Swap(t, new, l, k)
    PROVE  \/ state = seen[t] /\ state' = new /\ Goes(t, l) /\ Sees(t, NoWord)
           \/ state # seen[t] /\ state' = state /\ Goes(t, k) /\ Sees(t, state)
<1>1. NoWord \in Word BY WordFacts
<1> QED BY <1>1, GotoGoes, LoadSees, ForgetSees DEF Swap

BranchTo(a) ==
    IF NobodyWaits THEN "idle" ELSE IF a \/ state.signals < state.waiters THEN "swap" ELSE "next"

LEMMA BranchEffect ==
    ASSUME TypeOK, NEW n \in Notifiers, NEW a \in BOOLEAN, Branch(n, a)
    PROVE  /\ Goes(n, BranchTo(a))
           /\ Sees(n, IF NobodyWaits THEN NoWord ELSE state)
<1>1. NoWord \in Word /\ n \in Threads BY WordFacts, Threads2
<1>2. "idle" \in PCs /\ "swap" \in PCs /\ "next" \in PCs BY DEF PCs, NotifierPC
<1>3. CASE NobodyWaits BY <1>1, <1>2, <1>3, GotoGoes, ForgetSees DEF Branch, BranchTo
<1>4. CASE ~NobodyWaits
  <2>1. Load(n, IF a \/ state.signals < state.waiters THEN "swap" ELSE "next") BY <1>4 DEF Branch
  <2>2. BranchTo(a) = (IF a \/ state.signals < state.waiters THEN "swap" ELSE "next") BY <1>4 DEF BranchTo
  <2>3. BranchTo(a) \in PCs BY <1>2, <2>2
  <2> QED BY <1>1, <1>4, <2>1, <2>2, <2>3, LoadSees
<1> QED BY <1>3, <1>4

LEMMA SwapOrBranchEffect ==
    ASSUME TypeOK, NEW n \in Notifiers, NEW new, NEW l \in PCs, SwapOrBranch(n, new, l)
    PROVE  \/ state = seen[n] /\ state' = new /\ Goes(n, l) /\ Sees(n, NoWord)
           \/ /\ state # seen[n] /\ state' = state
              /\ Goes(n, BranchTo(all[n]))
              /\ Sees(n, IF NobodyWaits THEN NoWord ELSE state)
<1>1. n \in Threads BY Threads2
<1>2. CASE state = seen[n]
  <2>1. Swap(n, new, l, l) BY <1>2 DEF SwapOrBranch
  <2> QED BY <1>1, <1>2, <2>1, SwapEffect
<1>3. CASE state # seen[n]
  <2>1. Branch(n, all[n]) /\ state' = state BY <1>3 DEF SwapOrBranch
  <2>2. all[n] \in BOOLEAN BY DEF TypeOK
  <2> QED BY <1>3, <2>1, <2>2, BranchEffect
<1> QED BY <1>2, <1>3

At1(g, f, x, v) == g[x] = v /\ \A y \in Waiters \ {x} : g[y] = f[y]
At2(g, f, x, v) == g[x] = v /\ \A y \in Notifiers \ {x} : g[y] = f[y]

LEMMA PlacesExist ==
    /\ {"out", "recheck", "commit", "push", "cancel", "take", "park", "blocked"} \subseteq PCs
    /\ {"idle", "next", "swap", "unpark", "wake"} \subseteq PCs BY DEF PCs, WaiterPC, NotifierPC

LEMMA PrepareWaitEffect ==
    ASSUME TypeOK, NEW w \in Waiters, PrepareWait(w)
    PROVE  /\ pc[w] = "out" /\ Goes(w, "recheck")
           /\ state' = [state EXCEPT !.waiters = @ + 1]
           /\ UNCHANGED <<next, epoch, wstate, seen, below, all, cur>>
  BY Threads2, PlacesExist, GotoGoes DEF PrepareWait

LEMMA CommitBeginEffect ==
    ASSUME TypeOK, NEW w \in Waiters, CommitBegin(w)
    PROVE  /\ pc[w] = "recheck" /\ Goes(w, "commit") /\ Sees(w, state)
           /\ At1(wstate', wstate, w, "notsignaled")
           /\ wstate' \in [Waiters -> {"notsignaled", "waiting", "signaled"}]
           /\ UNCHANGED <<state, next, epoch, below, all, cur>>
<1>1. Goes(w, "commit") /\ Sees(w, state) BY Threads2, PlacesExist, LoadSees DEF CommitBegin
<1> QED BY <1>1 DEF CommitBegin, At1, TypeOK

LEMMA CancelBeginEffect ==
    ASSUME TypeOK, NEW w \in Waiters, CancelBegin(w)
    PROVE  /\ pc[w] = "recheck" /\ Goes(w, "cancel") /\ Sees(w, state)
           /\ UNCHANGED <<state, next, epoch, wstate, below, all, cur>>
  BY Threads2, PlacesExist, LoadSees DEF CancelBegin

LEMMA CommitLinkEffect ==
    ASSUME TypeOK, NEW w \in Waiters, CommitLink(w)
    PROVE  /\ pc[w] = "commit" /\ Goes(w, "push")
           /\ At1(next', next, w, IF seen[w].signals = 0 THEN TopOf(seen[w]) ELSE next[w])
           /\ next' \in [Waiters -> Top]
           /\ UNCHANGED <<state, epoch, wstate, seen, below, all, cur>>
<1>1. Goes(w, "push") BY Threads2, PlacesExist, GotoGoes DEF CommitLink
<1>2. TopOf(seen[w]) \in Top BY Threads2, WordFacts DEF TopOf, Top
<1>3. next \in [Waiters -> Top] BY DEF TypeOK
<1> QED BY <1>1, <1>2, <1>3 DEF CommitLink, At1

LEMMA CommitSwapEffect ==
    ASSUME TypeOK, NEW w \in Waiters, CommitSwap(w)
    PROVE  /\ pc[w] = "push"
           /\ UNCHANGED <<next, wstate, below, all, cur>>
           /\ \/ /\ state # seen[w] /\ Goes(w, "commit") /\ Sees(w, state)
                 /\ UNCHANGED <<state, epoch>>
              \/ /\ state = seen[w] /\ state.signals > 0 /\ state.signals # 0
                 /\ Goes(w, "out") /\ Sees(w, NoWord) /\ UNCHANGED epoch
                 /\ state' = [state EXCEPT !.waiters = @ - 1, !.signals = @ - 1]
              \/ /\ state = seen[w] /\ state.signals = 0
                 /\ Goes(w, "park") /\ Sees(w, NoWord)
                 /\ At1(epoch', epoch, w, epoch[w] + 1) /\ epoch' \in [Waiters -> Nat]
                 /\ state' = [state EXCEPT !.stack = w, !.epoch = epoch[w], !.waiters = @ - 1]
<1>1. pc[w] = "push" /\ UNCHANGED <<next, wstate, below, all, cur>> BY DEF CommitSwap
<1>2. w \in Threads BY Threads2
<1>3. CASE seen[w].signals > 0
          /\ Swap(w, [seen[w] EXCEPT !.waiters = @ - 1, !.signals = @ - 1], "out", "commit")
          /\ UNCHANGED epoch
  <2>1. \/ /\ state = seen[w] /\ state' = [seen[w] EXCEPT !.waiters = @ - 1, !.signals = @ - 1]
           /\ Goes(w, "out") /\ Sees(w, NoWord)
        \/ state # seen[w] /\ state' = state /\ Goes(w, "commit") /\ Sees(w, state)
    BY <1>2, <1>3, PlacesExist, SwapEffect
  <2>2. seen[w].signals # 0 BY <1>2, <1>3, WordFacts
  <2> QED BY <1>1, <1>3, <2>1, <2>2
<1>4. CASE /\ seen[w].signals = 0
           /\ Swap(w, [seen[w] EXCEPT !.stack = w, !.epoch = epoch[w], !.waiters = @ - 1], "park", "commit")
           /\ epoch' = IF state = seen[w] THEN [epoch EXCEPT ![w] = @ + 1] ELSE epoch
  <2>1. \/ /\ state = seen[w] /\ state' = [seen[w] EXCEPT !.stack = w, !.epoch = epoch[w], !.waiters = @ - 1]
           /\ Goes(w, "park") /\ Sees(w, NoWord)
        \/ state # seen[w] /\ state' = state /\ Goes(w, "commit") /\ Sees(w, state)
    BY <1>2, <1>4, PlacesExist, SwapEffect
  <2>2. epoch \in [Waiters -> Nat] BY DEF TypeOK
  <2>3. state = seen[w] => At1(epoch', epoch, w, epoch[w] + 1) /\ epoch' \in [Waiters -> Nat]
    BY <1>4, <2>2 DEF At1
  <2> QED BY <1>1, <1>4, <2>1, <2>3
<1> QED BY <1>3, <1>4 DEF CommitSwap

LEMMA ParkEffect ==
    ASSUME TypeOK, NEW w \in Waiters, Park(w)
    PROVE  /\ pc[w] = "park"
           /\ UNCHANGED <<state, next, epoch, seen, below, all, cur>>
           /\ \/ wstate[w] = "signaled" /\ Goes(w, "out") /\ UNCHANGED wstate
              \/ /\ wstate[w] # "signaled" /\ Goes(w, "blocked")
                 /\ At1(wstate', wstate, w, "waiting")
                 /\ wstate' \in [Waiters -> {"notsignaled", "waiting", "signaled"}]
<1>1. w \in Threads BY Threads2
<1>2. Goto(w, "out") => Goes(w, "out") BY <1>1, PlacesExist, GotoGoes
<1>3. Goto(w, "blocked") => Goes(w, "blocked") BY <1>1, PlacesExist, GotoGoes
<1> QED BY <1>2, <1>3 DEF Park, At1, TypeOK

LEMMA SpuriousEffect ==
    ASSUME TypeOK, NEW w \in Waiters, SpuriousWakeup(w)
    PROVE  /\ pc[w] = "blocked" /\ Goes(w, "park")
           /\ UNCHANGED <<state, next, epoch, wstate, seen, below, all, cur>>
  BY Threads2, PlacesExist, GotoGoes DEF SpuriousWakeup

LEMMA CancelSwapEffect ==
    ASSUME TypeOK, NEW w \in Waiters, CancelSwap(w)
    PROVE  /\ pc[w] = "cancel"
           /\ UNCHANGED <<next, epoch, wstate, below, all, cur>>
           /\ \/ /\ state # seen[w] /\ Goes(w, "cancel") /\ Sees(w, state) /\ UNCHANGED state
              \/ /\ state = seen[w] /\ Goes(w, "out") /\ Sees(w, NoWord)
                 /\ state' = [state EXCEPT !.waiters = @ - 1,
                                           !.signals = IF state.waiters = @ THEN @ - 1 ELSE @]
<1>1. w \in Threads BY Threads2
<1> DEFINE new == [seen[w] EXCEPT !.waiters = @ - 1, !.signals = IF seen[w].waiters = @ THEN @ - 1 ELSE @]
<1>2. Swap(w, new, "out", "cancel") /\ pc[w] = "cancel" /\ UNCHANGED <<next, epoch, wstate, below, all, cur>>
  BY DEF CancelSwap
<1>3. \/ state = seen[w] /\ state' = new /\ Goes(w, "out") /\ Sees(w, NoWord)
      \/ state # seen[w] /\ state' = state /\ Goes(w, "cancel") /\ Sees(w, state)
  <2> HIDE DEF new
  <2> QED BY <1>1, <1>2, PlacesExist, SwapEffect
<1> QED BY <1>2, <1>3

LEMMA NotifyBeginEffect ==
    ASSUME TypeOK, NEW n \in Notifiers, NotifyBegin(n)
    PROVE  /\ pc[n] = "idle"
           /\ UNCHANGED <<state, next, epoch, wstate, below, cur>>
           /\ \E a \in BOOLEAN :
                 /\ At2(all', all, n, a /\ ~NobodyWaits) /\ all' \in [Notifiers -> BOOLEAN]
                 /\ Goes(n, BranchTo(a)) /\ Sees(n, IF NobodyWaits THEN NoWord ELSE state)
<1>1. PICK a \in BOOLEAN : all' = [all EXCEPT ![n] = a /\ ~NobodyWaits] /\ Branch(n, a)
  BY DEF NotifyBegin
<1>2. Goes(n, BranchTo(a)) /\ Sees(n, IF NobodyWaits THEN NoWord ELSE state) BY <1>1, BranchEffect
<1>3. all \in [Notifiers -> BOOLEAN] BY DEF TypeOK
<1>4. PICK b \in BOOLEAN : b = (a /\ ~NobodyWaits) OBVIOUS
<1>5. all' = [all EXCEPT ![n] = b] BY <1>1, <1>4
<1>6. At2(all', all, n, b) /\ all' \in [Notifiers -> BOOLEAN] BY <1>3, <1>5 DEF At2
<1> QED BY <1>2, <1>4, <1>6 DEF NotifyBegin

LEMMA NotifyReadNextEffect ==
    ASSUME TypeOK, Places, NEW n \in Notifiers, NotifyReadNext(n)
    PROVE  /\ pc[n] = "next" /\ Goes(n, "swap")
           /\ At2(below', below, n, next[seen[n].stack]) /\ below' \in [Notifiers -> Top]
           /\ seen[n].stack \in Waiters /\ ~all[n] /\ seen[n].signals >= seen[n].waiters
           /\ UNCHANGED <<state, next, epoch, wstate, seen, all, cur>>
<1>1. Goes(n, "swap") BY Threads2, PlacesExist, GotoGoes DEF NotifyReadNext
<1>2. pc[n] = "next" BY DEF NotifyReadNext
<1>3. seen[n].stack \in Waiters /\ ~all[n] /\ seen[n].signals >= seen[n].waiters BY <1>2 DEF Places
<1>4. next[seen[n].stack] \in Top BY <1>3 DEF TypeOK
<1> QED BY <1>1, <1>2, <1>3, <1>4 DEF NotifyReadNext, At2, TypeOK

\* The compare-and-swap of a notification failed.
Retry(n) ==
    /\ state # seen[n] /\ UNCHANGED <<state, cur, next>>
    /\ Goes(n, BranchTo(all[n]))
    /\ Sees(n, IF NobodyWaits THEN NoWord ELSE state)

LEMMA NotifyAllSwapEffect ==
    ASSUME TypeOK, NEW n \in Notifiers, NotifyAllSwap(n)
    PROVE  /\ pc[n] = "swap" /\ all[n]
           /\ UNCHANGED <<next, epoch, wstate, below, all>>
           /\ \/ Retry(n)
              \/ /\ state = seen[n] /\ Sees(n, NoWord)
                 /\ Goes(n, IF state.stack = None THEN "idle" ELSE "unpark")
                 /\ At2(cur', cur, n, state.stack) /\ cur' \in [Notifiers -> Waiters \cup {None}]
                 /\ state' = [stack |-> None, epoch |-> 0,
                              waiters |-> state.waiters, signals |-> state.waiters]
<1> DEFINE new == [stack |-> None, epoch |-> 0, waiters |-> seen[n].waiters, signals |-> seen[n].waiters]
           l == IF seen[n].stack = None THEN "idle" ELSE "unpark"
<1>1. /\ pc[n] = "swap" /\ all[n] /\ SwapOrBranch(n, new, l)
      /\ cur' = IF state = seen[n] THEN [cur EXCEPT ![n] = seen[n].stack] ELSE cur
      /\ UNCHANGED <<next, epoch, wstate, below, all>> BY DEF NotifyAllSwap
<1>2. l \in PCs BY PlacesExist
<1>3. \/ state = seen[n] /\ state' = new /\ Goes(n, l) /\ Sees(n, NoWord)
      \/ /\ state # seen[n] /\ state' = state /\ Goes(n, BranchTo(all[n]))
         /\ Sees(n, IF NobodyWaits THEN NoWord ELSE state)
  <2> HIDE DEF new, l
  <2> QED BY <1>1, <1>2, SwapOrBranchEffect
<1>4. cur \in [Notifiers -> Waiters \cup {None}] /\ state.stack \in Waiters \cup {None}
  BY WordFacts DEF TypeOK
<1>5. CASE state = seen[n]
  <2>1. cur' = [cur EXCEPT ![n] = state.stack] BY <1>1, <1>5
  <2>2. At2(cur', cur, n, state.stack) /\ cur' \in [Notifiers -> Waiters \cup {None}]
    BY <2>1, <1>4 DEF At2
  <2> QED BY <1>1, <1>3, <1>5, <2>2
<1>6. CASE state # seen[n] BY <1>1, <1>3, <1>6 DEF Retry
<1> QED BY <1>5, <1>6

LEMMA NotifySignalSwapEffect ==
    ASSUME TypeOK, NEW n \in Notifiers, NotifySignalSwap(n)
    PROVE  /\ pc[n] = "swap" /\ ~all[n]
           /\ UNCHANGED <<next, epoch, wstate, below, all, cur>>
           /\ \/ Retry(n)
              \/ /\ state = seen[n] /\ Sees(n, NoWord) /\ Goes(n, "idle")
                 /\ state.signals < state.waiters
                 /\ state' = [state EXCEPT !.signals = @ + 1]
<1> DEFINE new == [seen[n] EXCEPT !.signals = @ + 1]
<1>1. /\ pc[n] = "swap" /\ ~all[n] /\ SwapOrBranch(n, new, "idle") /\ seen[n].signals < seen[n].waiters
      /\ UNCHANGED <<next, epoch, wstate, below, all, cur>> BY DEF NotifySignalSwap
<1>2. "idle" \in PCs BY PlacesExist
<1>3. \/ state = seen[n] /\ state' = new /\ Goes(n, "idle") /\ Sees(n, NoWord)
      \/ /\ state # seen[n] /\ state' = state /\ Goes(n, BranchTo(all[n]))
         /\ Sees(n, IF NobodyWaits THEN NoWord ELSE state)
  <2> HIDE DEF new
  <2> QED BY <1>1, <1>2, SwapOrBranchEffect
<1> QED BY <1>1, <1>3 DEF Retry

LEMMA NotifyPopSwapEffect ==
    ASSUME TypeOK, Places, NEW n \in Notifiers, NotifyPopSwap(n)
    PROVE  /\ pc[n] = "swap" /\ ~all[n] /\ seen[n].signals >= seen[n].waiters
           /\ seen[n].stack \in Waiters
           /\ UNCHANGED <<epoch, wstate, all>>
           /\ At2(below', below, n, NoTop) /\ below' \in [Notifiers -> Top]
           /\ \/ Retry(n)
              \/ /\ state = seen[n] /\ Sees(n, NoWord) /\ Goes(n, "unpark")
                 /\ At2(cur', cur, n, state.stack) /\ cur' \in [Notifiers -> Waiters \cup {None}]
                 /\ next' = [next EXCEPT ![state.stack] = NoTop]
                 /\ state' = [state EXCEPT !.stack = below[n].stack, !.epoch = below[n].epoch]
<1> DEFINE new == [seen[n] EXCEPT !.stack = below[n].stack, !.epoch = below[n].epoch]
<1>1. /\ pc[n] = "swap" /\ ~all[n] /\ SwapOrBranch(n, new, "unpark") /\ seen[n].signals >= seen[n].waiters
      /\ below' = [below EXCEPT ![n] = NoTop]
      /\ UNCHANGED <<epoch, wstate, all>> BY DEF NotifyPopSwap
<1>2. "unpark" \in PCs BY PlacesExist
<1>3. \/ state = seen[n] /\ state' = new /\ Goes(n, "unpark") /\ Sees(n, NoWord)
      \/ /\ state # seen[n] /\ state' = state /\ Goes(n, BranchTo(all[n]))
         /\ Sees(n, IF NobodyWaits THEN NoWord ELSE state)
  <2> HIDE DEF new
  <2> QED BY <1>1, <1>2, SwapOrBranchEffect
<1>4. seen[n].stack \in Waiters BY <1>1 DEF Places
<1>5. At2(below', below, n, NoTop) /\ below' \in [Notifiers -> Top]
  <2>1. below \in [Notifiers -> Top] /\ NoTop \in Top BY WordFacts DEF TypeOK
  <2> QED BY <1>1, <2>1 DEF At2
<1>6. CASE state = seen[n]
  <2>1. cur' = [cur EXCEPT ![n] = state.stack] /\ next' = [next EXCEPT ![state.stack] = NoTop]
    BY <1>6 DEF NotifyPopSwap
  <2>2. cur \in [Notifiers -> Waiters \cup {None}] BY DEF TypeOK
  <2>3. At2(cur', cur, n, state.stack) /\ cur' \in [Notifiers -> Waiters \cup {None}]
    BY <2>1, <2>2, <1>4, <1>6 DEF At2
  <2> QED BY <1>1, <1>3, <1>4, <1>5, <1>6, <2>1, <2>3
<1>7. CASE state # seen[n]
  <2>1. UNCHANGED <<cur, next>> BY <1>7 DEF NotifyPopSwap
  <2> QED BY <1>1, <1>3, <1>4, <1>5, <1>7, <2>1 DEF Retry
<1> QED BY <1>6, <1>7

LEMMA UnparkEffect ==
    ASSUME TypeOK, Places, NEW n \in Notifiers, Unpark(n)
    PROVE  /\ pc[n] = "unpark" /\ cur[n] \in Waiters
           /\ UNCHANGED <<state, next, epoch, seen, all>>
           /\ At2(below', below, n, next[cur[n]]) /\ below' \in [Notifiers -> Top]
           /\ At1(wstate', wstate, cur[n], "signaled")
           /\ wstate' \in [Waiters -> {"notsignaled", "waiting", "signaled"}]
           /\ cur' \in [Notifiers -> Waiters \cup {None}]
           /\ \/ wstate[cur[n]] = "waiting" /\ Goes(n, "wake") /\ UNCHANGED cur
              \/ /\ wstate[cur[n]] # "waiting"
                 /\ Goes(n, IF next[cur[n]].stack = None THEN "idle" ELSE "unpark")
                 /\ At2(cur', cur, n, next[cur[n]].stack)
<1>1. pc[n] = "unpark" /\ UNCHANGED <<state, next, epoch, seen, all>> BY DEF Unpark
<1>2. cur[n] \in Waiters BY <1>1 DEF Places
<1> DEFINE w == cur[n]
<1>3. next[w] \in Top /\ next[w].stack \in Waiters \cup {None} BY <1>2, WordFacts
<1>4. below' = [below EXCEPT ![n] = next[w]] BY DEF Unpark
<1>5. At2(below', below, n, next[w]) /\ below' \in [Notifiers -> Top] BY <1>3, <1>4 DEF At2, TypeOK
<1>6. below'[n] = next[w] BY <1>5 DEF At2
<1>7. /\ At1(wstate', wstate, w, "signaled")
      /\ wstate' \in [Waiters -> {"notsignaled", "waiting", "signaled"}]
  BY <1>2 DEF Unpark, SignalWaiter, At1, TypeOK
<1>8. cur \in [Notifiers -> Waiters \cup {None}] BY DEF TypeOK
<1>9. n \in Threads BY Threads2
<1>10. CASE wstate[w] = "waiting"
  <2>1. Goto(n, "wake") /\ cur' = [cur EXCEPT ![n] = w] BY <1>10 DEF Unpark, SignalWaiter
  <2>2. Goes(n, "wake") BY <2>1, <1>9, PlacesExist, GotoGoes
  <2>3. cur' = cur BY <2>1, <1>8
  <2> QED BY <1>1, <1>2, <1>5, <1>7, <1>8, <1>10, <2>2, <2>3
<1>11. CASE wstate[w] # "waiting"
  <2>1. Goto(n, IF below'[n].stack = None THEN "idle" ELSE "unpark") /\ cur' = [cur EXCEPT ![n] = below'[n].stack]
    BY <1>11 DEF Unpark, SignalWaiter
  <2>2. Goto(n, IF next[w].stack = None THEN "idle" ELSE "unpark") /\ cur' = [cur EXCEPT ![n] = next[w].stack]
    BY <2>1, <1>6
  <2>3. Goes(n, IF next[w].stack = None THEN "idle" ELSE "unpark") BY <2>2, <1>9, PlacesExist, GotoGoes
  <2>4. At2(cur', cur, n, next[w].stack) /\ cur' \in [Notifiers -> Waiters \cup {None}]
    BY <2>2, <1>3, <1>8 DEF At2
  <2> QED BY <1>1, <1>2, <1>5, <1>7, <1>11, <2>3, <2>4
<1> QED BY <1>10, <1>11

LEMMA WakeEffect ==
    ASSUME TypeOK, Places, NEW n \in Notifiers, Wake(n)
    PROVE  /\ pc[n] = "wake" /\ cur[n] \in Waiters /\ n # cur[n]
           /\ UNCHANGED <<state, next, epoch, wstate, seen, below, all>>
           /\ below[n].stack \in Waiters \cup {None}
           /\ At2(cur', cur, n, below[n].stack) /\ cur' \in [Notifiers -> Waiters \cup {None}]
           /\ pc' \in [Threads -> PCs]
           /\ pc'[n] = (IF below[n].stack = None THEN "idle" ELSE "unpark")
           /\ pc'[cur[n]] = (IF pc[cur[n]] = "blocked" THEN "park" ELSE pc[cur[n]])
           /\ \A t \in Threads \ {n, cur[n]} : pc'[t] = pc[t]
<1>1. pc[n] = "wake" /\ UNCHANGED <<state, next, epoch, wstate, seen, below, all>> BY DEF Wake
<1>2. cur[n] \in Waiters BY <1>1 DEF Places
<1>3. n \in Threads /\ cur[n] \in Threads /\ n # cur[n] BY <1>2, Threads2
<1>4. below[n].stack \in Waiters \cup {None} BY DEF TypeOK, Top
<1>5. cur \in [Notifiers -> Waiters \cup {None}] /\ pc \in [Threads -> PCs] BY DEF TypeOK, PCs
<1>6. cur' = [cur EXCEPT ![n] = below[n].stack] BY DEF Wake
<1>7. At2(cur', cur, n, below[n].stack) /\ cur' \in [Notifiers -> Waiters \cup {None}]
  BY <1>4, <1>5, <1>6 DEF At2
<1>8. PICK w \in Waiters : w = cur[n] BY <1>2
<1>9. PICK l \in PCs : l = IF below[n].stack = None THEN "idle" ELSE "unpark" BY PlacesExist
<1>10. PICK k \in PCs : k = IF pc[w] = "blocked" THEN "park" ELSE pc[w] BY PlacesExist, <1>3, <1>5, <1>8
<1>11. pc' = [pc EXCEPT ![n] = l, ![w] = k]
  <2>1. pc' = [pc EXCEPT ![n] = IF below[n].stack = None THEN "idle" ELSE "unpark",
                        ![cur[n]] = IF @ = "blocked" THEN "park" ELSE @] BY DEF Wake
  <2> QED BY <2>1, <1>3, <1>5, <1>8, <1>9, <1>10
<1>12. pc' \in [Threads -> PCs] /\ pc'[n] = l /\ pc'[w] = k /\ \A t \in Threads \ {n, w} : pc'[t] = pc[t]
  BY <1>3, <1>5, <1>8, <1>11
<1> QED BY <1>1, <1>2, <1>3, <1>4, <1>7, <1>8, <1>9, <1>10, <1>12

----------------------------------------------------------------------------
(* Types, counters and places *)

LEMMA TypeStep == ASSUME IInv, [Next]_vars PROVE TypeOK'
<1> USE DEF IInv
<1>0. /\ seen \in [Threads -> Word] /\ pc \in [Threads -> PCs] /\ state \in Word
      /\ next \in [Waiters -> Top] /\ below \in [Notifiers -> Top] /\ all \in [Notifiers -> BOOLEAN]
      /\ cur \in [Notifiers -> Waiters \cup {None}] /\ epoch \in [Waiters -> Nat]
      /\ wstate \in [Waiters -> {"notsignaled", "waiting", "signaled"}] BY DEF TypeOK, PCs
<1>u. CASE UNCHANGED vars BY <1>u DEF vars, TypeOK
<1>w. \A w \in Prewaiting : state.waiters > 0 BY PrewaitingFinite DEF CountersAgree
<1>p. ASSUME NEW w \in Waiters, PrepareWait(w) \/ WaiterStep(w) \/ SpuriousWakeup(w) PROVE TypeOK'
  <2>1. CASE PrepareWait(w)
    <3>1. [state EXCEPT !.waiters = @ + 1] \in Word BY <1>0, NewWords, WordFacts
    <3> QED BY <2>1, <3>1, PrepareWaitEffect, <1>0 DEF Goes, TypeOK, PCs
  <2>2. CASE CommitBegin(w) BY <2>2, CommitBeginEffect, <1>0 DEF Goes, Sees, TypeOK, PCs
  <2>3. CASE CancelBegin(w) BY <2>3, CancelBeginEffect, <1>0 DEF Goes, Sees, TypeOK, PCs
  <2>4. CASE CommitLink(w) BY <2>4, CommitLinkEffect, <1>0 DEF Goes, Sees, TypeOK, PCs
  <2>5. CASE CommitSwap(w)
    <3>1. state.waiters > 0 BY <2>5, <1>w, CommitSwapEffect DEF Prewaiting
    <3>2. epoch[w] \in Nat /\ state.signals \in Nat BY <1>0, WordFacts
    <3>3. /\ [state EXCEPT !.stack = w, !.epoch = epoch[w], !.waiters = @ - 1] \in Word
          /\ state.signals > 0 => [state EXCEPT !.waiters = @ - 1, !.signals = @ - 1] \in Word
      BY <1>0, <3>1, <3>2, NewWords
    <3>4. state' \in Word /\ epoch' \in [Waiters -> Nat] BY <1>0, <2>5, <3>3, CommitSwapEffect
    <3>5. /\ pc' \in [Threads -> PCs] /\ seen' \in [Threads -> Word]
          /\ UNCHANGED <<next, wstate, below, all, cur>> BY <2>5, CommitSwapEffect DEF Goes, Sees
    <3> QED BY <1>0, <3>4, <3>5 DEF TypeOK, PCs
  <2>6. CASE Park(w) BY <2>6, ParkEffect, <1>0 DEF Goes, TypeOK, PCs
  <2>7. CASE CancelSwap(w)
    <3>1. state.waiters > 0 BY <2>7, <1>w, CancelSwapEffect DEF Prewaiting
    <3>2. [state EXCEPT !.waiters = @ - 1, !.signals = IF state.waiters = @ THEN @ - 1 ELSE @] \in Word
      BY <1>0, <3>1, NewWords
    <3>4. state' \in Word BY <1>0, <2>7, <3>2, CancelSwapEffect
    <3>5. /\ pc' \in [Threads -> PCs] /\ seen' \in [Threads -> Word]
          /\ UNCHANGED <<next, epoch, wstate, below, all, cur>>
      BY <2>7, CancelSwapEffect DEF Goes, Sees
    <3> QED BY <1>0, <3>4, <3>5 DEF TypeOK, PCs
  <2>8. CASE SpuriousWakeup(w) BY <2>8, SpuriousEffect, <1>0 DEF Goes, TypeOK, PCs
  <2> QED BY <1>p, <2>1, <2>2, <2>3, <2>4, <2>5, <2>6, <2>7, <2>8 DEF WaiterStep
<1>n. ASSUME NEW n \in Notifiers, NotifyBegin(n) \/ NotifierStep(n) PROVE TypeOK'
  <2>1. CASE NotifyBegin(n) BY <2>1, NotifyBeginEffect, <1>0 DEF Goes, Sees, TypeOK, PCs
  <2>2. CASE NotifyReadNext(n) BY <2>2, NotifyReadNextEffect, <1>0 DEF Goes, TypeOK, PCs
  <2>3. CASE NotifyAllSwap(n)
    <3>1. [stack |-> None, epoch |-> 0, waiters |-> state.waiters, signals |-> state.waiters] \in Word
      BY WordFacts DEF Word
    <3>2. state' \in Word /\ cur' \in [Notifiers -> Waiters \cup {None}]
      BY <1>0, <2>3, <3>1, NotifyAllSwapEffect DEF Retry
    <3>3. /\ pc' \in [Threads -> PCs] /\ seen' \in [Threads -> Word]
          /\ UNCHANGED <<next, epoch, wstate, below, all>>
      BY <2>3, NotifyAllSwapEffect DEF Goes, Sees, Retry
    <3> QED BY <1>0, <3>2, <3>3 DEF TypeOK, PCs
  <2>4. CASE NotifySignalSwap(n)
    <3>1. [state EXCEPT !.signals = @ + 1] \in Word BY <1>0, WordFacts DEF Word
    <3>2. state' \in Word BY <1>0, <2>4, <3>1, NotifySignalSwapEffect DEF Retry
    <3>3. /\ pc' \in [Threads -> PCs] /\ seen' \in [Threads -> Word]
          /\ UNCHANGED <<next, epoch, wstate, below, all, cur>>
      BY <2>4, NotifySignalSwapEffect DEF Goes, Sees, Retry
    <3> QED BY <1>0, <3>2, <3>3 DEF TypeOK, PCs
  <2>5. CASE NotifyPopSwap(n)
    <3>1. [state EXCEPT !.stack = below[n].stack, !.epoch = below[n].epoch] \in Word
      BY <1>0 DEF Word, Top
    <3>2. state' \in Word /\ cur' \in [Notifiers -> Waiters \cup {None}]
      BY <1>0, <2>5, <3>1, NotifyPopSwapEffect DEF Retry
    <3>3. next' \in [Waiters -> Top] BY <1>0, <2>5, WordFacts, NotifyPopSwapEffect DEF Retry
    <3>4. /\ pc' \in [Threads -> PCs] /\ seen' \in [Threads -> Word]
          /\ below' \in [Notifiers -> Top]
          /\ UNCHANGED <<epoch, wstate, all>> BY <2>5, NotifyPopSwapEffect DEF Goes, Sees, Retry
    <3> QED BY <1>0, <3>2, <3>3, <3>4 DEF TypeOK, PCs
  <2>6. CASE Unpark(n)
    <3>1. pc' \in [Threads -> PCs] BY <2>6, UnparkEffect DEF Goes
    <3> QED BY <1>0, <2>6, <3>1, UnparkEffect DEF TypeOK, PCs
  <2>7. CASE Wake(n) BY <1>0, <2>7, WakeEffect DEF TypeOK, PCs
  <2> QED BY <1>n, <2>1, <2>2, <2>3, <2>4, <2>5, <2>6, <2>7 DEF NotifierStep
<1> QED BY <1>u, <1>p, <1>n DEF Next

Early == {"recheck", "commit", "push", "cancel"}

\* How the set of announced waiters changes with a waiter's place.
LEMMA PrewaitingSame ==
    ASSUME \A w \in Waiters : pc'[w] \in Early <=> pc[w] \in Early
    PROVE  Prewaiting' = Prewaiting BY DEF Prewaiting, Early

LEMMA PrewaitingMore ==
    ASSUME NEW w \in Waiters, pc[w] \notin Early, pc'[w] \in Early,
           \A v \in Waiters \ {w} : pc'[v] = pc[v]
    PROVE  Prewaiting' = Prewaiting \cup {w} /\ Cardinality(Prewaiting') = Cardinality(Prewaiting) + 1
<1>1. Prewaiting' = Prewaiting \cup {w} /\ w \notin Prewaiting BY DEF Prewaiting, Early
<1>2. Cardinality(Prewaiting \cup {w}) = Cardinality(Prewaiting) + 1
  BY <1>1, PrewaitingFinite, FS_AddElement
<1> QED BY <1>1, <1>2

LEMMA PrewaitingLess ==
    ASSUME NEW w \in Waiters, pc[w] \in Early, pc'[w] \notin Early,
           \A v \in Waiters \ {w} : pc'[v] = pc[v]
    PROVE  Prewaiting' = Prewaiting \ {w} /\ Cardinality(Prewaiting') = Cardinality(Prewaiting) - 1
<1>1. Prewaiting' = Prewaiting \ {w} /\ w \in Prewaiting BY DEF Prewaiting, Early
<1>2. Cardinality(Prewaiting \ {w}) = Cardinality(Prewaiting) - 1
  BY <1>1, PrewaitingFinite, FS_RemoveElement
<1> QED BY <1>1, <1>2

\* What a step of a waiter means for the announced waiters and the counters: the
\* step of the event count that it is, if any.
LEMMA WaiterCounts ==
    ASSUME IInv, NEW w \in Waiters, PrepareWait(w) \/ WaiterStep(w) \/ SpuriousWakeup(w)
    PROVE  /\ \A v \in Waiters \ {w} : pc'[v] = pc[v]
           /\ \A n \in Notifiers : pc'[n] = pc[n]
<1> USE DEF IInv
<1>1. \E l \in PCs : Goes(w, l)
  BY PlacesExist, PrepareWaitEffect, CommitBeginEffect, CancelBeginEffect, CommitLinkEffect,
     CommitSwapEffect, ParkEffect, CancelSwapEffect, SpuriousEffect DEF WaiterStep
<1> QED BY <1>1, Threads2 DEF Goes

\* Outside of these actions nobody is announced and nobody decides.
LEMMA PrewaitingKept ==
    ASSUME IInv, Next,
           \A w \in Waiters : ~PrepareWait(w),
           \A w \in Waiters : CommitSwap(w) => state # seen[w],
           \A w \in Waiters : CancelSwap(w) => state # seen[w]
    PROVE  Prewaiting' = Prewaiting
<1> USE DEF IInv
<1>w. ASSUME NEW w \in Waiters, PrepareWait(w) \/ WaiterStep(w) \/ SpuriousWakeup(w) PROVE Prewaiting' = Prewaiting
  <2>1. pc[w] \in Early <=> pc'[w] \in Early
    <3>1. CASE CommitBegin(w) BY <3>1, CommitBeginEffect DEF Goes, Early
    <3>2. CASE CancelBegin(w) BY <3>2, CancelBeginEffect DEF Goes, Early
    <3>3. CASE CommitLink(w) BY <3>3, CommitLinkEffect DEF Goes, Early
    <3>4. CASE CommitSwap(w) BY <3>4, CommitSwapEffect DEF Goes, Early
    <3>5. CASE Park(w) BY <3>5, ParkEffect DEF Goes, Early
    <3>6. CASE CancelSwap(w) BY <3>6, CancelSwapEffect DEF Goes, Early
    <3>7. CASE SpuriousWakeup(w) BY <3>7, SpuriousEffect DEF Goes, Early
    <3> QED BY <1>w, <3>1, <3>2, <3>3, <3>4, <3>5, <3>6, <3>7 DEF WaiterStep
  <2>2. \A v \in Waiters \ {w} : pc'[v] = pc[v] BY <1>w, WaiterCounts
  <2> QED BY <2>1, <2>2, PrewaitingSame
<1>n. ASSUME NEW n \in Notifiers, NotifyBegin(n) \/ NotifierStep(n) PROVE Prewaiting' = Prewaiting
  <2>1. CASE Wake(n)
    <3>1. /\ \A v \in Waiters \ {cur[n]} : pc'[v] = pc[v]
          /\ pc'[cur[n]] = (IF pc[cur[n]] = "blocked" THEN "park" ELSE pc[cur[n]])
      BY <2>1, WakeEffect, Threads2
    <3> QED BY <3>1, PrewaitingSame DEF Early
  <2>2. CASE ~Wake(n)
    <3>1. \E l \in PCs : Goes(n, l)
      BY <1>n, <2>2, PlacesExist, NotifyBeginEffect, NotifyReadNextEffect, NotifyAllSwapEffect,
         NotifySignalSwapEffect, NotifyPopSwapEffect, UnparkEffect DEF NotifierStep, Retry, BranchTo
    <3>2. \A v \in Waiters : pc'[v] = pc[v] BY <3>1, Threads2 DEF Goes
    <3> QED BY <3>2, PrewaitingSame
  <2> QED BY <2>1, <2>2
<1> QED BY <1>w, <1>n DEF Next

LEMMA CountersStep == ASSUME IInv, [Next]_vars PROVE CountersAgree'
<1> USE DEF IInv
<1>0. /\ state.waiters \in Nat /\ state.signals \in Nat
      /\ state.waiters = Cardinality(Prewaiting) /\ state.signals <= state.waiters
      /\ \A w \in Prewaiting : state.waiters > 0 BY WordFacts, PrewaitingFinite DEF CountersAgree
<1>t. state \in Word BY DEF TypeOK
<1>u. CASE UNCHANGED vars BY <1>u DEF vars, CountersAgree, Prewaiting
<1>1. ASSUME NEW w \in Waiters, PrepareWait(w) PROVE CountersAgree'
  <2>1. Cardinality(Prewaiting') = Cardinality(Prewaiting) + 1
    BY <1>1, PrepareWaitEffect, WaiterCounts, PrewaitingMore DEF Goes, Early
  <2>2. state'.waiters = state.waiters + 1 /\ state'.signals = state.signals
    BY <1>1, <1>t, PrepareWaitEffect DEF Word
  <2> QED BY <1>0, <2>1, <2>2 DEF CountersAgree
<1>2. ASSUME NEW w \in Waiters, CommitSwap(w), state = seen[w] PROVE CountersAgree'
  <2>1. w \in Prewaiting BY <1>2 DEF Prewaiting, CommitSwap
  <2>2. Cardinality(Prewaiting') = Cardinality(Prewaiting) - 1
    BY <1>2, CommitSwapEffect, WaiterCounts, PrewaitingLess DEF Goes, Early, WaiterStep
  <2>3. state'.waiters = state.waiters - 1 /\
        state'.signals = IF state.signals > 0 THEN state.signals - 1 ELSE state.signals
    <3>0. \/ state.signals > 0 /\ state' = [state EXCEPT !.waiters = @ - 1, !.signals = @ - 1]
          \/ state.signals = 0 /\ state' = [state EXCEPT !.stack = w, !.epoch = epoch[w], !.waiters = @ - 1]
      <4>1. TypeOK OBVIOUS
      <4> QED BY ONLY TypeOK, w \in Waiters, <4>1, <1>2, CommitSwapEffect, Zenon
    <3>1. CASE state.signals > 0 /\ state' = [state EXCEPT !.waiters = @ - 1, !.signals = @ - 1]
      BY <3>1, <1>t DEF Word
    <3>2. CASE state.signals = 0 /\ state' = [state EXCEPT !.stack = w, !.epoch = epoch[w], !.waiters = @ - 1]
      BY <3>2, <1>t DEF Word
    <3> QED BY <3>0, <3>1, <3>2
  <2> QED BY <1>0, <2>1, <2>2, <2>3 DEF CountersAgree
<1>3. ASSUME NEW w \in Waiters, CancelSwap(w), state = seen[w] PROVE CountersAgree'
  <2>1. w \in Prewaiting BY <1>3 DEF Prewaiting, CancelSwap
  <2>2. Cardinality(Prewaiting') = Cardinality(Prewaiting) - 1
    BY <1>3, CancelSwapEffect, WaiterCounts, PrewaitingLess DEF Goes, Early, WaiterStep
  <2>3. state'.waiters = state.waiters - 1 /\
        state'.signals = IF state.waiters = state.signals THEN state.signals - 1 ELSE state.signals
    BY <1>0, <1>3, <1>t, CancelSwapEffect DEF Word
  <2> QED BY <1>0, <2>1, <2>2, <2>3 DEF CountersAgree
<1>4. ASSUME Next,
             \A w \in Waiters : ~PrepareWait(w),
             \A w \in Waiters : CommitSwap(w) => state # seen[w],
             \A w \in Waiters : CancelSwap(w) => state # seen[w]
      PROVE  CountersAgree'
  <2>1. Prewaiting' = Prewaiting BY <1>4, PrewaitingKept
  <2>2. ASSUME NEW w \in Waiters, PrepareWait(w) \/ WaiterStep(w) \/ SpuriousWakeup(w) PROVE state' = state
    BY <1>4, <2>2, CommitBeginEffect, CancelBeginEffect, CommitLinkEffect,
       CommitSwapEffect, ParkEffect, CancelSwapEffect, SpuriousEffect DEF WaiterStep
  <2>3. ASSUME NEW n \in Notifiers, NotifyBegin(n) \/ NotifierStep(n)
        PROVE  state'.waiters = state.waiters /\ state'.signals \in Nat /\ state'.signals <= state.waiters
    <3>1. CASE NotifyAllSwap(n) BY <3>1, <1>0, NotifyAllSwapEffect DEF Retry
    <3>2. CASE NotifySignalSwap(n) BY <3>2, <1>0, <1>t, NotifySignalSwapEffect DEF Retry, Word
    <3>3. CASE NotifyPopSwap(n) BY <3>3, <1>0, <1>t, NotifyPopSwapEffect DEF Retry, Word
    <3>4. CASE NotifyBegin(n) BY <3>4, <1>0, NotifyBeginEffect
    <3>5. CASE NotifyReadNext(n) BY <3>5, <1>0, NotifyReadNextEffect
    <3>6. CASE Unpark(n) BY <3>6, <1>0, UnparkEffect
    <3>7. CASE Wake(n) BY <3>7, <1>0, WakeEffect
    <3> QED BY <2>3, <3>1, <3>2, <3>3, <3>4, <3>5, <3>6, <3>7 DEF NotifierStep
  <2>4. state'.waiters = state.waiters /\ state'.signals <= state.waiters
    BY <1>0, <1>4, <2>2, <2>3 DEF Next
  <2> QED BY <1>0, <2>1, <2>4 DEF CountersAgree
<1> QED BY <1>u, <1>1, <1>2, <1>3, <1>4

LEMMA PlacesStep == ASSUME IInv, [Next]_vars PROVE Places'
<1> USE DEF IInv
<1>u. CASE UNCHANGED vars BY <1>u DEF vars, Places
<1>0. \A w \in Waiters : w \in Threads /\ w \notin Notifiers BY Threads2
<1>00. \A n \in Notifiers : n \in Threads /\ n \notin Waiters BY Threads2
<1>w. ASSUME NEW w \in Waiters, PrepareWait(w) \/ WaiterStep(w) \/ SpuriousWakeup(w) PROVE Places'
  <2>1. pc'[w] \in WaiterPC
    BY <1>w, PrepareWaitEffect, CommitBeginEffect, CancelBeginEffect, CommitLinkEffect,
       CommitSwapEffect, ParkEffect, CancelSwapEffect, SpuriousEffect DEF WaiterStep, Goes, WaiterPC
  <2>2. (\A v \in Waiters \ {w} : pc'[v] = pc[v]) /\ \A n \in Notifiers : pc'[n] = pc[n]
    BY <1>w, WaiterCounts
  <2>3. UNCHANGED <<cur, all>>
    BY <1>w, PrepareWaitEffect, CommitBeginEffect, CancelBeginEffect, CommitLinkEffect,
       CommitSwapEffect, ParkEffect, CancelSwapEffect, SpuriousEffect DEF WaiterStep
  <2>4. \A n \in Notifiers : seen'[n] = seen[n]
    <3>1. (\E s : Sees(w, s)) \/ UNCHANGED seen
      BY <1>w, PrepareWaitEffect, CommitBeginEffect, CancelBeginEffect, CommitLinkEffect,
         CommitSwapEffect, ParkEffect, CancelSwapEffect, SpuriousEffect DEF WaiterStep
    <3> QED BY <3>1, <1>00 DEF Sees
  <2> QED BY <2>1, <2>2, <2>3, <2>4 DEF Places
<1>n. ASSUME NEW n \in Notifiers, NotifyBegin(n) \/ NotifierStep(n) PROVE Places'
  <2> DEFINE OK(m) ==
        /\ pc'[m] \in NotifierPC
        /\ pc'[m] \in {"unpark", "wake"} => cur'[m] \in Waiters
        /\ pc'[m] = "next" => ~all'[m] /\ seen'[m].signals >= seen'[m].waiters
        /\ pc'[m] \in {"next", "swap"} /\ ~all'[m] /\ seen'[m].signals >= seen'[m].waiters
              => seen'[m].stack \in Waiters
  <2>0. /\ state.waiters \in Nat /\ state.signals \in Nat /\ state.stack \in Waiters \cup {None}
        /\ state.signals <= state.waiters BY WordFacts DEF CountersAgree
  <2>1. ASSUME NEW a \in BOOLEAN, Goes(n, BranchTo(a)), Sees(n, IF NobodyWaits THEN NoWord ELSE state),
               NobodyWaits \/ all'[n] = a
        PROVE  OK(n)
    <3>1. CASE NobodyWaits BY <3>1, <2>1 DEF Goes, BranchTo, NotifierPC
    <3>2. CASE ~NobodyWaits /\ (a \/ state.signals < state.waiters)
      <4>1. pc'[n] = "swap" /\ seen'[n] = state /\ all'[n] = a BY <3>2, <2>1 DEF Goes, Sees, BranchTo
      <4>2. ~(~a /\ state.signals >= state.waiters) BY <3>2, <2>0
      <4> QED BY <4>1, <4>2 DEF NotifierPC
    <3>3. CASE ~NobodyWaits /\ ~(a \/ state.signals < state.waiters)
      <4>1. pc'[n] = "next" /\ seen'[n] = state /\ all'[n] = a BY <3>3, <2>1 DEF Goes, Sees, BranchTo
      <4>2. state.signals >= state.waiters /\ state.stack \in Waiters BY <3>3, <2>0 DEF NobodyWaits
      <4> QED BY <3>3, <4>1, <4>2 DEF NotifierPC
    <3> QED BY <3>1, <3>2, <3>3
  <2>2. ASSUME Retry(n), UNCHANGED all PROVE OK(n)
    <3>1. all[n] \in BOOLEAN BY DEF TypeOK
    <3> QED BY <2>1, <2>2, <3>1 DEF Retry
  <2>3. OK(n)
    <3>1. CASE NotifyBegin(n)
      <4>1. PICK a \in BOOLEAN : /\ At2(all', all, n, a /\ ~NobodyWaits)
                                 /\ Goes(n, BranchTo(a)) /\ Sees(n, IF NobodyWaits THEN NoWord ELSE state)
        BY <3>1, NotifyBeginEffect
      <4>2. NobodyWaits \/ all'[n] = a BY <4>1 DEF At2
      <4> HIDE DEF OK
      <4> QED BY <4>1, <4>2, <2>1
    <3>2. CASE NotifyReadNext(n) BY <3>2, NotifyReadNextEffect DEF Goes, NotifierPC
    <3>3. CASE NotifyAllSwap(n)
      <4>1. CASE Retry(n) BY <4>1, <3>3, <2>2, NotifyAllSwapEffect
      <4>2. CASE ~Retry(n) BY <4>2, <3>3, <2>0, NotifyAllSwapEffect DEF Goes, At2, NotifierPC
      <4> QED BY <4>1, <4>2
    <3>4. CASE NotifySignalSwap(n)
      <4>1. CASE Retry(n) BY <4>1, <3>4, <2>2, NotifySignalSwapEffect
      <4>2. CASE ~Retry(n) BY <4>2, <3>4, NotifySignalSwapEffect DEF Goes, NotifierPC
      <4> QED BY <4>1, <4>2
    <3>5. CASE NotifyPopSwap(n)
      <4>1. CASE Retry(n) BY <4>1, <3>5, <2>2, NotifyPopSwapEffect
      <4>2. CASE ~Retry(n) BY <4>2, <3>5, NotifyPopSwapEffect DEF Goes, At2, NotifierPC
      <4> QED BY <4>1, <4>2
    <3>6. CASE Unpark(n)
      <4>1. next[cur[n]].stack \in Waiters \cup {None} BY <3>6, WordFacts, UnparkEffect
      <4> QED BY <4>1, <3>6, UnparkEffect DEF Goes, At2, NotifierPC
    <3>7. CASE Wake(n) BY <3>7, WakeEffect DEF At2, NotifierPC
    <3> QED BY <1>n, <3>1, <3>2, <3>3, <3>4, <3>5, <3>6, <3>7 DEF NotifierStep
  <2>4. ASSUME NEW m \in Notifiers \ {n} PROVE OK(m)
    <3>1. pc'[m] = pc[m] /\ all'[m] = all[m] /\ cur'[m] = cur[m] /\ seen'[m] = seen[m]
      <4> USE <1>00, <1>0
      <4>1. CASE NotifyBegin(n) BY <4>1, NotifyBeginEffect DEF Goes, At2, Sees
      <4>2. CASE NotifyReadNext(n) BY <4>2, NotifyReadNextEffect DEF Goes
      <4>3. CASE NotifyAllSwap(n) BY <4>3, NotifyAllSwapEffect DEF Goes, Sees, At2, Retry
      <4>4. CASE NotifySignalSwap(n) BY <4>4, NotifySignalSwapEffect DEF Goes, Sees, Retry
      <4>5. CASE NotifyPopSwap(n) BY <4>5, NotifyPopSwapEffect DEF Goes, Sees, At2, Retry
      <4>6. CASE Unpark(n) BY <4>6, UnparkEffect DEF Goes, At2
      <4>7. CASE Wake(n) BY <4>7, WakeEffect DEF At2
      <4> QED BY <1>n, <4>1, <4>2, <4>3, <4>4, <4>5, <4>6, <4>7 DEF NotifierStep
    <3> QED BY <3>1 DEF Places
  <2>5. \A w \in Waiters : pc'[w] \in WaiterPC
    <3>1. CASE Wake(n)
      <4>1. ASSUME NEW w \in Waiters PROVE pc'[w] \in WaiterPC
        <5>1. CASE w = cur[n] BY <5>1, <3>1, WakeEffect DEF Places, WaiterPC
        <5>2. CASE w # cur[n] BY <5>2, <3>1, <1>0, WakeEffect DEF Places
        <5> QED BY <5>1, <5>2
      <4> QED BY <4>1
    <3>2. CASE ~Wake(n)
      <4>1. \E l \in PCs : Goes(n, l)
        BY <1>n, <3>2, PlacesExist, NotifyBeginEffect, NotifyReadNextEffect, NotifyAllSwapEffect,
           NotifySignalSwapEffect, NotifyPopSwapEffect, UnparkEffect DEF NotifierStep, Retry, BranchTo
      <4>2. \A v \in Waiters : pc'[v] = pc[v] BY <4>1, Threads2 DEF Goes
      <4> QED BY <4>2 DEF Places
    <3> QED BY <3>1, <3>2
  <2>6. \A m \in Notifiers : OK(m) BY <2>3, <2>4
  <2> QED BY <2>5, <2>6 DEF Places
<1> QED BY <1>u, <1>w, <1>n DEF Next

----------------------------------------------------------------------------
(* The lists *)

LEMMA WordOwnerNew == WordOwner \notin Notifiers /\ WordOwner \in Owners
<1>1. \E x : x \notin Notifiers BY NoSetContainsEverything
<1> QED BY <1>1 DEF WordOwner, Owners

LEMMA ListTypes ==
    ASSUME TypeOK
    PROVE  /\ Links \in Linkings
           /\ Tops \in Heads(Owners)
           /\ Linked \in SUBSET Waiters
           /\ Tops[WordOwner] = state.stack
           /\ \A n \in Notifiers : n \in Owners /\ n # WordOwner /\ Tops[n] = Start(n)
           /\ Stacked = Reach(Links, Tops[WordOwner])
           /\ \A n \in Notifiers : TakenBy(n) = Reach(Links, Tops[n])
           /\ \A w \in Waiters : Links[w] = next[w].stack
<1>1. Links \in Linkings BY WordFacts DEF Links, Linkings
<1>2. ASSUME NEW n \in Notifiers PROVE Start(n) \in Waiters \cup {None} BY DEF Start, TypeOK, Top
<1>3. Tops \in Heads(Owners) BY <1>2, WordFacts DEF Tops, Heads, Owners
<1>4. Tops[WordOwner] = state.stack /\ \A n \in Notifiers : n \in Owners /\ n # WordOwner /\ Tops[n] = Start(n)
  BY WordOwnerNew DEF Tops, Owners
<1>5. \A n \in Notifiers : TakenBy(n) = Reach(Links, Tops[n]) BY <1>4 DEF TakenBy, Start
<1> QED BY <1>1, <1>3, <1>4, <1>5 DEF Stacked, Linked, Links

\* A step that touches no list.
ListsKept == Lists' /\ Stacked' = Stacked /\ \A n \in Notifiers : TakenBy(n)' = TakenBy(n)

LEMMA KeepLists ==
    ASSUME TypeOK, TypeOK', Lists, state'.stack = state.stack,
           \A n \in Notifiers : Start(n)' = Start(n),
           Linked' = Linked, \A v \in Linked : next'[v] = next[v]
    PROVE  ListsKept
<1>1. Tops' = Tops BY DEF Tops
<1>2. Links \in Linkings /\ Tops \in Heads(Owners) /\ Linked \in SUBSET Waiters BY ListTypes
<1>3. Links' \in Linkings BY DEF Links, Linkings, TypeOK, Top
<1>4. \A v \in Linked : Links'[v] = Links[v] BY DEF Links, Linked
<1>5. PICK f \in Linkings : f = Links BY <1>2
<1>6. PICK g \in Linkings : g = Links' BY <1>3
<1>7. Partition(f, Owners, Tops, Linked) BY <1>5 DEF Lists
<1>8. Partition(g, Owners, Tops, Linked) /\ \A i \in Owners : Reach(g, Tops[i]) = Reach(f, Tops[i])
  BY <1>2, <1>4, <1>5, <1>6, <1>7, PartitionSame
<1>9. Lists' BY <1>1, <1>6, <1>8 DEF Lists
<1>10. Stacked' = Reach(Links', Tops'[WordOwner]) /\ \A n \in Notifiers : TakenBy(n)' = Reach(Links', Tops'[n])
  <2>1. Tops'[WordOwner] = state'.stack /\ \A n \in Notifiers : Tops'[n] = Start(n)'
    BY WordOwnerNew DEF Tops, Owners
  <2>2. \A n \in Notifiers : TakenBy(n)' = Reach(Links', Start(n)') BY DEF TakenBy, Start
  <2> QED BY <2>1, <2>2 DEF Stacked
<1>11. Stacked = Reach(Links, Tops[WordOwner]) /\ \A n \in Notifiers : TakenBy(n) = Reach(Links, Tops[n])
  BY ListTypes
<1>12. WordOwner \in Owners /\ \A n \in Notifiers : n \in Owners BY WordOwnerNew DEF Owners
<1> QED BY <1>1, <1>5, <1>6, <1>8, <1>9, <1>10, <1>11, <1>12 DEF ListsKept

\* A waiter that is not asleep before and after is in no list.
LEMMA LinkedKept ==
    ASSUME NEW w \in Waiters, w \notin Linked, ~(Asleep(w)' /\ wstate'[w] # "signaled"),
           \A v \in Waiters \ {w} : pc'[v] = pc[v] /\ wstate'[v] = wstate[v]
    PROVE  Linked' = Linked BY DEF Linked, Asleep

LEMMA StartKept ==
    ASSUME NEW n \in Notifiers, Start(n)' = Start(n),
           \A m \in Notifiers \ {n} : pc'[m] = pc[m] /\ cur'[m] = cur[m] /\ below'[m] = below[m]
    PROVE  \A m \in Notifiers : Start(m)' = Start(m)
<1> SUFFICES ASSUME NEW m \in Notifiers \ {n} PROVE Start(m)' = Start(m) OBVIOUS
<1> QED BY DEF Start

LEMMA WaiterLists ==
    ASSUME IInv, TypeOK', NEW w \in Waiters, PrepareWait(w) \/ WaiterStep(w) \/ SpuriousWakeup(w),
           ~(CommitSwap(w) /\ state = seen[w] /\ state.signals = 0)
    PROVE  ListsKept
<1> USE DEF IInv
<1>0. \A n \in Notifiers : n \in Threads /\ n \notin Waiters BY Threads2
<1>1. (\A v \in Waiters \ {w} : pc'[v] = pc[v]) /\ \A n \in Notifiers : pc'[n] = pc[n]
  BY WaiterCounts
<1>2. UNCHANGED <<cur, below>>
  BY PrepareWaitEffect, CommitBeginEffect, CancelBeginEffect, CommitLinkEffect,
     CommitSwapEffect, ParkEffect, CancelSwapEffect, SpuriousEffect DEF WaiterStep
<1>3. \A n \in Notifiers : Start(n)' = Start(n) BY <1>1, <1>2 DEF Start
<1>4. \A v \in Waiters \ {w} : wstate'[v] = wstate[v]
  BY PrepareWaitEffect, CommitBeginEffect, CancelBeginEffect, CommitLinkEffect,
     CommitSwapEffect, ParkEffect, CancelSwapEffect, SpuriousEffect DEF WaiterStep, At1
<1>t. state \in Word BY DEF TypeOK
<1>5. state'.stack = state.stack
  <2>1. CASE PrepareWait(w) BY <2>1, <1>t, PrepareWaitEffect DEF Word
  <2>2. CASE CommitSwap(w)
    <3>1. \/ UNCHANGED state \/ state' = [state EXCEPT !.waiters = @ - 1, !.signals = @ - 1]
      BY <2>2, CommitSwapEffect
    <3> QED BY <3>1, <1>t DEF Word
  <2>3. CASE CancelSwap(w)
    <3>1. \/ UNCHANGED state
          \/ state' = [state EXCEPT !.waiters = @ - 1, !.signals = IF state.waiters = @ THEN @ - 1 ELSE @]
      BY <2>3, CancelSwapEffect
    <3> QED BY <3>1, <1>t DEF Word
  <2>4. CASE ~PrepareWait(w) /\ ~CommitSwap(w) /\ ~CancelSwap(w)
    BY <2>4, CommitBeginEffect, CancelBeginEffect, CommitLinkEffect, ParkEffect, SpuriousEffect DEF WaiterStep
  <2> QED BY <2>1, <2>2, <2>3, <2>4
<1>6. Linked' = Linked
  <2>1. CASE Park(w)
    <3>1. \/ /\ wstate[w] = "signaled" /\ Goes(w, "out") /\ UNCHANGED wstate /\ pc[w] = "park"
          \/ /\ wstate[w] # "signaled" /\ Goes(w, "blocked") /\ wstate'[w] = "waiting" /\ pc[w] = "park"
      BY <2>1, ParkEffect DEF At1
    <3> QED BY <3>1, <1>1, <1>4 DEF Linked, Asleep, Goes
  <2>2. CASE SpuriousWakeup(w)
    <3>1. pc[w] = "blocked" /\ pc'[w] = "park" /\ wstate' = wstate BY <2>2, SpuriousEffect DEF Goes
    <3> QED BY <3>1, <1>1 DEF Linked, Asleep
  <2>3. CASE ~Park(w) /\ ~SpuriousWakeup(w)
    <3>1. ~Asleep(w) /\ ~Asleep(w)'
      <4>1. CASE PrepareWait(w) BY <4>1, PrepareWaitEffect DEF Goes, Asleep
      <4>2. CASE CommitBegin(w) BY <4>2, CommitBeginEffect DEF Goes, Asleep
      <4>3. CASE CancelBegin(w) BY <4>3, CancelBeginEffect DEF Goes, Asleep
      <4>4. CASE CommitLink(w) BY <4>4, CommitLinkEffect DEF Goes, Asleep
      <4>5. CASE CommitSwap(w) BY <4>5, CommitSwapEffect DEF Goes, Asleep
      <4>6. CASE CancelSwap(w) BY <4>6, CancelSwapEffect DEF Goes, Asleep
      <4> QED BY <2>3, <4>1, <4>2, <4>3, <4>4, <4>5, <4>6 DEF WaiterStep
    <3> QED BY <3>1, <1>1, <1>4, LinkedKept DEF Linked
  <2> QED BY <2>1, <2>2, <2>3
<1>7. \A v \in Linked : next'[v] = next[v]
  <2>1. CASE CommitLink(w)
    <3>1. w \notin Linked BY <2>1, CommitLinkEffect DEF Linked, Asleep
    <3> QED BY <2>1, <3>1, CommitLinkEffect DEF At1, Linked
  <2>2. CASE ~CommitLink(w) BY <2>2, PrepareWaitEffect, CommitBeginEffect, CancelBeginEffect,
       CommitSwapEffect, ParkEffect, CancelSwapEffect, SpuriousEffect DEF WaiterStep
  <2> QED BY <2>1, <2>2
<1> QED BY <1>3, <1>5, <1>6, <1>7, KeepLists

\* A waiter that goes to sleep is on top of the stack then.
LEMMA PushLists ==
    ASSUME IInv, TypeOK', NEW w \in Waiters, CommitSwap(w), state = seen[w], state.signals = 0
    PROVE  /\ Lists' /\ Stacked' = Stacked \cup {w} /\ w \notin Linked
           /\ \A n \in Notifiers : TakenBy(n)' = TakenBy(n)
           /\ next' = next /\ next[w] = TopOf(state)
<1> USE DEF IInv
<1>1. /\ pc[w] = "push" /\ Goes(w, "park") /\ UNCHANGED <<next, wstate, below, all, cur>>
      /\ state' = [state EXCEPT !.stack = w, !.epoch = epoch[w], !.waiters = @ - 1]
  BY CommitSwapEffect, Zenon
<1>2. wstate[w] = "notsignaled" /\ next[w] = TopOf(state) BY <1>1 DEF Committing
<1>3. next[w].stack = state.stack BY <1>2 DEF TopOf
<1>t. state \in Word BY DEF TypeOK
<1>4. state'.stack = w BY <1>1, <1>t DEF Word
<1>5. \A v \in Waiters \ {w} : pc'[v] = pc[v] BY WaiterCounts DEF WaiterStep
<1>6. \A n \in Notifiers : pc'[n] = pc[n] BY WaiterCounts DEF WaiterStep
<1>7. Linked' = Linked \cup {w} /\ w \notin Linked BY <1>1, <1>2, <1>5 DEF Linked, Asleep, Goes
<1>8. \A n \in Notifiers : Start(n)' = Start(n) BY <1>1, <1>6 DEF Start
<1>9. /\ Links \in Linkings /\ Tops \in Heads(Owners) /\ Linked \in SUBSET Waiters
      /\ Tops[WordOwner] = state.stack /\ Stacked = Reach(Links, Tops[WordOwner])
      /\ \A n \in Notifiers : n \in Owners /\ n # WordOwner /\ Tops[n] = Start(n) /\ TakenBy(n) = Reach(Links, Tops[n])
      /\ Links[w] = next[w].stack BY ListTypes
<1>10. Tops' = [Tops EXCEPT ![WordOwner] = w] BY <1>4, <1>8, <1>9, WordOwnerNew DEF Tops, Owners
<1>11. Links' = Links BY <1>1 DEF Links
<1>12. Partition(Links, Owners, Tops, Linked) BY DEF Lists
<1>13. PICK f \in Linkings : f = Links BY <1>9
<1>14. PICK h \in Heads(Owners) : h = Tops BY <1>9
<1>15. /\ Partition(f, Owners, [h EXCEPT ![WordOwner] = w], Linked \cup {w})
       /\ Reach(f, w) = Reach(f, h[WordOwner]) \cup {w}
  <2>1. Partition(f, Owners, h, Linked) /\ f[w] = h[WordOwner] BY <1>3, <1>9, <1>12, <1>13, <1>14
  <2>2. Linked \in SUBSET Waiters /\ w \notin Linked /\ WordOwner \in Owners BY <1>7, <1>9, WordOwnerNew
  <2> QED BY <2>1, <2>2, PartitionPush
<1>16. Lists' BY <1>7, <1>10, <1>11, <1>13, <1>14, <1>15 DEF Lists
<1>17. Stacked' = Reach(Links', state'.stack) BY DEF Stacked
<1>18. \A n \in Notifiers : TakenBy(n)' = TakenBy(n) BY <1>1, <1>6, <1>11 DEF TakenBy
<1> QED BY <1>1, <1>2, <1>4, <1>7, <1>9, <1>11, <1>13, <1>14, <1>15, <1>16, <1>17, <1>18

\* The fields of one notifier change, and its place to one without a list.
LEMMA NotifierKeeps ==
    ASSUME IInv, TypeOK', NEW n \in Notifiers, Start(n) = None, Start(n)' = None,
           \A t \in Threads \ {n} : pc'[t] = pc[t],
           \A m \in Notifiers \ {n} : cur'[m] = cur[m] /\ below'[m] = below[m],
           UNCHANGED <<next, wstate>>, state'.stack = state.stack
    PROVE  ListsKept
<1> USE DEF IInv
<1>1. \A w \in Waiters : pc'[w] = pc[w] BY Threads2
<1>2. Linked' = Linked BY <1>1 DEF Linked, Asleep
<1>3. \A m \in Notifiers \ {n} : pc'[m] = pc[m] BY Threads2
<1>4. \A m \in Notifiers : Start(m)' = Start(m) BY <1>3, StartKept
<1> QED BY <1>2, <1>4, KeepLists

LEMMA NotifierLists ==
    ASSUME IInv, TypeOK', NEW n \in Notifiers,
           \/ NotifyBegin(n) \/ NotifyReadNext(n) \/ NotifySignalSwap(n)
           \/ NotifyAllSwap(n) /\ state # seen[n]
           \/ NotifyPopSwap(n) /\ state # seen[n]
    PROVE  ListsKept
<1> USE DEF IInv
<1>t. state \in Word BY DEF TypeOK
<1>b. \A a \in BOOLEAN : BranchTo(a) \in {"idle", "swap", "next"} BY DEF BranchTo
<1>1. CASE NotifyBegin(n)
  <2>1. PICK a \in BOOLEAN : Goes(n, BranchTo(a)) /\ pc[n] = "idle" BY <1>1, NotifyBeginEffect
  <2>2. Start(n) = None /\ Start(n)' = None BY <2>1, <1>b DEF Start, Goes
  <2> QED BY <1>1, <2>1, <2>2, NotifyBeginEffect, NotifierKeeps DEF Goes
<1>2. CASE NotifyReadNext(n)
  <2>1. Start(n) = None /\ Start(n)' = None BY <1>2, NotifyReadNextEffect DEF Start, Goes
  <2> QED BY <1>2, <2>1, NotifyReadNextEffect, NotifierKeeps DEF Goes, At2
<1>3. ASSUME Retry(n), pc[n] = "swap" PROVE Start(n) = None /\ Start(n)' = None /\ all[n] \in BOOLEAN
  <2>1. all[n] \in BOOLEAN BY DEF TypeOK
  <2> QED BY <1>3, <1>b, <2>1 DEF Start, Goes, Retry
<1>4. CASE NotifySignalSwap(n)
  <2>1. Start(n) = None /\ Start(n)' = None BY <1>4, <1>3, NotifySignalSwapEffect DEF Start, Goes
  <2>2. state'.stack = state.stack
    <3>1. UNCHANGED state \/ state' = [state EXCEPT !.signals = @ + 1] BY <1>4, NotifySignalSwapEffect DEF Retry
    <3> QED BY <3>1, <1>t DEF Word
  <2> QED BY <1>4, <2>1, <2>2, NotifySignalSwapEffect, NotifierKeeps DEF Goes, Retry
<1>5. CASE NotifyAllSwap(n) /\ state # seen[n]
  <2>1. Retry(n) /\ pc[n] = "swap" /\ UNCHANGED <<wstate, below>> BY <1>5, NotifyAllSwapEffect
  <2> QED BY <2>1, <1>3, NotifierKeeps DEF Retry, Goes
<1>6. CASE NotifyPopSwap(n) /\ state # seen[n]
  <2>1. Retry(n) /\ pc[n] = "swap" /\ wstate' = wstate /\ At2(below', below, n, NoTop)
    BY <1>6, NotifyPopSwapEffect
  <2> QED BY <2>1, <1>3, NotifierKeeps DEF Retry, Goes, At2
<1> QED BY <1>1, <1>2, <1>4, <1>5, <1>6

\* notify_all takes the whole stack.
LEMMA AllLists ==
    ASSUME IInv, TypeOK', NEW n \in Notifiers, NotifyAllSwap(n), state = seen[n]
    PROVE  /\ Lists' /\ Stacked' = {} /\ Links' = Links
           /\ \A w \in Waiters : pc'[w] = pc[w]
<1> USE DEF IInv
<1>1. /\ pc[n] = "swap" /\ UNCHANGED <<next, epoch, wstate, below, all>>
      /\ Goes(n, IF state.stack = None THEN "idle" ELSE "unpark")
      /\ At2(cur', cur, n, state.stack)
      /\ state' = [stack |-> None, epoch |-> 0, waiters |-> state.waiters, signals |-> state.waiters]
  BY NotifyAllSwapEffect DEF Retry
<1>2. /\ Links \in Linkings /\ Tops \in Heads(Owners) /\ Linked \in SUBSET Waiters
      /\ Tops[WordOwner] = state.stack /\ Stacked = Reach(Links, Tops[WordOwner])
      /\ \A m \in Notifiers : m \in Owners /\ m # WordOwner /\ Tops[m] = Start(m) BY ListTypes
<1>3. \A w \in Waiters : pc'[w] = pc[w] BY <1>1, Threads2 DEF Goes
<1>4. Linked' = Linked BY <1>1, <1>3 DEF Linked, Asleep
<1>5. Links' = Links BY <1>1 DEF Links
<1>6. Start(n) = None /\ Start(n)' = state.stack BY <1>1 DEF Start, Goes, At2
<1>7. ASSUME NEW m \in Notifiers \ {n} PROVE Start(m)' = Start(m)
  BY <1>1, Threads2 DEF Start, Goes, At2
<1>8. Tops' = [Tops EXCEPT ![WordOwner] = None, ![n] = Tops[WordOwner]]
  <2>1. state'.stack = None BY <1>1
  <2> QED BY <1>2, <1>6, <1>7, <2>1, WordOwnerNew DEF Tops, Owners
<1>9. Partition(Links, Owners, Tops, Linked) BY DEF Lists
<1>10. n \in Owners /\ WordOwner \in Owners /\ n # WordOwner /\ Tops[n] = None BY <1>2, <1>6, WordOwnerNew
<1>11. Partition(Links, Owners, [Tops EXCEPT ![WordOwner] = None, ![n] = Tops[WordOwner]], Linked)
  BY <1>2, <1>9, <1>10, PartitionTake
<1>12. Lists' BY <1>4, <1>5, <1>8, <1>11 DEF Lists
<1>13. Stacked' = {} BY <1>1, ReachNone DEF Stacked
<1> QED BY <1>3, <1>5, <1>12, <1>13

\* notify_one takes the top of the stack; what the notifier has read below it is there.
LEMMA PopLists ==
    ASSUME IInv, TypeOK', NEW n \in Notifiers, NotifyPopSwap(n), state = seen[n]
    PROVE  /\ Lists' /\ state.stack \in Stacked /\ Stacked' = Stacked \ {state.stack}
           /\ \A w \in Waiters : pc'[w] = pc[w]
           /\ below[n] = next[state.stack]
           /\ \A w \in Stacked' : next'[w] = next[w]
<1> USE DEF IInv
<1>1. /\ pc[n] = "swap" /\ ~all[n] /\ seen[n].signals >= seen[n].waiters /\ state.stack \in Waiters
      /\ UNCHANGED <<epoch, wstate, all>>
      /\ At2(below', below, n, NoTop) /\ Goes(n, "unpark") /\ At2(cur', cur, n, state.stack)
      /\ next' = [next EXCEPT ![state.stack] = NoTop]
      /\ state' = [state EXCEPT !.stack = below[n].stack, !.epoch = below[n].epoch]
  BY NotifyPopSwapEffect DEF Retry
<1>t. state \in Word /\ next \in [Waiters -> Top] BY DEF TypeOK
<1>2. /\ Links \in Linkings /\ Tops \in Heads(Owners) /\ Linked \in SUBSET Waiters
      /\ Tops[WordOwner] = state.stack /\ Stacked = Reach(Links, Tops[WordOwner])
      /\ \A m \in Notifiers : m \in Owners /\ m # WordOwner /\ Tops[m] = Start(m)
      /\ Links[state.stack] = next[state.stack].stack BY <1>1, ListTypes
<1>3. state.stack \in Stacked BY <1>1, <1>2, ReachStep
<1>4. state.epoch = epoch[state.stack] - 1 BY <1>1, Threads2 DEF Epochs
<1>5. below[n] = next[state.stack] BY <1>1, <1>3, <1>4 DEF Reads
<1>6. PICK w \in Waiters : w = state.stack BY <1>1
<1>7. PICK b \in Waiters \cup {None} : b = Links[w] BY <1>2 DEF Linkings
<1>8. state'.stack = b BY <1>1, <1>2, <1>5, <1>6, <1>7, <1>t DEF Word
<1>9. \A v \in Waiters : pc'[v] = pc[v] BY <1>1, Threads2 DEF Goes
<1>10. Linked' = Linked BY <1>1, <1>9 DEF Linked, Asleep
<1>11. Links' = [Links EXCEPT ![w] = None]
  <2>1. next' = [next EXCEPT ![w] = NoTop] BY <1>1, <1>6
  <2> QED BY <2>1, <1>t DEF Links, NoTop
<1>12. Start(n) = None /\ Start(n)' = w BY <1>1, <1>6 DEF Start, Goes, At2
<1>13. ASSUME NEW m \in Notifiers \ {n} PROVE Start(m)' = Start(m)
  BY <1>1, Threads2 DEF Start, Goes, At2
<1>14. Cut(Links, Links', Owners, Tops, Tops', Linked, WordOwner, n, w, b)
  <2>1. Links' \in Linkings /\ Links'[w] = None /\ \A v \in Waiters \ {w} : Links'[v] = Links[v]
    BY <1>2, <1>11 DEF Linkings
  <2>2. Partition(Links, Owners, Tops, Linked) BY DEF Lists
  <2>3. Tops[n] = None /\ Tops[WordOwner] = w /\ Links[w] = b BY <1>2, <1>6, <1>7, <1>12
  <2>4. n \in Owners /\ WordOwner \in Owners /\ WordOwner # n BY <1>2, WordOwnerNew
  <2>5. Tops'[WordOwner] = b /\ Tops'[n] = w /\ \A k \in Owners \ {WordOwner, n} : Tops'[k] = Tops[k]
    BY <1>2, <1>8, <1>12, <1>13, WordOwnerNew DEF Tops, Owners
  <2> QED BY <1>2, <2>1, <2>2, <2>3, <2>4, <2>5 DEF Cut
<1>19. Partition(Links', Owners, Tops', Linked) /\ Reach(Links', b) = Reach(Links, w) \ {w}
  BY <1>14, PartitionPop
<1>23. Lists' BY <1>10, <1>19 DEF Lists
<1>24. Stacked' = Stacked \ {w}
  <2>1. Stacked' = Reach(Links', state'.stack) BY DEF Stacked
  <2> QED BY <2>1, <1>2, <1>6, <1>8, <1>19
<1>20. \A v \in Waiters \ {w} : next'[v] = next[v] BY <1>1, <1>6, <1>t
<1>21. \A v \in Stacked' : v \in Waiters \ {w} BY <1>24 DEF Stacked, Reach
<1> QED BY <1>3, <1>5, <1>6, <1>9, <1>20, <1>21, <1>23, <1>24

\* A sleeper that is signaled leaves its notifier's list.
LEMMA UnparkLists ==
    ASSUME IInv, TypeOK', NEW n \in Notifiers, Unpark(n)
    PROVE  /\ Lists' /\ Stacked' = Stacked /\ cur[n] \in Linked
           /\ \A w \in Waiters : pc'[w] = pc[w]
<1> USE DEF IInv
<1>1. /\ pc[n] = "unpark" /\ cur[n] \in Waiters
      /\ UNCHANGED <<state, next, epoch, seen, all>>
      /\ At2(below', below, n, next[cur[n]])
      /\ At1(wstate', wstate, cur[n], "signaled")
      /\ \/ wstate[cur[n]] = "waiting" /\ Goes(n, "wake") /\ UNCHANGED cur
         \/ /\ wstate[cur[n]] # "waiting"
            /\ Goes(n, IF next[cur[n]].stack = None THEN "idle" ELSE "unpark")
            /\ At2(cur', cur, n, next[cur[n]].stack) BY UnparkEffect
<1>2. /\ Links \in Linkings /\ Tops \in Heads(Owners) /\ Linked \in SUBSET Waiters
      /\ \A m \in Notifiers : m \in Owners /\ m # WordOwner /\ Tops[m] = Start(m)
      /\ Links[cur[n]] = next[cur[n]].stack BY <1>1, ListTypes
<1>3. PICK w \in Waiters : w = cur[n] BY <1>1
<1>4. PICK b : b = Links[w] OBVIOUS
<1>5. \A v \in Waiters : pc'[v] = pc[v] BY <1>1, Threads2 DEF Goes
<1>6. Linked' = Linked \ {w} BY <1>1, <1>3, <1>5 DEF Linked, Asleep, At1
<1>7. Links' = Links BY <1>1 DEF Links
<1>8. Start(n) = w BY <1>1, <1>3 DEF Start
<1>9. Start(n)' = b
  <2>1. below'[n].stack = b BY <1>1, <1>2, <1>3, <1>4 DEF At2
  <2>2. next[cur[n]].stack = b BY <1>2, <1>3, <1>4
  <2>3. CASE Goes(n, "wake") BY <2>1, <2>3 DEF Start, Goes
  <2>4. CASE /\ Goes(n, IF next[cur[n]].stack = None THEN "idle" ELSE "unpark")
             /\ At2(cur', cur, n, next[cur[n]].stack) BY <2>2, <2>4 DEF Start, Goes, At2
  <2> QED BY <1>1, <2>3, <2>4
<1>10. ASSUME NEW m \in Notifiers \ {n} PROVE Start(m)' = Start(m)
  BY <1>1, Threads2 DEF Start, Goes, At2
<1>11. Tops' = [Tops EXCEPT ![n] = b] BY <1>1, <1>2, <1>9, <1>10, WordOwnerNew DEF Tops, Owners
<1>12. PICK f \in Linkings : f = Links BY <1>2
<1>13. PICK h \in Heads(Owners) : h = Tops BY <1>2
<1>14. Partition(f, Owners, [h EXCEPT ![n] = b], Linked \ {w}) /\ w \in Linked
  <2>1. Partition(f, Owners, h, Linked) BY <1>12, <1>13 DEF Lists
  <2>2. w = h[n] /\ b = f[w] /\ n \in Owners BY <1>2, <1>4, <1>8, <1>12, <1>13
  <2>3. w \in Reach(f, h[n]) BY <2>2, ReachStep
  <2>4. w \in Linked BY <2>1, <2>2, <2>3 DEF Partition
  <2> QED BY <1>2, <2>1, <2>2, <2>4, PartitionDrop
<1>15. Lists' BY <1>6, <1>7, <1>11, <1>12, <1>13, <1>14 DEF Lists
<1>16. Stacked' = Stacked BY <1>1, <1>7 DEF Stacked
<1> QED BY <1>3, <1>5, <1>14, <1>15, <1>16

LEMMA WakeLists ==
    ASSUME IInv, TypeOK', NEW n \in Notifiers, Wake(n)
    PROVE  ListsKept
<1> USE DEF IInv
<1>1. PICK w \in Waiters : w = cur[n] BY WakeEffect
<1>2. pc'[w] = (IF pc[w] = "blocked" THEN "park" ELSE pc[w]) BY <1>1, WakeEffect
<1>3. \A t \in Threads \ {n, w} : pc'[t] = pc[t] BY <1>1, WakeEffect
<1>4. UNCHANGED <<state, next, wstate, below>> BY WakeEffect
<1>5. Linked' = Linked
  <2>1. \A v \in Waiters \ {w} : pc'[v] = pc[v] BY <1>3, Threads2
  <2> QED BY <1>2, <1>4, <2>1 DEF Linked, Asleep
<1>6. Start(n)' = Start(n)
  <2>1. /\ pc[n] = "wake" /\ pc'[n] = (IF below[n].stack = None THEN "idle" ELSE "unpark")
        /\ cur'[n] = below[n].stack BY WakeEffect DEF At2
  <2> QED BY <2>1 DEF Start
<1>7. \A m \in Notifiers \ {n} : pc'[m] = pc[m] /\ cur'[m] = cur[m] /\ below'[m] = below[m]
  BY <1>3, <1>4, WakeEffect, Threads2 DEF At2
<1>8. \A m \in Notifiers : Start(m)' = Start(m) BY <1>6, <1>7, StartKept
<1> QED BY <1>4, <1>5, <1>8, KeepLists

----------------------------------------------------------------------------
(* What a step does to the stack *)

Untouched ==
    /\ ListsKept /\ epoch' = epoch
    /\ state'.stack = state.stack /\ state'.epoch = state.epoch
    /\ \A v \in Stacked : next'[v] = next[v]

Pushed(w) ==
    /\ CommitSwap(w) /\ state = seen[w] /\ state.signals = 0
    /\ w \in Waiters /\ w \notin Stacked /\ Stacked' = Stacked \cup {w}
    /\ state'.stack = w /\ state'.epoch = epoch[w]
    /\ epoch'[w] = epoch[w] + 1 /\ \A v \in Waiters \ {w} : epoch'[v] = epoch[v]
    /\ next' = next /\ next[w] = TopOf(state)

Popped(n) ==
    /\ NotifyPopSwap(n) /\ state = seen[n]
    /\ state.stack \in Stacked /\ Stacked' = Stacked \ {state.stack}
    /\ state'.stack = next[state.stack].stack /\ state'.epoch = next[state.stack].epoch
    /\ epoch' = epoch /\ \A v \in Stacked' : next'[v] = next[v]

TakenAll(n) ==
    /\ NotifyAllSwap(n) /\ state = seen[n]
    /\ Stacked' = {} /\ state'.stack = None /\ epoch' = epoch

LEMMA StackFacts ==
    ASSUME TypeOK, Lists
    PROVE  /\ Stacked \subseteq Linked
           /\ \A v \in Stacked : v \in Waiters /\ next[v].stack \in Stacked \cup {None}
           /\ state.stack \in Stacked \cup {None}
<1>1. /\ Links \in Linkings /\ Tops[WordOwner] = state.stack
      /\ Stacked = Reach(Links, state.stack) /\ \A w \in Waiters : Links[w] = next[w].stack
  BY ListTypes DEF Stacked
<1>2. state.stack \in Waiters \cup {None} BY WordFacts
<1>3. Stacked \subseteq Linked BY <1>1, WordOwnerNew DEF Lists, Partition
<1>4. state.stack \in Stacked \cup {None} BY <1>1, <1>2, ReachStep
<1>5. ASSUME NEW v \in Stacked PROVE v \in Waiters /\ next[v].stack \in Stacked \cup {None}
  BY <1>1, <1>2, <1>5, ReachClosed
<1> QED BY <1>3, <1>4, <1>5

LEMMA StackStep ==
    ASSUME IInv, TypeOK', [Next]_vars
    PROVE  /\ Lists'
           /\ \/ Untouched
              \/ \E w \in Waiters : Pushed(w)
              \/ \E n \in Notifiers : Popped(n) \/ TakenAll(n)
              \/ \E n \in Notifiers : /\ Unpark(n) /\ Stacked' = Stacked
                                      /\ UNCHANGED <<state, next, epoch>>
<1> USE DEF IInv
<1>t. state \in Word /\ Stacked \subseteq Linked /\ \A v \in Stacked : v \in Waiters
  BY StackFacts DEF TypeOK
<1>u. CASE UNCHANGED vars
  <2>1. Links' = Links /\ Tops' = Tops /\ Linked' = Linked
    BY <1>u DEF vars, Links, Tops, Start, Linked, Asleep
  <2>2. ListsKept BY <1>u, <2>1 DEF vars, ListsKept, Lists, Stacked, TakenBy
  <2> QED BY <1>u, <2>2 DEF vars, Untouched, ListsKept
<1>1. ASSUME NEW w \in Waiters, CommitSwap(w), state = seen[w], state.signals = 0
      PROVE  Lists' /\ Pushed(w)
  <2>1. /\ At1(epoch', epoch, w, epoch[w] + 1)
        /\ state' = [state EXCEPT !.stack = w, !.epoch = epoch[w], !.waiters = @ - 1]
    BY <1>1, CommitSwapEffect, Zenon
  <2>2. state'.stack = w /\ state'.epoch = epoch[w] BY <2>1, <1>t DEF Word
  <2>3. Lists' /\ Stacked' = Stacked \cup {w} /\ w \notin Linked /\ next' = next /\ next[w] = TopOf(state)
    BY <1>1, PushLists
  <2> QED BY <1>1, <1>t, <2>1, <2>2, <2>3 DEF Pushed, At1
<1>2. ASSUME NEW w \in Waiters, PrepareWait(w) \/ WaiterStep(w) \/ SpuriousWakeup(w),
             ~(CommitSwap(w) /\ state = seen[w] /\ state.signals = 0)
      PROVE  Lists' /\ Untouched
  <2>1. ListsKept BY <1>2, WaiterLists
  <2>2. epoch' = epoch /\ state'.stack = state.stack /\ state'.epoch = state.epoch
    <3>1. CASE PrepareWait(w) BY <3>1, <1>t, PrepareWaitEffect DEF Word
    <3>2. CASE CommitSwap(w)
      <4>1. \/ UNCHANGED <<state, epoch>>
            \/ state' = [state EXCEPT !.waiters = @ - 1, !.signals = @ - 1] /\ UNCHANGED epoch
        BY <1>2, <3>2, CommitSwapEffect
      <4> QED BY <4>1, <1>t DEF Word
    <3>3. CASE CancelSwap(w)
      <4>1. \/ UNCHANGED state
            \/ state' = [state EXCEPT !.waiters = @ - 1, !.signals = IF state.waiters = @ THEN @ - 1 ELSE @]
        BY <3>3, CancelSwapEffect
      <4>2. epoch' = epoch BY <3>3, CancelSwapEffect
      <4> QED BY <4>1, <4>2, <1>t DEF Word
    <3>4. CASE ~PrepareWait(w) /\ ~CommitSwap(w) /\ ~CancelSwap(w)
      BY <1>2, <3>4, CommitBeginEffect, CancelBeginEffect, CommitLinkEffect, ParkEffect, SpuriousEffect DEF WaiterStep
    <3> QED BY <3>1, <3>2, <3>3, <3>4
  <2>3. \A v \in Stacked : next'[v] = next[v]
    <3>1. CASE CommitLink(w)
      <4>1. w \notin Linked BY <3>1, CommitLinkEffect DEF Linked, Asleep
      <4> QED BY <3>1, <4>1, <1>t, CommitLinkEffect DEF At1
    <3>2. CASE ~CommitLink(w)
      BY <1>2, <3>2, PrepareWaitEffect, CommitBeginEffect, CancelBeginEffect,
         CommitSwapEffect, ParkEffect, CancelSwapEffect, SpuriousEffect DEF WaiterStep
    <3> QED BY <3>1, <3>2
  <2> QED BY <2>1, <2>2, <2>3 DEF Untouched, ListsKept
<1>3. ASSUME NEW n \in Notifiers,
             \/ NotifyBegin(n) \/ NotifyReadNext(n) \/ NotifySignalSwap(n)
             \/ NotifyAllSwap(n) /\ state # seen[n]
             \/ NotifyPopSwap(n) /\ state # seen[n]
      PROVE  Lists' /\ Untouched
  <2>1. ListsKept BY <1>3, NotifierLists
  <2>2. epoch' = epoch /\ next' = next /\ state'.stack = state.stack /\ state'.epoch = state.epoch
    <3>1. CASE NotifyBegin(n) BY <3>1, NotifyBeginEffect
    <3>2. CASE NotifyReadNext(n) BY <3>2, NotifyReadNextEffect
    <3>3. CASE NotifySignalSwap(n)
      <4>1. UNCHANGED state \/ state' = [state EXCEPT !.signals = @ + 1] BY <3>3, NotifySignalSwapEffect DEF Retry
      <4>2. epoch' = epoch /\ next' = next BY <3>3, NotifySignalSwapEffect
      <4> QED BY <4>1, <4>2, <1>t DEF Word
    <3>4. CASE NotifyAllSwap(n) /\ state # seen[n] BY <3>4, NotifyAllSwapEffect DEF Retry
    <3>5. CASE NotifyPopSwap(n) /\ state # seen[n] BY <3>5, NotifyPopSwapEffect DEF Retry
    <3> QED BY <1>3, <3>1, <3>2, <3>3, <3>4, <3>5
  <2> QED BY <2>1, <2>2 DEF Untouched, ListsKept
<1>4. ASSUME NEW n \in Notifiers, NotifyAllSwap(n), state = seen[n] PROVE Lists' /\ TakenAll(n)
  BY <1>4, AllLists, NotifyAllSwapEffect DEF TakenAll, Retry
<1>5. ASSUME NEW n \in Notifiers, NotifyPopSwap(n), state = seen[n] PROVE Lists' /\ Popped(n)
  <2>1. /\ Lists' /\ state.stack \in Stacked /\ Stacked' = Stacked \ {state.stack}
        /\ below[n] = next[state.stack] /\ \A w \in Stacked' : next'[w] = next[w] BY <1>5, PopLists
  <2>2. state' = [state EXCEPT !.stack = below[n].stack, !.epoch = below[n].epoch] /\ epoch' = epoch
    BY <1>5, NotifyPopSwapEffect DEF Retry
  <2>3. state'.stack = next[state.stack].stack /\ state'.epoch = next[state.stack].epoch
    BY <2>1, <2>2, <1>t DEF Word
  <2> QED BY <1>5, <2>1, <2>2, <2>3 DEF Popped
<1>6. ASSUME NEW n \in Notifiers, Unpark(n)
      PROVE  Lists' /\ Stacked' = Stacked /\ UNCHANGED <<state, next, epoch>>
  BY <1>6, UnparkLists, UnparkEffect
<1>7. ASSUME NEW n \in Notifiers, Wake(n) PROVE Lists' /\ Untouched
  <2>1. UNCHANGED <<state, next, epoch>> BY <1>7, WakeEffect
  <2> QED BY <1>7, <2>1, WakeLists DEF Untouched, ListsKept
<1>8. ASSUME NEW w \in Waiters, PrepareWait(w) \/ WaiterStep(w) \/ SpuriousWakeup(w)
      PROVE  Lists' /\ (Untouched \/ \E v \in Waiters : Pushed(v)) BY <1>8, <1>1, <1>2
<1>9. ASSUME NEW n \in Notifiers, NotifyBegin(n) \/ NotifierStep(n)
      PROVE  /\ Lists'
             /\ \/ Untouched
                \/ \E m \in Notifiers : Popped(m) \/ TakenAll(m)
                \/ \E m \in Notifiers : Unpark(m) /\ Stacked' = Stacked /\ UNCHANGED <<state, next, epoch>>
  BY <1>9, <1>3, <1>4, <1>5, <1>6, <1>7 DEF NotifierStep
<1> QED BY <1>u, <1>8, <1>9 DEF Next

\* What a thread sees in the next state it saw before, or it is the word, or nothing.
LEMMA SeenStep ==
    ASSUME IInv, [Next]_vars, NEW t \in Threads
    PROVE  seen'[t] \in {seen[t], state, NoWord}
<1> USE DEF IInv
<1>1. CASE UNCHANGED vars BY <1>1 DEF vars
<1>2. ASSUME NEW w \in Waiters, PrepareWait(w) \/ WaiterStep(w) \/ SpuriousWakeup(w)
      PROVE  (\E s \in {state, NoWord} : Sees(w, s)) \/ UNCHANGED seen
  BY <1>2, PrepareWaitEffect, CommitBeginEffect, CancelBeginEffect, CommitLinkEffect,
     CommitSwapEffect, ParkEffect, CancelSwapEffect, SpuriousEffect DEF WaiterStep
<1>3. ASSUME NEW n \in Notifiers, NotifyBegin(n) \/ NotifierStep(n)
      PROVE  (\E s \in {state, NoWord} : Sees(n, s)) \/ UNCHANGED seen
  BY <1>3, NotifyBeginEffect, NotifyReadNextEffect, NotifyAllSwapEffect,
     NotifySignalSwapEffect, NotifyPopSwapEffect, UnparkEffect, WakeEffect DEF NotifierStep, Retry
<1>4. ASSUME NEW u \in Threads, NEW s \in {state, NoWord}, Sees(u, s)
      PROVE  seen'[t] \in {seen[t], state, NoWord} BY <1>4 DEF Sees
<1> QED BY <1>1, <1>2, <1>3, <1>4, Threads2 DEF Next

LEMMA EpochsStep == ASSUME IInv, TypeOK', [Next]_vars PROVE Epochs'
<1> USE DEF IInv
<1>0. /\ Stacked \subseteq Linked
      /\ \A v \in Stacked : v \in Waiters /\ next[v].stack \in Stacked \cup {None} /\ next[v].epoch \in Nat
      /\ state.stack \in Stacked \cup {None} /\ state.epoch \in Nat /\ \A v \in Waiters : v # None
  BY StackFacts, WordFacts, Threads2
<1>e. /\ epoch \in [Waiters -> Nat] /\ epoch' \in [Waiters -> Nat] BY DEF TypeOK
<1>g. \A v \in Waiters : epoch'[v] >= epoch[v]
  BY <1>0, <1>e, StackStep DEF Untouched, Pushed, Popped, TakenAll
<1>1. ASSUME NEW t \in Threads, seen'[t].stack # None PROVE seen'[t].epoch < epoch'[seen'[t].stack]
  <2>1. seen'[t] \in {seen[t], state, NoWord} BY SeenStep
  <2>2. /\ seen[t].stack \in Waiters \cup {None} /\ seen[t].epoch \in Nat
        /\ seen[t].stack # None => seen[t].epoch < epoch[seen[t].stack] BY WordFacts DEF Epochs
  <2>3. state.stack # None => state.stack \in Waiters /\ state.epoch < epoch[state.stack]
    BY <1>0, <1>e DEF Epochs
  <2>4. CASE seen'[t] = seen[t] BY <2>2, <2>4, <1>1, <1>e, <1>g
  <2>5. CASE seen'[t] = state BY <2>3, <2>5, <1>0, <1>1, <1>e, <1>g
  <2>6. CASE seen'[t] = NoWord BY <2>6, <1>1 DEF NoWord
  <2> QED BY <2>1, <2>4, <2>5, <2>6
<1>2. (state'.stack # None => state'.epoch = epoch'[state'.stack] - 1)
      /\ \A w \in Stacked' : next'[w].stack # None => next'[w].epoch = epoch'[next'[w].stack] - 1
  <2>o. /\ state.stack # None => state.epoch = epoch[state.stack] - 1
        /\ \A w \in Stacked : next[w].stack # None => next[w].epoch = epoch[next[w].stack] - 1
    BY DEF Epochs
  <2>1. CASE Untouched BY <2>1, <2>o DEF Untouched, ListsKept
  <2>2. ASSUME NEW w \in Waiters, Pushed(w)
        PROVE  (state'.stack # None => state'.epoch = epoch'[state'.stack] - 1)
               /\ \A v \in Stacked' : next'[v].stack # None => next'[v].epoch = epoch'[next'[v].stack] - 1
    <3>1. state'.epoch = epoch'[state'.stack] - 1 BY <2>2, <1>e DEF Pushed
    <3>2. ASSUME NEW v \in Stacked', next'[v].stack # None PROVE next'[v].epoch = epoch'[next'[v].stack] - 1
      <4>1. next' = next /\ w \notin Stacked /\ next[w] = TopOf(state) /\ v \in Stacked \cup {w}
            /\ \A u \in Waiters \ {w} : epoch'[u] = epoch[u] BY <2>2, <3>2 DEF Pushed
      <4>2. CASE v = w
        <5>1. next[v].stack = state.stack /\ next[v].epoch = state.epoch BY <4>1, <4>2 DEF TopOf
        <5>2. state.stack \in Waiters \ {w} BY <5>1, <4>1, <3>2, <1>0
        <5> QED BY <5>1, <5>2, <4>1, <2>o, <3>2
      <4>3. CASE v \in Stacked
        <5>1. next[v].stack \in Waiters \ {w} BY <4>1, <4>3, <3>2, <1>0
        <5> QED BY <5>1, <4>1, <4>3, <2>o, <3>2
      <4> QED BY <4>1, <4>2, <4>3
    <3> QED BY <3>1, <3>2
  <2>3. ASSUME NEW n \in Notifiers, Popped(n)
        PROVE  (state'.stack # None => state'.epoch = epoch'[state'.stack] - 1)
               /\ \A v \in Stacked' : next'[v].stack # None => next'[v].epoch = epoch'[next'[v].stack] - 1
    BY <2>3, <2>o DEF Popped
  <2>4. ASSUME NEW n \in Notifiers, TakenAll(n)
        PROVE  (state'.stack # None => state'.epoch = epoch'[state'.stack] - 1)
               /\ \A v \in Stacked' : next'[v].stack # None => next'[v].epoch = epoch'[next'[v].stack] - 1
    BY <2>4 DEF TakenAll
  <2>5. CASE Stacked' = Stacked /\ UNCHANGED <<state, next, epoch>> BY <2>5, <2>o
  <2> QED BY <2>1, <2>2, <2>3, <2>4, <2>5, StackStep
<1> QED BY <1>1, <1>2 DEF Epochs

----------------------------------------------------------------------------
(* What a waiter that commits holds *)

LEMMA WaiterCommitting ==
    ASSUME IInv, NEW w \in Waiters, PrepareWait(w) \/ WaiterStep(w) \/ SpuriousWakeup(w)
    PROVE  \A v \in Waiters : Committing(v)'
<1> USE DEF IInv
<1>0. \A v \in Waiters : v \in Threads /\ Committing(v) BY Threads2
<1>1. (\A v \in Waiters \ {w} : pc'[v] = pc[v]) /\ \A n \in Notifiers : pc'[n] = pc[n]
  BY WaiterCounts
<1>2. /\ cur' = cur
      /\ \A v \in Waiters \ {w} : wstate'[v] = wstate[v] /\ next'[v] = next[v]
  BY PrepareWaitEffect, CommitBeginEffect, CancelBeginEffect, CommitLinkEffect,
     CommitSwapEffect, ParkEffect, CancelSwapEffect, SpuriousEffect DEF WaiterStep, At1
<1>3. (\E s : Sees(w, s)) \/ UNCHANGED seen
  BY PrepareWaitEffect, CommitBeginEffect, CancelBeginEffect, CommitLinkEffect,
     CommitSwapEffect, ParkEffect, CancelSwapEffect, SpuriousEffect DEF WaiterStep
<1>4. \A v \in Waiters \ {w} : seen'[v] = seen[v] BY <1>3, <1>0 DEF Sees
<1>5. ASSUME NEW v \in Waiters \ {w} PROVE Committing(v)' BY <1>0, <1>1, <1>2, <1>4 DEF Committing
<1>6. Committing(w)'
  <2>1. CASE PrepareWait(w) BY <2>1, PrepareWaitEffect DEF Goes, Committing
  <2>2. CASE CommitBegin(w) BY <2>2, CommitBeginEffect DEF Goes, At1, Committing
  <2>3. CASE CancelBegin(w) BY <2>3, CancelBeginEffect DEF Goes, Committing
  <2>4. CASE CommitLink(w)
    <3>1. /\ pc[w] = "commit" /\ pc'[w] = "push" /\ wstate' = wstate /\ seen' = seen
          /\ seen[w].signals = 0 => next'[w] = TopOf(seen[w])
      BY <2>4, CommitLinkEffect DEF Goes, At1
    <3> QED BY <3>1, <1>0 DEF Committing, TopOf
  <2>5. CASE CommitSwap(w)
    <3>1. pc[w] = "push" /\ pc'[w] \in {"commit", "out", "park"} /\ wstate' = wstate
      BY <2>5, CommitSwapEffect DEF Goes
    <3> QED BY <3>1, <1>0 DEF Committing
  <2>6. CASE Park(w) BY <2>6, ParkEffect DEF Goes, At1, Committing
  <2>7. CASE CancelSwap(w) BY <2>7, CancelSwapEffect DEF Goes, Committing
  <2>8. CASE SpuriousWakeup(w) BY <2>8, SpuriousEffect DEF Goes, Committing
  <2> QED BY <2>1, <2>2, <2>3, <2>4, <2>5, <2>6, <2>7, <2>8 DEF WaiterStep
<1> QED BY <1>5, <1>6

\* What a notifier does to what others hold.
LEMMA NotifierFrame ==
    ASSUME IInv, NEW n \in Notifiers, NotifyBegin(n) \/ NotifierStep(n)
    PROVE  /\ \A m \in Notifiers \ {n} : pc'[m] = pc[m] /\ cur'[m] = cur[m]
           /\ \A m \in Notifiers \ {n} : below'[m] = below[m] /\ seen'[m] = seen[m] /\ all'[m] = all[m]
           /\ \A v \in Waiters : seen'[v] = seen[v]
           /\ ~Wake(n) => \A v \in Waiters : pc'[v] = pc[v]
<1> USE DEF IInv
<1>0. (\A m \in Notifiers : m \in Threads) /\ \A v \in Waiters : v \in Threads \ {n} BY Threads2
<1>1. CASE Wake(n)
  <2>1. PICK w \in Waiters : w = cur[n] BY <1>1, WakeEffect
  <2>2. \A m \in Notifiers \ {n} : pc'[m] = pc[m] BY <1>1, <2>1, WakeEffect, Threads2
  <2>3. \A m \in Notifiers \ {n} : cur'[m] = cur[m] BY <1>1, WakeEffect DEF At2
  <2>4. UNCHANGED <<below, seen, all>> BY <1>1, WakeEffect
  <2> QED BY <1>1, <2>2, <2>3, <2>4
<1>2. CASE ~Wake(n)
  <2>1. \E l : Goes(n, l) BY <1>2, NotifyBeginEffect, NotifyReadNextEffect, NotifyAllSwapEffect,
       NotifySignalSwapEffect, NotifyPopSwapEffect, UnparkEffect DEF NotifierStep, Retry
  <2>2. (\E s : Sees(n, s)) \/ UNCHANGED seen
    BY <1>2, NotifyBeginEffect, NotifyReadNextEffect, NotifyAllSwapEffect,
       NotifySignalSwapEffect, NotifyPopSwapEffect, UnparkEffect DEF NotifierStep, Retry
  <2>3. \A m \in Notifiers \ {n} : cur'[m] = cur[m]
    BY <1>2, NotifyBeginEffect, NotifyReadNextEffect, NotifyAllSwapEffect,
       NotifySignalSwapEffect, NotifyPopSwapEffect, UnparkEffect DEF NotifierStep, Retry, At2
  <2>4. \A m \in Notifiers \ {n} : below'[m] = below[m]
    BY <1>2, NotifyBeginEffect, NotifyReadNextEffect, NotifyAllSwapEffect,
       NotifySignalSwapEffect, NotifyPopSwapEffect, UnparkEffect DEF NotifierStep, Retry, At2
  <2>5. \A m \in Notifiers \ {n} : all'[m] = all[m]
    BY <1>2, NotifyBeginEffect, NotifyReadNextEffect, NotifyAllSwapEffect,
       NotifySignalSwapEffect, NotifyPopSwapEffect, UnparkEffect DEF NotifierStep, Retry, At2
  <2> QED BY <1>0, <2>1, <2>2, <2>3, <2>4, <2>5 DEF Goes, Sees
<1> QED BY <1>1, <1>2

LEMMA NotifierCommitting ==
    ASSUME IInv, TypeOK', NEW n \in Notifiers, NotifyBegin(n) \/ NotifierStep(n)
    PROVE  \A v \in Waiters : Committing(v)'
<1> USE DEF IInv
<1> TAKE v \in Waiters
<1>1. Committing(v) OBVIOUS
<1>2. seen'[v] = seen[v] BY NotifierFrame
<1>3. CASE Wake(n)
  <2>1. PICK w \in Waiters : w = cur[n] BY <1>3, WakeEffect
  <2>2. UNCHANGED <<wstate, next>> BY <1>3, WakeEffect
  <2>3. v = w => pc'[v] = (IF pc[v] = "blocked" THEN "park" ELSE pc[v]) BY <1>3, <2>1, WakeEffect
  <2>4. v # w => pc'[v] = pc[v] BY <1>3, <2>1, WakeEffect, Threads2
  <2>5. pc'[v] = "blocked" => v # w BY <2>3
  <2>6. ASSUME NEW m \in Notifiers, pc[m] = "wake", cur[m] = v, v # w
        PROVE  pc'[m] = "wake" /\ cur'[m] = v BY <2>6, <2>1, NotifierFrame
  <2> QED BY <1>1, <1>2, <2>2, <2>3, <2>4, <2>5, <2>6 DEF Committing
<1>4. CASE Unpark(n)
  <2>1. pc'[v] = pc[v] /\ next' = next BY <1>4, UnparkLists, UnparkEffect
  <2>2. cur[n] \in Linked BY <1>4, UnparkLists
  <2>3. PICK w \in Linked : w = cur[n] BY <2>2
  <2>4. Asleep(w) /\ wstate[w] # "signaled" BY DEF Linked
  <2>5. ASSUME NEW m \in Notifiers, pc[m] = "wake", cur[m] = v PROVE pc'[m] = "wake" /\ cur'[m] = v
    <3>1. pc[n] # "wake" BY <1>4, UnparkEffect
    <3> QED BY <2>5, <3>1, NotifierFrame
  <2>6. CASE v = w
    <3>1. wstate'[v] = "signaled" /\ pc[v] \in {"park", "blocked"}
      BY <1>4, <2>3, <2>4, <2>6, UnparkEffect DEF At1, Asleep
    <3>2. ASSUME pc[v] = "blocked" PROVE pc'[n] = "wake" /\ cur'[n] = v
      <4>1. wstate[cur[n]] = "waiting" BY <1>1, <2>3, <2>4, <2>6, <3>2 DEF Committing, TypeOK, Linked
      <4> QED BY <1>4, <4>1, <2>3, <2>6, UnparkEffect DEF Goes
    <3> QED BY <2>1, <3>1, <3>2 DEF Committing
  <2>7. CASE v # w
    <3>1. wstate'[v] = wstate[v] BY <1>4, <2>3, <2>7, UnparkEffect DEF At1
    <3> QED BY <1>1, <1>2, <2>1, <2>5, <3>1 DEF Committing
  <2> QED BY <2>6, <2>7
<1>5. CASE ~Wake(n) /\ ~Unpark(n)
  <2>1. pc'[v] = pc[v] BY <1>5, NotifierFrame
  <2>2. pc[n] # "wake" /\ wstate' = wstate
    BY <1>5, NotifyBeginEffect, NotifyReadNextEffect, NotifyAllSwapEffect,
       NotifySignalSwapEffect, NotifyPopSwapEffect DEF NotifierStep
  <2>3. \A m \in Notifiers : pc[m] = "wake" => pc'[m] = "wake" /\ cur'[m] = cur[m] BY <2>2, NotifierFrame
  <2>4. pc[v] = "push" => next'[v] = next[v]
    <3>1. CASE NotifyPopSwap(n) /\ state = seen[n]
      <4>1. PICK w \in Stacked : w = state.stack BY <3>1, PopLists
      <4>2. w \in Linked BY StackFacts
      <4>3. pc[v] = "push" => v # w BY <4>2 DEF Linked, Asleep
      <4>4. next' = [next EXCEPT ![w] = NoTop] BY <3>1, <4>1, NotifyPopSwapEffect DEF Retry
      <4> QED BY <4>3, <4>4 DEF TypeOK
    <3>2. CASE ~(NotifyPopSwap(n) /\ state = seen[n])
      <4>1. next' = next
        BY <1>5, <3>2, NotifyBeginEffect, NotifyReadNextEffect, NotifyAllSwapEffect,
           NotifySignalSwapEffect, NotifyPopSwapEffect DEF NotifierStep, Retry
      <4> QED BY <4>1
    <3> QED BY <3>1, <3>2
  <2> QED BY <1>1, <1>2, <2>1, <2>2, <2>3, <2>4 DEF Committing
<1> QED BY <1>3, <1>4, <1>5

LEMMA CommittingStep == ASSUME IInv, TypeOK', [Next]_vars PROVE \A v \in Waiters : Committing(v)'
<1>1. CASE UNCHANGED vars BY <1>1 DEF vars, IInv, Committing
<1> QED BY <1>1, WaiterCommitting, NotifierCommitting DEF Next

----------------------------------------------------------------------------
(* What a notifier has read *)

LEMMA ReadsKept ==
    ASSUME IInv, TypeOK', [Next]_vars, NEW n \in Notifiers,
           pc'[n] = pc[n], all'[n] = all[n], seen'[n] = seen[n], below'[n] = below[n]
    PROVE  Reads(n)'
<1> USE DEF IInv
<1> SUFFICES ASSUME pc'[n] = "swap", ~all'[n], seen'[n].signals >= seen'[n].waiters,
                    seen'[n].stack \in Stacked', seen'[n].epoch = epoch'[seen'[n].stack] - 1
             PROVE  below'[n] = next'[seen'[n].stack] BY DEF Reads
<1> DEFINE w == seen[n].stack
<1>1. w \in Stacked' /\ seen[n].epoch = epoch'[w] - 1 OBVIOUS
<1>2. w \in Waiters BY <1>1, Threads2 DEF Stacked, Reach
<1>3. seen[n].epoch < epoch[w] /\ seen[n].epoch \in Nat /\ epoch[w] \in Nat /\ epoch'[w] \in Nat
  BY <1>2, Threads2, WordFacts DEF Epochs, TypeOK
<1>4. w \in Stacked /\ epoch'[w] = epoch[w] /\ next'[w] = next[w]
  <2>1. CASE Untouched BY <2>1, <1>1 DEF Untouched, ListsKept
  <2>2. ASSUME NEW v \in Waiters, Pushed(v) PROVE w \in Stacked /\ epoch'[w] = epoch[w] /\ next'[w] = next[w]
    <3>1. epoch'[v] = epoch[v] + 1 /\ Stacked' = Stacked \cup {v} /\ next' = next
          /\ \A u \in Waiters \ {v} : epoch'[u] = epoch[u] BY <2>2 DEF Pushed
    <3>2. w # v BY <3>1, <1>1, <1>3
    <3> QED BY <3>1, <3>2, <1>1, <1>2
  <2>3. ASSUME NEW m \in Notifiers, Popped(m) PROVE w \in Stacked /\ epoch'[w] = epoch[w] /\ next'[w] = next[w]
    BY <2>3, <1>1 DEF Popped
  <2>4. ASSUME NEW m \in Notifiers, TakenAll(m) PROVE w \in Stacked /\ epoch'[w] = epoch[w] /\ next'[w] = next[w]
    BY <2>4, <1>1 DEF TakenAll
  <2>5. CASE Stacked' = Stacked /\ UNCHANGED <<state, next, epoch>> BY <2>5, <1>1
  <2> QED BY <2>1, <2>2, <2>3, <2>4, <2>5, StackStep
<1>5. Reads(n) OBVIOUS
<1> QED BY <1>1, <1>3, <1>4, <1>5 DEF Reads

\* A notifier that has branched to its swap has not read, and will not need to.
LEMMA BranchReads ==
    ASSUME TypeOK, NEW n \in Notifiers, NEW a \in BOOLEAN,
           Goes(n, BranchTo(a)), Sees(n, IF NobodyWaits THEN NoWord ELSE state),
           a /\ ~NobodyWaits => all'[n]
    PROVE  Reads(n)'
<1>1. CASE BranchTo(a) # "swap" BY <1>1 DEF Goes, Reads
<1>2. CASE BranchTo(a) = "swap"
  <2>1. ~NobodyWaits /\ (a \/ state.signals < state.waiters) BY <1>2 DEF BranchTo
  <2>2. seen'[n] = state BY <2>1 DEF Sees
  <2>3. state.signals \in Nat /\ state.waiters \in Nat BY WordFacts
  <2> QED BY <2>1, <2>2, <2>3 DEF Reads
<1> QED BY <1>1, <1>2

LEMMA ReadsStep == ASSUME IInv, TypeOK', [Next]_vars PROVE \A n \in Notifiers : Reads(n)'
<1> USE DEF IInv
<1>u. CASE UNCHANGED vars BY <1>u, ReadsKept DEF vars
<1>w. ASSUME NEW w \in Waiters, PrepareWait(w) \/ WaiterStep(w) \/ SpuriousWakeup(w), NEW n \in Notifiers
      PROVE  Reads(n)'
  <2>1. pc'[n] = pc[n] BY <1>w, WaiterCounts
  <2>2. UNCHANGED <<all, below>>
    BY <1>w, PrepareWaitEffect, CommitBeginEffect, CancelBeginEffect, CommitLinkEffect,
       CommitSwapEffect, ParkEffect, CancelSwapEffect, SpuriousEffect DEF WaiterStep
  <2>3. (\E s : Sees(w, s)) \/ UNCHANGED seen
    BY <1>w, PrepareWaitEffect, CommitBeginEffect, CancelBeginEffect, CommitLinkEffect,
       CommitSwapEffect, ParkEffect, CancelSwapEffect, SpuriousEffect DEF WaiterStep
  <2>4. seen'[n] = seen[n] BY <2>3, Threads2 DEF Sees
  <2>5. Next BY <1>w DEF Next
  <2> QED BY <2>1, <2>2, <2>4, <2>5, ReadsKept
<1>m. ASSUME NEW m \in Notifiers, NotifyBegin(m) \/ NotifierStep(m), NEW n \in Notifiers \ {m}
      PROVE  Reads(n)'
  <2>1. pc'[n] = pc[n] /\ below'[n] = below[n] /\ seen'[n] = seen[n] /\ all'[n] = all[n]
    BY <1>m, NotifierFrame
  <2>2. Next BY <1>m DEF Next
  <2> QED BY <2>1, <2>2, ReadsKept
<1>n. ASSUME NEW n \in Notifiers, NotifyBegin(n) \/ NotifierStep(n) PROVE Reads(n)'
  <2>1. CASE NotifyBegin(n)
    <3>1. PICK a \in BOOLEAN : /\ At2(all', all, n, a /\ ~NobodyWaits)
                               /\ Goes(n, BranchTo(a)) /\ Sees(n, IF NobodyWaits THEN NoWord ELSE state)
      BY <2>1, NotifyBeginEffect
    <3>2. all'[n] = (a /\ ~NobodyWaits) BY <3>1 DEF At2
    <3> QED BY <3>1, <3>2, BranchReads
  <2>2. CASE NotifyReadNext(n)
    <3>1. below'[n] = next[seen[n].stack] /\ next' = next /\ seen' = seen
      BY <2>2, NotifyReadNextEffect DEF At2
    <3> QED BY <3>1 DEF Reads
  <2>3. ASSUME Retry(n), all' = all PROVE Reads(n)'
    <3>1. all[n] \in BOOLEAN BY DEF TypeOK
    <3>2. Goes(n, BranchTo(all[n])) /\ Sees(n, IF NobodyWaits THEN NoWord ELSE state) BY <2>3 DEF Retry
    <3> QED BY <2>3, <3>1, <3>2, BranchReads
  <2>4. CASE ~NotifyBegin(n) /\ ~NotifyReadNext(n) /\ ~(Retry(n) /\ all' = all)
    <3>1. pc'[n] # "swap"
      <4>1. CASE NotifyAllSwap(n) BY <2>4, <4>1, NotifyAllSwapEffect DEF Goes
      <4>2. CASE NotifySignalSwap(n) BY <2>4, <4>2, NotifySignalSwapEffect DEF Goes
      <4>3. CASE NotifyPopSwap(n) BY <2>4, <4>3, NotifyPopSwapEffect DEF Goes
      <4>4. CASE Unpark(n) BY <4>4, UnparkEffect DEF Goes
      <4>5. CASE Wake(n) BY <4>5, WakeEffect
      <4> QED BY <1>n, <2>4, <4>1, <4>2, <4>3, <4>4, <4>5 DEF NotifierStep
    <3> QED BY <3>1 DEF Reads
  <2> QED BY <2>1, <2>2, <2>3, <2>4
<1> QED BY <1>u, <1>w, <1>m, <1>n DEF Next

----------------------------------------------------------------------------
(* The inductive invariant *)

LEMMA InitInv == Init => IInv
<1> SUFFICES ASSUME Init PROVE IInv OBVIOUS
<1> USE DEF Init
<1>0. NoWord \in Word /\ NoTop \in Top BY DEF NoWord, NoTop, Word, Top
<1>1. TypeOK BY <1>0 DEF TypeOK, WaiterPC, NotifierPC
<1>2. \A w \in Waiters : pc[w] = "out" /\ w \in Threads BY DEF Threads
<1>3. \A n \in Notifiers : pc[n] = "idle" BY Threads2
<1>4. CountersAgree
  <2>1. Prewaiting = {} BY <1>2 DEF Prewaiting
  <2> QED BY <2>1, FS_EmptySet DEF CountersAgree, NoWord
<1>5. Places BY <1>2, <1>3 DEF Places, WaiterPC, NotifierPC
<1>6. \A w \in Waiters : Committing(w) BY <1>2 DEF Committing
<1>7. Lists
  <2>1. Linked = {} BY <1>2 DEF Linked, Asleep
  <2>2. \A i \in Owners : Tops[i] = None BY <1>3 DEF Tops, Start, NoWord
  <2>3. Reach(Links, None) = {} /\ Ends(Links, None) BY ReachNone, EndsNone
  <2> QED BY <2>1, <2>2, <2>3 DEF Lists, Partition
<1>8. Epochs
  <2>1. Stacked = {} BY ReachNone DEF Stacked, NoWord
  <2> QED BY <2>1 DEF Epochs, NoWord
<1>9. \A n \in Notifiers : Reads(n) BY <1>3 DEF Reads
<1> QED BY <1>1, <1>4, <1>5, <1>6, <1>7, <1>8, <1>9 DEF IInv

LEMMA NextInv == IInv /\ [Next]_vars => IInv'
<1> SUFFICES ASSUME IInv, [Next]_vars PROVE IInv' OBVIOUS
<1>1. TypeOK' BY TypeStep
<1>2. CountersAgree' /\ Places' BY CountersStep, PlacesStep
<1>3. Lists' /\ Epochs' BY <1>1, StackStep, EpochsStep
<1>4. (\A w \in Waiters : Committing(w)') /\ \A n \in Notifiers : Reads(n)'
  BY <1>1, CommittingStep, ReadsStep
<1> QED BY <1>1, <1>2, <1>3, <1>4 DEF IInv

LEMMA InvConsistent == IInv => Consistent /\ SleeperHasOneWaker
<1> SUFFICES ASSUME IInv PROVE Consistent /\ SleeperHasOneWaker OBVIOUS
<1> USE DEF IInv
<1>1. /\ Stacked = Reach(Links, Tops[WordOwner]) /\ Tops[WordOwner] = state.stack
      /\ \A n \in Notifiers : /\ n \in Owners /\ n # WordOwner /\ Tops[n] = Start(n)
                              /\ TakenBy(n) = Reach(Links, Tops[n])
      /\ Links \in Linkings /\ WordOwner \in Owners BY ListTypes, WordOwnerNew
<1>2. /\ Ends(Links, state.stack) /\ Stacked \subseteq Linked
      /\ \A n \in Notifiers : TakenBy(n) \subseteq Linked /\ TakenBy(n) \cap Stacked = {}
      /\ \A n, m \in Notifiers : n # m => TakenBy(n) \cap TakenBy(m) = {}
      /\ \A w \in Linked : w \in Stacked \/ \E n \in Notifiers : w \in TakenBy(n)
  <2>1. /\ \A i \in Owners : Ends(Links, Tops[i]) /\ Reach(Links, Tops[i]) \subseteq Linked
        /\ \A i, j \in Owners : i # j => Reach(Links, Tops[i]) \cap Reach(Links, Tops[j]) = {}
        /\ \A w \in Linked : \E i \in Owners : w \in Reach(Links, Tops[i]) BY DEF Lists, Partition
  <2>2. \A i \in Owners : i = WordOwner \/ i \in Notifiers BY DEF Owners
  <2> QED BY <1>1, <2>1, <2>2
<1>3. StackOfSleepers
  <2>1. ASSUME NEW n \in Notifiers, pc[n] = "unpark" PROVE cur[n] \notin Stacked
    <3>1. cur[n] \in Waiters /\ Start(n) = cur[n] BY <2>1 DEF Places, Start
    <3>2. cur[n] \in TakenBy(n) BY <1>1, <3>1, ReachStep
    <3> QED BY <1>2, <3>2
  <2> QED BY <1>2, <2>1 DEF StackOfSleepers, Linked, Asleep
<1>4. SleeperHasOneWaker
  <2> SUFFICES ASSUME NEW w \in Waiters
               PROVE LET wakers == {n \in Notifiers : w \in TakenBy(n)} IN
                     /\ Cardinality(wakers) <= 1
                     /\ pc[w] \in {"park", "blocked"} =>
                           (w \in Stacked \/ wstate[w] = "signaled") <=> wakers = {}
                     /\ pc[w] = "blocked" /\ wstate[w] = "signaled" =>
                           \E n \in Notifiers : pc[n] = "wake" /\ cur[n] = w
    BY DEF SleeperHasOneWaker
  <2> DEFINE wakers == {n \in Notifiers : w \in TakenBy(n)}
  <2>1. Cardinality(wakers) <= 1
    <3>1. CASE wakers = {} BY <3>1, FS_EmptySet
    <3>2. CASE wakers # {}
      <4>1. PICK n \in Notifiers : n \in wakers BY <3>2
      <4>2. ASSUME NEW m \in wakers PROVE m = n
        <5>1. m \in Notifiers /\ w \in TakenBy(m) /\ w \in TakenBy(n) BY <4>1
        <5> QED BY <5>1, <1>2
      <4>3. wakers = {n} BY <4>1, <4>2
      <4>4. Cardinality({n}) = 1 BY FS_Singleton
      <4> HIDE DEF wakers
      <4> QED BY <4>3, <4>4
    <3> QED BY <3>1, <3>2
  <2>2. pc[w] \in {"park", "blocked"} => ((w \in Stacked \/ wstate[w] = "signaled") <=> wakers = {})
    BY <1>2 DEF Linked, Asleep
  <2>3. pc[w] = "blocked" /\ wstate[w] = "signaled" => \E n \in Notifiers : pc[n] = "wake" /\ cur[n] = w
    BY DEF Committing
  <2> QED BY <2>1, <2>2, <2>3
<1> QED BY <1>3, <1>4 DEF Consistent

\* V2: the word counts the announced waiters and bounds the signals, the stack is of
\* distinct sleepers, and a sleeper that is off it has one notifier that will wake it
\* (_commit_wait, _notify, _unpark).
THEOREM NonblockingConsistent == Spec => [](Consistent /\ SleeperHasOneWaker)
<1>1. Init => IInv BY InitInv
<1>2. IInv /\ [Next]_vars => IInv' BY NextInv
<1>3. IInv => Consistent /\ SleeperHasOneWaker BY InvConsistent
<1> QED BY <1>1, <1>2, <1>3, PTL DEF Spec

----------------------------------------------------------------------------
(* The event count that it implements *)

\* The event count has its own copy of the operator.
LEMMA CardinalitySame == ASSUME NEW S PROVE EC!Cardinality(S) = Cardinality(S)
  BY Zenon DEF EC!Cardinality, Cardinality

LEMMA PhaseFacts ==
    ASSUME IInv
    PROVE  /\ \A w \in Waiters :
                 Phases[w] = IF pc[w] \in Early THEN "prewait"
                             ELSE IF ~Asleep(w) THEN "out"
                             ELSE IF w \in Stacked THEN "parked" ELSE "woken"
           /\ EC!Announced = Prewaiting /\ EC!Parked = Stacked
           /\ state.waiters = EC!Cardinality(EC!Announced)
           /\ \A w \in Stacked : w \in Waiters /\ Asleep(w) /\ wstate[w] # "signaled"
<1>1. \A w \in Stacked : w \in Waiters /\ Asleep(w) /\ wstate[w] # "signaled"
  BY StackFacts DEF IInv, Linked
<1>2. ASSUME NEW w \in Waiters
      PROVE  Phases[w] = IF pc[w] \in Early THEN "prewait"
                         ELSE IF ~Asleep(w) THEN "out"
                         ELSE IF w \in Stacked THEN "parked" ELSE "woken"
  BY DEF Phases, PhaseOf, Prewaiting, Early, Asleep
<1>3. EC!Announced = Prewaiting BY <1>2 DEF EC!Announced, EC!In, Prewaiting, Early
<1>4. EC!Parked = Stacked BY <1>1, <1>2 DEF EC!Parked, EC!In, Early, Asleep
<1>5. state.waiters = EC!Cardinality(EC!Announced) BY <1>3, CardinalitySame DEF IInv, CountersAgree
<1> QED BY <1>1, <1>2, <1>3, <1>4, <1>5

\* The phase of one waiter changes, or that of none.
LEMMA PhaseMoves ==
    ASSUME NEW w \in Waiters, \A v \in Waiters \ {w} : pc'[v] = pc[v] /\ (v \in Stacked' <=> v \in Stacked)
    PROVE  Phases' = [Phases EXCEPT ![w] = Phases'[w]]
<1>1. \A v \in Waiters \ {w} : Phases'[v] = Phases[v] BY DEF Phases, PhaseOf, Prewaiting
<1> QED BY <1>1 DEF Phases

LEMMA PhaseStays ==
    ASSUME \A v \in Waiters : /\ pc'[v] \in Early <=> pc[v] \in Early
                              /\ Asleep(v)' = Asleep(v)
                              /\ v \in Stacked' <=> v \in Stacked
    PROVE  Phases' = Phases BY DEF Phases, PhaseOf, Prewaiting, Early, Asleep

LEMMA WaiterRefines ==
    ASSUME IInv, IInv', NEW w \in Waiters, PrepareWait(w) \/ WaiterStep(w) \/ SpuriousWakeup(w)
    PROVE  [EC!ECNext]_(EC!ecVars)
<1>t. /\ state \in Word /\ state.signals \in Nat
      /\ TypeOK /\ TypeOK' BY WordFacts DEF IInv, TypeOK
<1>1. \A v \in Waiters \ {w} : pc'[v] = pc[v] BY WaiterCounts
<1>2. /\ Phases[w] = (IF pc[w] \in Early THEN "prewait" ELSE IF ~Asleep(w) THEN "out"
                      ELSE IF w \in Stacked THEN "parked" ELSE "woken")
      /\ state.waiters = EC!Cardinality(EC!Announced)
      /\ w \in Stacked => Asleep(w) /\ wstate[w] # "signaled" BY PhaseFacts
<1>3. Phases'[w] = IF pc'[w] \in Early THEN "prewait" ELSE IF ~Asleep(w)' THEN "out"
                   ELSE IF w \in Stacked' THEN "parked" ELSE "woken"
  BY DEF Phases, PhaseOf, Prewaiting, Early, Asleep
<1>4. CASE CommitSwap(w) /\ state = seen[w] /\ state.signals = 0
  <2>1. /\ pc[w] = "push" /\ pc'[w] = "park"
        /\ state' = [state EXCEPT !.stack = w, !.epoch = epoch[w], !.waiters = @ - 1]
    BY <1>t, <1>4, CommitSwapEffect, Zenon DEF Goes
  <2>2. Stacked' = Stacked \cup {w} BY <1>t, <1>4, PushLists
  <2>3. Phases[w] = "prewait" /\ Phases'[w] = "parked" BY <2>1, <2>2, <1>2, <1>3 DEF Early, Asleep
  <2>4. Phases' = [Phases EXCEPT ![w] = "parked"] BY <2>2, <2>3, <1>1, PhaseMoves
  <2>5. state'.signals = state.signals BY <2>1, <1>t DEF Word
  <2>6. EC!CommitWait(w) BY <1>4, <2>3, <2>4, <2>5 DEF EC!CommitWait
  <2> QED BY <2>6 DEF EC!ECNext
<1>5. CASE ~(CommitSwap(w) /\ state = seen[w] /\ state.signals = 0)
  <2>1. Stacked' = Stacked BY <1>5, <1>t, WaiterLists DEF ListsKept
  <2>2. Phases' = [Phases EXCEPT ![w] = Phases'[w]] BY <2>1, <1>1, PhaseMoves
  <2>3. ASSUME pc'[w] \in Early <=> pc[w] \in Early, Asleep(w)' = Asleep(w) PROVE Phases' = Phases
    BY <2>3, <2>1, <1>1, PhaseStays DEF Asleep
  <2>4. CASE PrepareWait(w)
    <3>1. Phases[w] = "out" /\ Phases'[w] = "prewait"
      BY <1>t, <2>4, <1>2, <1>3, PrepareWaitEffect DEF Goes, Early, Asleep
    <3>2. state'.signals = state.signals BY <1>t, <2>4, PrepareWaitEffect DEF Word
    <3>3. EC!PrepareWait(w) BY <3>1, <3>2, <2>2 DEF EC!PrepareWait
    <3> QED BY <3>3 DEF EC!ECNext
  <2>5. CASE CommitSwap(w) /\ state = seen[w]
    <3>1. /\ pc[w] = "push" /\ pc'[w] = "out" /\ state.signals > 0
          /\ state' = [state EXCEPT !.waiters = @ - 1, !.signals = @ - 1]
      <4>1. state.signals # 0 BY <2>5, <1>5
      <4>2. TypeOK BY <1>t
      <4>3. /\ pc[w] = "push" /\ Goes(w, "out") /\ state.signals > 0
            /\ state' = [state EXCEPT !.waiters = @ - 1, !.signals = @ - 1]
        BY ONLY w \in Waiters, <2>5, <4>1, <4>2, CommitSwapEffect, Zenon
      <4> QED BY <4>3 DEF Goes
    <3>2. Phases[w] = "prewait" /\ Phases'[w] = "out" BY <3>1, <1>2, <1>3 DEF Early, Asleep
    <3>3. state'.signals = state.signals - 1 BY <3>1, <1>t DEF Word
    <3>4. EC!CommitWait(w) BY <3>1, <3>2, <3>3, <2>2 DEF EC!CommitWait
    <3> QED BY <3>4 DEF EC!ECNext
  <2>6. CASE CancelSwap(w) /\ state = seen[w]
    <3>1. /\ pc[w] = "cancel" /\ pc'[w] = "out"
          /\ state' = [state EXCEPT !.waiters = @ - 1, !.signals = IF state.waiters = @ THEN @ - 1 ELSE @]
      BY <1>t, <2>6, CancelSwapEffect DEF Goes
    <3>2. Phases[w] = "prewait" /\ Phases'[w] = "out" BY <3>1, <1>2, <1>3 DEF Early, Asleep
    <3>3. state'.signals = IF state.signals = state.waiters THEN state.signals - 1 ELSE state.signals
      BY <3>1, <1>t DEF Word
    <3>4. EC!CancelWait(w) BY <1>2, <3>2, <3>3, <2>2 DEF EC!CancelWait
    <3> QED BY <3>4 DEF EC!ECNext
  <2>7. CASE Park(w) /\ wstate[w] = "signaled"
    <3>1. pc[w] = "park" /\ pc'[w] = "out" /\ state' = state BY <1>t, <2>7, ParkEffect DEF Goes
    <3>2. Phases[w] = "woken" /\ Phases'[w] = "out" BY <2>7, <3>1, <1>2, <1>3 DEF Early, Asleep
    <3>3. EC!Resume(w) BY <3>1, <3>2, <2>2 DEF EC!Resume
    <3> QED BY <3>3 DEF EC!ECNext
  <2>8. CASE /\ ~PrepareWait(w) /\ ~(CommitSwap(w) /\ state = seen[w])
             /\ ~(CancelSwap(w) /\ state = seen[w]) /\ ~(Park(w) /\ wstate[w] = "signaled")
    <3>1. state' = state BY <1>t, <2>8, CommitBeginEffect, CancelBeginEffect, CommitLinkEffect,
         CommitSwapEffect, ParkEffect, CancelSwapEffect, SpuriousEffect DEF WaiterStep
    <3>2. (pc'[w] \in Early <=> pc[w] \in Early) /\ Asleep(w)' = Asleep(w)
      <4>1. CASE CommitBegin(w) BY <1>t, <4>1, CommitBeginEffect DEF Goes, Early, Asleep
      <4>2. CASE CancelBegin(w) BY <1>t, <4>2, CancelBeginEffect DEF Goes, Early, Asleep
      <4>3. CASE CommitLink(w) BY <1>t, <4>3, CommitLinkEffect DEF Goes, Early, Asleep
      <4>4. CASE CommitSwap(w)
        <5>1. state # seen[w] BY <2>8, <4>4
        <5>2. pc[w] = "push" /\ Goes(w, "commit") BY <1>t, <4>4, <5>1, CommitSwapEffect, Zenon
        <5> QED BY <5>2 DEF Goes, Early, Asleep
      <4>5. CASE CancelSwap(w) BY <1>t, <2>8, <4>5, CancelSwapEffect DEF Goes, Early, Asleep
      <4>6. CASE Park(w) BY <1>t, <2>8, <4>6, ParkEffect DEF Goes, Early, Asleep
      <4>7. CASE SpuriousWakeup(w) BY <1>t, <4>7, SpuriousEffect DEF Goes, Early, Asleep
      <4> QED BY <2>8, <4>1, <4>2, <4>3, <4>4, <4>5, <4>6, <4>7 DEF WaiterStep
    <3> QED BY <3>1, <3>2, <2>3 DEF EC!ecVars
  <2> QED BY <2>4, <2>5, <2>6, <2>7, <2>8
<1> QED BY <1>4, <1>5

LEMMA NotifierRefines ==
    ASSUME IInv, IInv', NEW n \in Notifiers, NotifyBegin(n) \/ NotifierStep(n)
    PROVE  [EC!ECNext]_(EC!ecVars)
<1>t. /\ state \in Word /\ state.signals \in Nat /\ state.waiters \in Nat
      /\ TypeOK /\ TypeOK' /\ Places BY WordFacts DEF IInv, TypeOK
<1>c. /\ state.signals <= state.waiters
      /\ state.waiters = EC!Cardinality(EC!Announced) /\ EC!Parked = Stacked
  BY PhaseFacts DEF IInv, CountersAgree
<1>1. CASE NotifyAllSwap(n) /\ state = seen[n]
  <2>1. Stacked' = {} /\ \A v \in Waiters : pc'[v] = pc[v] BY <1>1, <1>t, AllLists
  <2>2. state' = [stack |-> None, epoch |-> 0, waiters |-> state.waiters, signals |-> state.waiters]
    BY <1>1, <1>t, NotifyAllSwapEffect DEF Retry
  <2>3. Phases' = [w \in Waiters |-> IF Phases[w] = "parked" THEN "woken" ELSE Phases[w]]
    BY <2>1 DEF Phases, PhaseOf, Prewaiting
  <2>4. EC!NotifyAll BY <1>c, <2>2, <2>3 DEF EC!NotifyAll
  <2> QED BY <2>4 DEF EC!ECNext
<1>2. CASE NotifyPopSwap(n) /\ state = seen[n]
  <2>1. /\ state.stack \in Stacked /\ Stacked' = Stacked \ {state.stack}
        /\ \A v \in Waiters : pc'[v] = pc[v] BY <1>2, <1>t, PopLists
  <2>2. /\ state' = [state EXCEPT !.stack = below[n].stack, !.epoch = below[n].epoch]
        /\ state.signals >= state.waiters BY <1>2, <1>t, NotifyPopSwapEffect DEF Retry
  <2>3. PICK w \in Waiters : w = state.stack BY <2>1, PhaseFacts
  <2>4. Phases' = [Phases EXCEPT ![w] = Phases'[w]] BY <2>1, <2>3, PhaseMoves
  <2>5. Phases'[w] = "woken"
    <3>1. Asleep(w) BY <2>1, <2>3, PhaseFacts
    <3> QED BY <2>1, <2>3, <3>1 DEF Phases, PhaseOf, Prewaiting, Asleep
  <2>6. state'.signals = state.signals /\ state.signals = EC!Cardinality(EC!Announced)
    BY <2>2, <1>t, <1>c DEF Word
  <2>7. w \in EC!Parked BY <2>1, <2>3, <1>c
  <2>8. EC!NotifyOne BY <2>4, <2>5, <2>6, <2>7 DEF EC!NotifyOne
  <2> QED BY <2>8 DEF EC!ECNext
<1>3. CASE ~(NotifyAllSwap(n) /\ state = seen[n]) /\ ~(NotifyPopSwap(n) /\ state = seen[n])
  <2>1. Stacked' = Stacked
    <3>1. CASE Unpark(n) BY <3>1, <1>t, UnparkLists
    <3>2. CASE Wake(n) BY <3>2, <1>t, WakeLists DEF ListsKept
    <3>3. CASE ~Unpark(n) /\ ~Wake(n) BY <3>3, <1>t, <1>3, NotifierLists DEF ListsKept, NotifierStep
    <3> QED BY <3>1, <3>2, <3>3
  <2>2. Phases' = Phases
    <3>1. CASE Wake(n)
      <4>1. PICK w \in Waiters : w = cur[n] BY <3>1, <1>t, WakeEffect
      <4>2. /\ pc'[w] = (IF pc[w] = "blocked" THEN "park" ELSE pc[w])
            /\ \A v \in Waiters \ {w} : pc'[v] = pc[v] BY <3>1, <4>1, <1>t, WakeEffect, Threads2
      <4>3. \A v \in Waiters : (pc'[v] \in Early <=> pc[v] \in Early) /\ Asleep(v)' = Asleep(v)
        BY <4>2 DEF Early, Asleep
      <4> QED BY <4>3, <2>1, PhaseStays
    <3>2. CASE ~Wake(n)
      <4>1. \A v \in Waiters : pc'[v] = pc[v] BY <3>2, NotifierFrame
      <4> QED BY <4>1, <2>1, PhaseStays DEF Asleep
    <3> QED BY <3>1, <3>2
  <2>3. CASE NotifySignalSwap(n) /\ state = seen[n]
    <3>1. state.signals < state.waiters /\ state' = [state EXCEPT !.signals = @ + 1]
      BY <1>t, <2>3, NotifySignalSwapEffect DEF Retry
    <3>2. state'.signals = state.signals + 1 BY <3>1, <1>t DEF Word
    <3>3. EC!NotifyOne BY <1>c, <2>2, <3>1, <3>2 DEF EC!NotifyOne
    <3> QED BY <3>3 DEF EC!ECNext
  <2>4. CASE ~(NotifySignalSwap(n) /\ state = seen[n])
    <3>1. state' = state
      BY <1>t, <1>3, <2>4, NotifyBeginEffect, NotifyReadNextEffect, NotifyAllSwapEffect,
         NotifySignalSwapEffect, NotifyPopSwapEffect, UnparkEffect, WakeEffect DEF NotifierStep, Retry
    <3> QED BY <3>1, <2>2 DEF EC!ecVars
  <2> QED BY <2>3, <2>4
<1> QED BY <1>1, <1>2, <1>3

LEMMA StepRefines == IInv /\ IInv' /\ [Next]_vars => [EC!ECNext]_(EC!ecVars)
<1> SUFFICES ASSUME IInv, IInv', [Next]_vars PROVE [EC!ECNext]_(EC!ecVars) OBVIOUS
<1>1. CASE UNCHANGED vars BY <1>1 DEF vars, EC!ecVars, Phases, PhaseOf, Prewaiting, Stacked, Links
<1> QED BY <1>1, WaiterRefines, NotifierRefines DEF Next

LEMMA InitRefines == Init => EC!ECInit
<1> SUFFICES ASSUME Init PROVE EC!ECInit OBVIOUS
<1>1. \A w \in Waiters : pc[w] = "out" BY DEF Init, Threads
<1>2. Phases = [w \in Waiters |-> "out"] BY <1>1 DEF Phases, PhaseOf, Prewaiting
<1> QED BY <1>2 DEF Init, NoWord, EC!ECInit

\* V2: prepare_wait, commit_wait, cancel_wait and notify each take effect in one step
\* of the atomic event count that the scheduler is modelled with.
THEOREM NonblockingImplements == Spec => ImplementsEventCount
<1>1. Init => IInv /\ EC!ECInit BY InitInv, InitRefines
<1>2. IInv /\ [Next]_vars => IInv' BY NextInv
<1>3. IInv /\ IInv' /\ [Next]_vars => [EC!ECNext]_(EC!ecVars) BY StepRefines
<1> QED BY <1>1, <1>2, <1>3, PTL DEF Spec, ImplementsEventCount, EC!ECSpec

----------------------------------------------------------------------------
(* Epochs *)

LEMMA Sizes ==
    /\ EpochSize \in Nat /\ MaxWaits \in Nat /\ 2 * MaxWaits < EpochSize /\ EpochSize > 0
    /\ V1!Start = EpochSize - 1 /\ V1!Epochs = 0 .. EpochSize - 1
  BY TicketAssumption DEF V1!NotifierAssumption, V1!Start, V1!Epochs

\* The remainder of a number less than one round away.
LEMMA Wrap ==
    ASSUME NEW x \in Int
    PROVE  /\ 0 <= x /\ x < EpochSize => x % EpochSize = x
           /\ EpochSize <= x /\ x < 2 * EpochSize => x % EpochSize = x - EpochSize
           /\ -EpochSize <= x /\ x < 0 => x % EpochSize = x + EpochSize
<1> DEFINE q == x \div EpochSize  r == x % EpochSize
<1>1. x = EpochSize * q + r /\ q \in Int /\ r \in 0 .. EpochSize - 1 BY Sizes, SMT
<1> HIDE DEF q, r
<1>2. q >= 2 => EpochSize * q >= 2 * EpochSize BY <1>1, Sizes, SMT
<1>3. q <= -2 => EpochSize * q <= -2 * EpochSize BY <1>1, Sizes, SMT
<1>4. /\ q = 1 => EpochSize * q = EpochSize
      /\ q = 0 => EpochSize * q = 0
      /\ q = -1 => EpochSize * q = -EpochSize BY <1>1, Sizes, SMT
<1>5. q >= 2 \/ q = 1 \/ q = 0 \/ q = -1 \/ q <= -2 BY <1>1
<1>6. EpochSize * q \in Int BY <1>1, Sizes
<1>7. PICK y \in Int : y = EpochSize * q BY <1>6
<1>8. /\ 0 <= x /\ x < EpochSize => r = x
      /\ EpochSize <= x /\ x < 2 * EpochSize => r = x - EpochSize
      /\ -EpochSize <= x /\ x < 0 => r = x + EpochSize BY <1>1, <1>2, <1>3, <1>4, <1>5, <1>7, Sizes
<1> QED BY <1>8 DEF r

\* How many waiters had been decided about at an epoch: it wraps around at the start.
Num(e) == IF e = EpochSize - 1 THEN 0 ELSE e + 1

LEMMA NumType ==
    ASSUME NEW e \in V1!Epochs
    PROVE  Num(e) \in Nat /\ Num(e) < EpochSize /\ e \in 0 .. EpochSize - 1 BY Sizes DEF Num

LEMMA NumSame ==
    ASSUME NEW e \in V1!Epochs, NEW f \in V1!Epochs, Num(e) = Num(f)
    PROVE  e = f BY Sizes DEF Num

LEMMA NumAdvance ==
    ASSUME NEW e \in V1!Epochs, NEW k \in Nat, Num(e) + k <= MaxWaits
    PROVE  V1!Advance(e, k) \in V1!Epochs /\ Num(V1!Advance(e, k)) = Num(e) + k
<1>1. e \in 0 .. EpochSize - 1 /\ e + k \in Int BY Sizes
<1>2. /\ e + k < EpochSize => V1!Advance(e, k) = e + k
      /\ EpochSize <= e + k => V1!Advance(e, k) = e + k - EpochSize
  <2>1. e + k < 2 * EpochSize BY <1>1, Sizes DEF Num
  <2>2. PICK x \in Int : x = e + k BY <1>1
  <2>3. V1!Advance(e, k) = x % EpochSize BY <2>2 DEF V1!Advance
  <2>4. 0 <= x /\ x < 2 * EpochSize BY <1>1, <2>1, <2>2, Sizes
  <2>5. /\ x < EpochSize => x % EpochSize = x
        /\ EpochSize <= x => x % EpochSize = x - EpochSize BY <2>4, Wrap
  <2> QED BY <1>1, <2>2, <2>3, <2>5, Sizes
<1>3. CASE e = EpochSize - 1 BY <1>1, <1>2, <1>3, Sizes DEF Num
<1>4. CASE e # EpochSize - 1 BY <1>1, <1>2, <1>4, Sizes DEF Num
<1> QED BY <1>3, <1>4

\* The guard of prepare_wait: fewer waits than the bound so far.
LEMMA NumGuard ==
    ASSUME NEW e \in V1!Epochs, NEW k \in Nat, Num(e) + k <= MaxWaits
    PROVE  V1!Advance(e, k - V1!Start) = Num(e) + k
<1>1. e \in 0 .. EpochSize - 1 /\ e + (k - (EpochSize - 1)) \in Int BY Sizes
<1>2. CASE e = EpochSize - 1
  <2>1. e + (k - (EpochSize - 1)) = k /\ k < EpochSize BY <1>1, <1>2, Sizes DEF Num
  <2> QED BY <1>1, <1>2, <2>1, Wrap, Sizes DEF V1!Advance, Num
<1>3. CASE e # EpochSize - 1
  <2>1. -EpochSize <= e + (k - (EpochSize - 1)) /\ e + (k - (EpochSize - 1)) < 0
    BY <1>1, <1>3, Sizes DEF Num
  <2>2. (e + (k - (EpochSize - 1))) % EpochSize = e + (k - (EpochSize - 1)) + EpochSize BY <1>1, <2>1, Wrap
  <2> QED BY <1>1, <1>3, <2>2, Sizes DEF V1!Advance, Num
<1> QED BY <1>2, <1>3

\* Differences of epochs are those of the numbers.
LEMMA NumDiff ==
    ASSUME NEW e \in V1!Epochs, NEW f \in V1!Epochs, Num(e) <= MaxWaits, Num(f) <= MaxWaits
    PROVE  (e - f) % EpochSize = IF Num(f) <= Num(e) THEN Num(e) - Num(f)
                                 ELSE Num(e) - Num(f) + EpochSize
<1>1. e \in 0 .. EpochSize - 1 /\ f \in 0 .. EpochSize - 1 /\ e - f \in Int BY Sizes
<1>2. /\ 0 <= e - f /\ e - f < EpochSize => (e - f) % EpochSize = e - f
      /\ -EpochSize <= e - f /\ e - f < 0 => (e - f) % EpochSize = e - f + EpochSize BY <1>1, Wrap
<1> QED BY <1>1, <1>2, Sizes DEF Num

LEMMA DistanceIs ==
    ASSUME NEW w, seen[w].epoch \in V1!Epochs, epoch[w] \in V1!Epochs,
           Num(seen[w].epoch) <= MaxWaits, Num(epoch[w]) <= MaxWaits
    PROVE  V1!Distance(w) = Num(seen[w].epoch) - Num(epoch[w])
<1> DEFINE d == (seen[w].epoch - epoch[w]) % EpochSize
<1>1. d = IF Num(epoch[w]) <= Num(seen[w].epoch) THEN Num(seen[w].epoch) - Num(epoch[w])
          ELSE Num(seen[w].epoch) - Num(epoch[w]) + EpochSize BY NumDiff
<1>2. V1!Distance(w) = IF 2 * d < EpochSize THEN d ELSE d - EpochSize BY DEF V1!Distance
<1>3. Num(seen[w].epoch) \in Nat /\ Num(epoch[w]) \in Nat BY NumType
<1> HIDE DEF d
<1> QED BY <1>1, <1>2, <1>3, Sizes

----------------------------------------------------------------------------
(* The inductive invariant of the tickets *)

Start1(n) == IF pc[n] = "unpark" THEN cur[n] ELSE IF pc[n] = "wake" THEN below[n] ELSE None
Tops1 == [i \in Owners |-> IF i \in Notifiers THEN Start1(i) ELSE state.stack]
Lists1 == Partition(next, Owners, Tops1, Linked)

\* How many waiters something was decided about, and a waiter's place among all.
Served == Num(state.epoch)
Ticket(w) == Num(epoch[w])

WaiterPC1 == {"out", "recheck", "commit", "cancel", "push", "park", "blocked"}
NotifierPC1 == {"idle", "next", "swap", "unpark", "wake"}
Deciding == {"commit", "cancel", "push", "next", "swap"}

Places1 ==
    /\ \A w \in Waiters : pc[w] \in WaiterPC1
    /\ \A n \in Notifiers : pc[n] \in NotifierPC1
    /\ \A n \in Notifiers : pc[n] \in {"unpark", "wake"} => cur[n] \in Waiters
    /\ \A n \in Notifiers : pc[n] = "next" => V1!Pops(n)
    /\ \A n \in Notifiers : pc[n] \in {"next", "swap"} /\ V1!Pops(n) => seen[n].stack \in Waiters

\* The announced waiters have tickets below the next one, those in the line all
\* the tickets from the epoch on, and each its own.
Tickets ==
    /\ Served + state.waiters <= MaxWaits
    /\ \A w \in V1!Announced : Ticket(w) < Served + state.waiters
    /\ \A v, w \in V1!Announced : Served <= Ticket(w) /\ Ticket(v) = Ticket(w) => v = w
    /\ \A i \in Nat : Served <= i /\ i < Served + state.waiters => \E w \in V1!Announced : Ticket(w) = i
    /\ Cardinality(V1!Unserved) = state.waiters

\* No copy of the word is ahead of it.
Copies == \A t \in V1!Threads : pc[t] \in Deciding => Num(seen[t].epoch) <= Served

Committing1(w) ==
    /\ pc[w] \in {"commit", "push"} => wstate[w] = "notsignaled"
    /\ pc[w] = "push" => next[w] = seen[w].stack /\ seen[w].epoch = epoch[w]
    /\ pc[w] = "blocked" => wstate[w] # "notsignaled"
    /\ pc[w] = "blocked" /\ wstate[w] = "signaled"
         => \E n \in Notifiers : pc[n] = "wake" /\ cur[n] = w

\* What a notifier has read below the top is still there while nobody is decided about.
Reads1(n) ==
    pc[n] = "swap" /\ V1!Pops(n) /\ seen[n].stack \in V1!Stacked /\ seen[n].epoch = state.epoch
    => below[n] = next[seen[n].stack]

IInv1 == /\ V1!TypeOK /\ Places1 /\ Tickets /\ Copies
         /\ \A w \in Waiters : Committing1(w)
         /\ Lists1
         /\ \A n \in Notifiers : Reads1(n)

----------------------------------------------------------------------------
(* What the actions of the first version do *)

Threads1 == V1!Threads
Word1 == V1!Word
PCs1 == WaiterPC1 \cup NotifierPC1

LEMMA Threads1Facts ==
    /\ \A w \in Waiters : w \in Threads1 /\ w \notin Notifiers /\ w # None
    /\ \A n \in Notifiers : n \in Threads1 /\ n \notin Waiters
    /\ \A t \in Threads1 : t \in Waiters \/ t \in Notifiers
  BY NotifierAssumption DEF NotifierAssumption, Threads1, V1!Threads

LEMMA WaiterCount == IsFiniteSet(Waiters) /\ Cardinality(Waiters) \in Nat
  BY NotifierAssumption, FS_CardinalityType DEF NotifierAssumption

LEMMA CardinalitySame1 == ASSUME NEW S PROVE V1!Cardinality(S) = Cardinality(S)
  BY Zenon DEF V1!Cardinality, Cardinality

LEMMA Types1 ==
    ASSUME V1!TypeOK
    PROVE  /\ state \in Word1 /\ next \in Linkings /\ epoch \in [Waiters -> V1!Epochs]
           /\ wstate \in [Waiters -> {"notsignaled", "waiting", "signaled"}]
           /\ pc \in [Threads1 -> PCs1] /\ seen \in [Threads1 -> Word1]
           /\ below \in [Notifiers -> Waiters \cup {None}] /\ all \in [Notifiers -> BOOLEAN]
           /\ cur \in [Notifiers -> Waiters \cup {None}]
  BY DEF V1!TypeOK, Linkings, PCs1, WaiterPC1, NotifierPC1, Word1, Threads1

LEMMA WordType1 ==
    Word1 = [stack : Waiters \cup {None}, waiters : 0 .. Cardinality(Waiters), epoch : V1!Epochs]
  BY CardinalitySame1 DEF Word1, V1!Word

LEMMA WordFacts1 ==
    ASSUME NEW s \in Word1
    PROVE  /\ s.stack \in Waiters \cup {None} /\ s.epoch \in V1!Epochs
           /\ s.waiters \in Nat /\ s.waiters <= Cardinality(Waiters)
           /\ Num(s.epoch) \in Nat
<1>1. s.stack \in Waiters \cup {None} /\ s.epoch \in V1!Epochs /\ s.waiters \in 0 .. Cardinality(Waiters)
  BY WordType1
<1> QED BY <1>1, WaiterCount, NumType

Goes1(t, l) == pc'[t] = l /\ (\A u \in Threads1 \ {t} : pc'[u] = pc[u]) /\ pc' \in [Threads1 -> PCs1]
Sees1(t, s) == seen'[t] = s /\ (\A u \in Threads1 \ {t} : seen'[u] = seen[u]) /\ seen' \in [Threads1 -> Word1]

LEMMA PlacesExist1 ==
    /\ {"out", "recheck", "commit", "cancel", "push", "park", "blocked"} \subseteq PCs1
    /\ {"idle", "next", "swap", "unpark", "wake"} \subseteq PCs1
    /\ V1!NoWord \in Word1
<1>1. 0 \in V1!Epochs BY Sizes
<1> QED BY <1>1, WordType1, WaiterCount DEF PCs1, WaiterPC1, NotifierPC1, V1!NoWord

LEMMA GotoGoes1 ==
    ASSUME V1!TypeOK, NEW t \in Threads1, NEW l \in PCs1, V1!Goto(t, l)
    PROVE  Goes1(t, l) BY Types1 DEF V1!Goto, Goes1

LEMMA ForgetSees1 ==
    ASSUME V1!TypeOK, NEW t \in Threads1, NEW s \in Word1, seen' = [seen EXCEPT ![t] = s]
    PROVE  Sees1(t, s) BY Types1 DEF Sees1

LEMMA LoadSees1 ==
    ASSUME V1!TypeOK, NEW t \in Threads1, NEW l \in PCs1, V1!Load(t, l)
    PROVE  Goes1(t, l) /\ Sees1(t, state) BY Types1, GotoGoes1, ForgetSees1 DEF V1!Load

LEMMA SwapEffect1 ==
    ASSUME V1!TypeOK, NEW t \in Threads1, NEW new, NEW l \in PCs1, NEW k \in PCs1, V1!Swap(t, new, l, k)
    PROVE  \/ state = seen[t] /\ state' = new /\ Goes1(t, l) /\ Sees1(t, V1!NoWord)
           \/ state # seen[t] /\ state' = state /\ Goes1(t, k) /\ Sees1(t, state)
  BY PlacesExist1, GotoGoes1, LoadSees1, ForgetSees1 DEF V1!Swap

BranchTo1(a) ==
    IF V1!NobodyWaits THEN "idle" ELSE IF a \/ state.waiters > 0 THEN "swap" ELSE "next"

LEMMA BranchEffect1 ==
    ASSUME V1!TypeOK, NEW n \in Notifiers, NEW a \in BOOLEAN, V1!Branch(n, a)
    PROVE  /\ Goes1(n, BranchTo1(a))
           /\ Sees1(n, IF V1!NobodyWaits THEN V1!NoWord ELSE state)
<1>1. n \in Threads1 BY Threads1Facts
<1>2. CASE V1!NobodyWaits
  <2>1. V1!Goto(n, "idle") /\ seen' = [seen EXCEPT ![n] = V1!NoWord] BY <1>2 DEF V1!Branch
  <2>2. Goes1(n, "idle") BY <1>1, <2>1, PlacesExist1, GotoGoes1
  <2>3. Sees1(n, V1!NoWord) BY <1>1, <2>1, PlacesExist1, ForgetSees1
  <2> QED BY <1>2, <2>2, <2>3 DEF BranchTo1
<1>3. CASE ~V1!NobodyWaits
  <2>1. V1!Load(n, IF a \/ state.waiters > 0 THEN "swap" ELSE "next") BY <1>3 DEF V1!Branch
  <2>2. BranchTo1(a) = (IF a \/ state.waiters > 0 THEN "swap" ELSE "next") BY <1>3 DEF BranchTo1
  <2>3. BranchTo1(a) \in PCs1 BY PlacesExist1, <2>2
  <2> QED BY <1>1, <1>3, <2>1, <2>2, <2>3, LoadSees1
<1> QED BY <1>2, <1>3

\* What stays but for the word, the copies and the places.
Kept1 == UNCHANGED <<below, all, cur>>

LEMMA PrepareWaitEffect1 ==
    ASSUME V1!TypeOK, NEW w \in Waiters, V1!PrepareWait(w)
    PROVE  /\ pc[w] = "out" /\ Goes1(w, "recheck")
           /\ V1!Advance(state.epoch, state.waiters - V1!Start) < MaxWaits
           /\ At1(epoch', epoch, w, V1!Advance(state.epoch, state.waiters))
           /\ epoch' = [epoch EXCEPT ![w] = V1!Advance(state.epoch, state.waiters)]
           /\ state' = [state EXCEPT !.waiters = @ + 1]
           /\ UNCHANGED <<next, wstate, seen>> /\ Kept1
<1>1. Goes1(w, "recheck") BY Threads1Facts, PlacesExist1, GotoGoes1 DEF V1!PrepareWait
<1> QED BY <1>1, Types1 DEF V1!PrepareWait, At1, Kept1

LEMMA CommitBeginEffect1 ==
    ASSUME V1!TypeOK, NEW w \in Waiters, V1!CommitBegin(w)
    PROVE  /\ pc[w] = "recheck" /\ Goes1(w, "commit") /\ Sees1(w, state)
           /\ At1(wstate', wstate, w, "notsignaled")
           /\ wstate' \in [Waiters -> {"notsignaled", "waiting", "signaled"}]
           /\ UNCHANGED <<state, next, epoch>> /\ Kept1
<1>1. Goes1(w, "commit") /\ Sees1(w, state) BY Threads1Facts, PlacesExist1, LoadSees1 DEF V1!CommitBegin
<1> QED BY <1>1, Types1 DEF V1!CommitBegin, At1, Kept1

LEMMA CancelBeginEffect1 ==
    ASSUME V1!TypeOK, NEW w \in Waiters, V1!CancelBegin(w)
    PROVE  /\ pc[w] = "recheck" /\ Goes1(w, "cancel") /\ Sees1(w, state)
           /\ UNCHANGED <<state, next, epoch, wstate>> /\ Kept1
  BY Threads1Facts, PlacesExist1, LoadSees1 DEF V1!CancelBegin, Kept1

LEMMA SpinEffect1 ==
    ASSUME V1!TypeOK, NEW w \in Waiters, V1!Spin(w)
    PROVE  /\ pc[w] \in {"commit", "cancel"}
           /\ UNCHANGED <<state, epoch, wstate>> /\ Kept1
           /\ \/ /\ V1!Distance(w) < 0 /\ Goes1(w, pc[w]) /\ Sees1(w, state) /\ next' = next
              \/ /\ V1!Distance(w) > 0 /\ Goes1(w, "out") /\ Sees1(w, V1!NoWord) /\ next' = next
              \/ /\ V1!Distance(w) = 0 /\ pc[w] = "commit" /\ Goes1(w, "push") /\ seen' = seen
                 /\ At1(next', next, w, seen[w].stack) /\ next' \in Linkings
<1>1. w \in Threads1 /\ pc[w] \in PCs1 /\ seen[w].stack \in Waiters \cup {None}
  BY Threads1Facts, Types1, WordFacts1
<1>2. /\ pc[w] \in {"commit", "cancel"} /\ V1!Turn(w)
      /\ UNCHANGED <<state, epoch, wstate>> /\ Kept1 BY DEF V1!Spin, Kept1
<1>3. CASE V1!Distance(w) < 0 /\ V1!Load(w, pc[w]) /\ UNCHANGED next BY <1>1, <1>2, <1>3, LoadSees1
<1>4. CASE /\ V1!Distance(w) > 0 /\ V1!Goto(w, "out")
           /\ seen' = [seen EXCEPT ![w] = V1!NoWord] /\ UNCHANGED next
  <2>1. Goes1(w, "out") /\ Sees1(w, V1!NoWord) BY <1>1, <1>4, PlacesExist1, GotoGoes1, ForgetSees1
  <2> QED BY <1>2, <1>4, <2>1
<1>5. CASE /\ V1!Distance(w) = 0 /\ pc[w] = "commit" /\ next' = [next EXCEPT ![w] = seen[w].stack]
           /\ V1!Goto(w, "push") /\ UNCHANGED seen
  <2>1. Goes1(w, "push") BY <1>1, <1>5, PlacesExist1, GotoGoes1
  <2>2. At1(next', next, w, seen[w].stack) /\ next' \in Linkings
    BY <1>1, <1>5, Types1 DEF At1, Linkings
  <2> QED BY <1>2, <1>5, <2>1, <2>2
<1> QED BY <1>2, <1>3, <1>4, <1>5 DEF V1!Turn

LEMMA CommitSwapEffect1 ==
    ASSUME V1!TypeOK, NEW w \in Waiters, V1!CommitSwap(w)
    PROVE  /\ pc[w] = "push"
           /\ UNCHANGED <<next, epoch, wstate>> /\ Kept1
           /\ \/ state # seen[w] /\ Goes1(w, "commit") /\ Sees1(w, state) /\ state' = state
              \/ /\ state = seen[w] /\ Goes1(w, "park") /\ Sees1(w, V1!NoWord)
                 /\ state' = [state EXCEPT !.waiters = @ - 1, !.epoch = V1!Advance(@, 1), !.stack = w]
<1>1. w \in Threads1 BY Threads1Facts
<1>2. V1!Decided(w) = [seen[w] EXCEPT !.waiters = @ - 1, !.epoch = V1!Advance(@, 1)] BY DEF V1!Decided
<1> DEFINE new == [V1!Decided(w) EXCEPT !.stack = w]
<1>3. /\ pc[w] = "push" /\ V1!Swap(w, new, "park", "commit")
      /\ UNCHANGED <<next, epoch, wstate>> /\ Kept1 BY DEF V1!CommitSwap, Kept1
<1>4. \/ state = seen[w] /\ state' = new /\ Goes1(w, "park") /\ Sees1(w, V1!NoWord)
      \/ state # seen[w] /\ state' = state /\ Goes1(w, "commit") /\ Sees1(w, state)
  <2> HIDE DEF new
  <2> QED BY <1>1, <1>3, PlacesExist1, SwapEffect1
<1>5. new = [seen[w] EXCEPT !.waiters = @ - 1, !.epoch = V1!Advance(@, 1), !.stack = w] BY <1>2
<1> QED BY <1>3, <1>4, <1>5

LEMMA CancelSwapEffect1 ==
    ASSUME V1!TypeOK, NEW w \in Waiters, V1!CancelSwap(w)
    PROVE  /\ pc[w] = "cancel" /\ V1!Distance(w) = 0
           /\ UNCHANGED <<next, epoch, wstate>> /\ Kept1
           /\ \/ state # seen[w] /\ Goes1(w, "cancel") /\ Sees1(w, state) /\ state' = state
              \/ /\ state = seen[w] /\ Goes1(w, "out") /\ Sees1(w, V1!NoWord)
                 /\ state' = [state EXCEPT !.waiters = @ - 1, !.epoch = V1!Advance(@, 1)]
<1>1. w \in Threads1 BY Threads1Facts
<1>2. V1!Decided(w) = [seen[w] EXCEPT !.waiters = @ - 1, !.epoch = V1!Advance(@, 1)] BY DEF V1!Decided
<1>3. /\ pc[w] = "cancel" /\ V1!Distance(w) = 0 /\ V1!Swap(w, V1!Decided(w), "out", "cancel")
      /\ UNCHANGED <<next, epoch, wstate>> /\ Kept1 BY DEF V1!CancelSwap, Kept1
<1>4. \/ state = seen[w] /\ state' = V1!Decided(w) /\ Goes1(w, "out") /\ Sees1(w, V1!NoWord)
      \/ state # seen[w] /\ state' = state /\ Goes1(w, "cancel") /\ Sees1(w, state)
  BY <1>1, <1>3, PlacesExist1, SwapEffect1
<1> QED BY <1>2, <1>3, <1>4

LEMMA ParkEffect1 ==
    ASSUME V1!TypeOK, NEW w \in Waiters, V1!Park(w)
    PROVE  /\ pc[w] = "park"
           /\ UNCHANGED <<state, next, epoch, seen>> /\ Kept1
           /\ \/ wstate[w] = "signaled" /\ Goes1(w, "out") /\ UNCHANGED wstate
              \/ /\ wstate[w] # "signaled" /\ Goes1(w, "blocked")
                 /\ At1(wstate', wstate, w, "waiting")
                 /\ wstate' \in [Waiters -> {"notsignaled", "waiting", "signaled"}]
<1>1. w \in Threads1 BY Threads1Facts
<1>2. V1!Goto(w, "out") => Goes1(w, "out") BY <1>1, PlacesExist1, GotoGoes1
<1>3. V1!Goto(w, "blocked") => Goes1(w, "blocked") BY <1>1, PlacesExist1, GotoGoes1
<1>4. CASE wstate[w] = "signaled" BY <1>2, <1>4 DEF V1!Park, Kept1
<1>5. CASE wstate[w] # "signaled" BY <1>3, <1>5, Types1 DEF V1!Park, At1, Kept1
<1> QED BY <1>4, <1>5

LEMMA SpuriousEffect1 ==
    ASSUME V1!TypeOK, NEW w \in Waiters, V1!SpuriousWakeup(w)
    PROVE  /\ pc[w] = "blocked" /\ Goes1(w, "park")
           /\ UNCHANGED <<state, next, epoch, wstate, seen>> /\ Kept1
  BY Threads1Facts, PlacesExist1, GotoGoes1 DEF V1!SpuriousWakeup, Kept1

LEMMA NotifyBeginEffect1 ==
    ASSUME V1!TypeOK, NEW n \in Notifiers, V1!NotifyBegin(n)
    PROVE  /\ pc[n] = "idle"
           /\ UNCHANGED <<state, next, epoch, wstate, below, cur>>
           /\ \E a \in BOOLEAN :
                 /\ At2(all', all, n, a /\ ~V1!NobodyWaits) /\ all' \in [Notifiers -> BOOLEAN]
                 /\ Goes1(n, BranchTo1(a)) /\ Sees1(n, IF V1!NobodyWaits THEN V1!NoWord ELSE state)
<1>1. PICK a \in BOOLEAN : all' = [all EXCEPT ![n] = a /\ ~V1!NobodyWaits] /\ V1!Branch(n, a)
  BY DEF V1!NotifyBegin
<1>2. Goes1(n, BranchTo1(a)) /\ Sees1(n, IF V1!NobodyWaits THEN V1!NoWord ELSE state)
  BY <1>1, BranchEffect1
<1>3. all \in [Notifiers -> BOOLEAN] BY Types1
<1>4. PICK b \in BOOLEAN : b = (a /\ ~V1!NobodyWaits) OBVIOUS
<1>5. all' = [all EXCEPT ![n] = b] BY <1>1, <1>4
<1>6. At2(all', all, n, b) /\ all' \in [Notifiers -> BOOLEAN] BY <1>3, <1>5 DEF At2
<1> QED BY <1>2, <1>4, <1>6 DEF V1!NotifyBegin

LEMMA NotifyReadNextEffect1 ==
    ASSUME V1!TypeOK, Places1, NEW n \in Notifiers, V1!NotifyReadNext(n)
    PROVE  /\ pc[n] = "next" /\ Goes1(n, "swap")
           /\ At2(below', below, n, next[seen[n].stack])
           /\ below' \in [Notifiers -> Waiters \cup {None}]
           /\ seen[n].stack \in Waiters /\ V1!Pops(n)
           /\ UNCHANGED <<state, next, epoch, wstate, seen, all, cur>>
<1>1. pc[n] = "next" /\ Goes1(n, "swap") BY Threads1Facts, PlacesExist1, GotoGoes1 DEF V1!NotifyReadNext
<1>2. V1!Pops(n) /\ seen[n].stack \in Waiters BY <1>1 DEF Places1
<1>3. next[seen[n].stack] \in Waiters \cup {None} BY <1>2, Types1 DEF Linkings
<1> QED BY <1>1, <1>2, <1>3, Types1 DEF V1!NotifyReadNext, At2

\* The outcomes of a notification's swap.
Retry1(n) ==
    /\ state # seen[n] /\ UNCHANGED <<state, cur, next>>
    /\ Goes1(n, BranchTo1(all[n]))
    /\ Sees1(n, IF V1!NobodyWaits THEN V1!NoWord ELSE state)

TakesAll1(n) ==
    /\ state = seen[n] /\ all[n] /\ next' = next
    /\ state' = [stack |-> None, waiters |-> 0, epoch |-> V1!Advance(state.epoch, state.waiters)]
    /\ Goes1(n, IF state.stack = None THEN "idle" ELSE "unpark")
    /\ At2(cur', cur, n, state.stack)

Pops1(n) ==
    /\ state = seen[n] /\ ~all[n] /\ state.waiters = 0 /\ state.stack \in Waiters
    /\ state' = [state EXCEPT !.stack = below[n]]
    /\ next' = [next EXCEPT ![state.stack] = None]
    /\ Goes1(n, "unpark") /\ At2(cur', cur, n, state.stack)

Serves1(n) ==
    /\ state = seen[n] /\ ~all[n] /\ state.waiters > 0 /\ next' = next
    /\ state' = [state EXCEPT !.waiters = @ - 1, !.epoch = V1!Advance(@, 1)]
    /\ Goes1(n, "idle") /\ At2(cur', cur, n, None)

LEMMA NotifySwapEffect1 ==
    ASSUME V1!TypeOK, Places1, NEW n \in Notifiers, V1!NotifySwap(n)
    PROVE  /\ pc[n] = "swap"
           /\ UNCHANGED <<epoch, wstate, all>>
           /\ At2(below', below, n, None) /\ below' \in [Notifiers -> Waiters \cup {None}]
           /\ cur' \in [Notifiers -> Waiters \cup {None}]
           /\ state # seen[n] => Retry1(n)
           /\ state = seen[n] => Sees1(n, V1!NoWord)
           /\ Retry1(n) \/ TakesAll1(n) \/ Pops1(n) \/ Serves1(n)
<1>1. /\ pc[n] = "swap" /\ UNCHANGED <<epoch, wstate, all>>
      /\ below' = [below EXCEPT ![n] = None] BY DEF V1!NotifySwap
<1>2. At2(below', below, n, None) /\ below' \in [Notifiers -> Waiters \cup {None}]
  BY <1>1, Types1 DEF At2
<1>3. n \in Threads1 /\ all[n] \in BOOLEAN /\ cur \in [Notifiers -> Waiters \cup {None}]
  BY Threads1Facts, Types1
<1>4. CASE state # seen[n]
  <2>1. V1!Branch(n, all[n]) /\ UNCHANGED <<state, cur, next>> BY <1>4 DEF V1!NotifySwap
  <2>2. Retry1(n) BY <1>3, <1>4, <2>1, BranchEffect1 DEF Retry1
  <2> QED BY <1>1, <1>2, <1>3, <1>4, <2>1, <2>2
<1>5. CASE state = seen[n]
  <2> DEFINE l == IF V1!Unparks(n) THEN "unpark" ELSE "idle"
  <2>1. /\ V1!Swap(n, V1!Notified(n), l, "idle")
        /\ cur' = [cur EXCEPT ![n] = IF V1!Unparks(n) THEN seen[n].stack ELSE None]
        /\ next' = IF V1!Pops(n) THEN [next EXCEPT ![seen[n].stack] = None] ELSE next
    BY <1>5 DEF V1!NotifySwap
  <2>2. l \in PCs1 BY PlacesExist1
  <2>3. state' = V1!Notified(n) /\ Goes1(n, l) /\ Sees1(n, V1!NoWord)
    <3> HIDE DEF l
    <3> QED BY <1>3, <1>5, <2>1, <2>2, PlacesExist1, SwapEffect1
  <2>4. state.stack \in Waiters \cup {None} /\ state.waiters \in Nat BY Types1, WordFacts1
  <2>5. PICK s \in Waiters \cup {None} : s = IF V1!Unparks(n) THEN state.stack ELSE None BY <2>4
  <2>6. cur' = [cur EXCEPT ![n] = s] BY <1>5, <2>1, <2>5
  <2>7. At2(cur', cur, n, s) /\ cur' \in [Notifiers -> Waiters \cup {None}] BY <1>3, <2>6 DEF At2
  <2>8. CASE all[n]
    <3>1. V1!Notified(n) = [stack |-> None, waiters |-> 0, epoch |-> V1!Advance(state.epoch, state.waiters)]
      <4>1. ~V1!Pops(n) BY <2>8 DEF V1!Pops
      <4>2. V1!Notified(n) = [stack |-> None, waiters |-> 0, epoch |-> V1!Advance(seen[n].epoch, seen[n].waiters)]
        BY <2>8, <4>1, Zenon DEF V1!Notified
      <4> QED BY <1>5, <4>2
    <3>2. ~V1!Pops(n) /\ (V1!Unparks(n) <=> state.stack # None) BY <1>5, <2>8 DEF V1!Pops, V1!Unparks
    <3>3. s = state.stack /\ l = (IF state.stack = None THEN "idle" ELSE "unpark") BY <2>5, <3>2
    <3>4. TakesAll1(n) BY <1>5, <2>1, <2>3, <2>7, <2>8, <3>1, <3>2, <3>3 DEF TakesAll1
    <3> QED BY <1>1, <1>2, <1>5, <2>3, <2>7, <3>4
  <2>9. CASE V1!Pops(n)
    <3>1. ~all[n] /\ state.waiters = 0 /\ state.stack \in Waiters BY <1>1, <1>5, <2>9 DEF V1!Pops, Places1
    <3>2. V1!Notified(n) = [state EXCEPT !.stack = below[n]] BY <1>5, <2>9, <3>1 DEF V1!Notified
    <3>3. V1!Unparks(n) BY <1>5, <2>9, <3>1, Threads1Facts DEF V1!Unparks
    <3>4. s = state.stack /\ l = "unpark" BY <2>5, <3>3
    <3>5. next' = [next EXCEPT ![state.stack] = None] BY <1>5, <2>1, <2>9
    <3>6. Pops1(n) BY <1>5, <2>3, <2>7, <3>1, <3>2, <3>4, <3>5 DEF Pops1
    <3> QED BY <1>1, <1>2, <1>5, <2>3, <2>7, <3>6
  <2>10. CASE ~all[n] /\ ~V1!Pops(n)
    <3>1. state.waiters > 0 BY <1>5, <2>4, <2>10 DEF V1!Pops
    <3>2. V1!Notified(n) = [state EXCEPT !.waiters = @ - 1, !.epoch = V1!Advance(@, 1)]
      BY <1>5, <2>10 DEF V1!Notified
    <3>3. ~V1!Unparks(n) BY <2>10 DEF V1!Unparks
    <3>4. s = None /\ l = "idle" /\ next' = next BY <2>1, <2>5, <2>10, <3>3
    <3>6. Serves1(n) BY <1>5, <2>3, <2>7, <2>10, <3>1, <3>2, <3>4 DEF Serves1
    <3> QED BY <1>1, <1>2, <1>5, <2>3, <2>7, <3>6
  <2> QED BY <2>8, <2>9, <2>10
<1> QED BY <1>4, <1>5

LEMMA UnparkEffect1 ==
    ASSUME V1!TypeOK, Places1, NEW n \in Notifiers, V1!Unpark(n)
    PROVE  /\ pc[n] = "unpark" /\ cur[n] \in Waiters
           /\ UNCHANGED <<state, next, epoch, seen, all>>
           /\ At2(below', below, n, next[cur[n]]) /\ below' \in [Notifiers -> Waiters \cup {None}]
           /\ At1(wstate', wstate, cur[n], "signaled")
           /\ wstate' \in [Waiters -> {"notsignaled", "waiting", "signaled"}]
           /\ cur' \in [Notifiers -> Waiters \cup {None}]
           /\ \/ wstate[cur[n]] = "waiting" /\ Goes1(n, "wake") /\ UNCHANGED cur
              \/ /\ wstate[cur[n]] # "waiting"
                 /\ Goes1(n, IF next[cur[n]] = None THEN "idle" ELSE "unpark")
                 /\ At2(cur', cur, n, next[cur[n]])
<1>1. pc[n] = "unpark" /\ UNCHANGED <<state, next, epoch, seen, all>> BY DEF V1!Unpark
<1>2. cur[n] \in Waiters BY <1>1 DEF Places1
<1>3. PICK w \in Waiters : w = cur[n] BY <1>2
<1>4. next[w] \in Waiters \cup {None} BY Types1 DEF Linkings
<1>5. At2(below', below, n, next[w]) /\ below' \in [Notifiers -> Waiters \cup {None}]
  BY <1>3, <1>4, Types1 DEF V1!Unpark, At2
<1>6. At1(wstate', wstate, w, "signaled") /\ wstate' \in [Waiters -> {"notsignaled", "waiting", "signaled"}]
  BY <1>3, Types1 DEF V1!Unpark, At1
<1>7. n \in Threads1 BY Threads1Facts
<1>8. CASE wstate[w] = "waiting"
  <2>1. V1!Goto(n, "wake") /\ UNCHANGED cur BY <1>3, <1>8 DEF V1!Unpark
  <2>2. Goes1(n, "wake") BY <1>7, <2>1, PlacesExist1, GotoGoes1
  <2>3. cur' \in [Notifiers -> Waiters \cup {None}] BY <2>1, Types1
  <2> QED BY <1>1, <1>3, <1>5, <1>6, <1>8, <2>1, <2>2, <2>3
<1>9. CASE wstate[w] # "waiting"
  <2>1. V1!Goto(n, IF next[w] = None THEN "idle" ELSE "unpark") /\ cur' = [cur EXCEPT ![n] = next[w]]
    BY <1>3, <1>9 DEF V1!Unpark
  <2>2. Goes1(n, IF next[w] = None THEN "idle" ELSE "unpark") BY <1>7, <2>1, PlacesExist1, GotoGoes1
  <2>3. At2(cur', cur, n, next[w]) /\ cur' \in [Notifiers -> Waiters \cup {None}]
    BY <1>4, <2>1, Types1 DEF At2
  <2> QED BY <1>1, <1>3, <1>5, <1>6, <1>9, <2>2, <2>3
<1> QED BY <1>8, <1>9

LEMMA WakeEffect1 ==
    ASSUME V1!TypeOK, Places1, NEW n \in Notifiers, V1!Wake(n)
    PROVE  /\ pc[n] = "wake" /\ cur[n] \in Waiters /\ n # cur[n]
           /\ UNCHANGED <<state, next, epoch, wstate, seen, below, all>>
           /\ below[n] \in Waiters \cup {None}
           /\ At2(cur', cur, n, below[n]) /\ cur' \in [Notifiers -> Waiters \cup {None}]
           /\ pc' \in [Threads1 -> PCs1]
           /\ pc'[n] = (IF below[n] = None THEN "idle" ELSE "unpark")
           /\ pc'[cur[n]] = (IF pc[cur[n]] = "blocked" THEN "park" ELSE pc[cur[n]])
           /\ \A t \in Threads1 \ {n, cur[n]} : pc'[t] = pc[t]
<1>1. pc[n] = "wake" /\ UNCHANGED <<state, next, epoch, wstate, seen, below, all>> BY DEF V1!Wake
<1>2. cur[n] \in Waiters BY <1>1 DEF Places1
<1>3. n \in Threads1 /\ cur[n] \in Threads1 /\ n # cur[n] BY <1>2, Threads1Facts
<1>4. below[n] \in Waiters \cup {None} /\ cur \in [Notifiers -> Waiters \cup {None}] /\ pc \in [Threads1 -> PCs1]
  BY Types1
<1>6. cur' = [cur EXCEPT ![n] = below[n]] BY DEF V1!Wake
<1>7. At2(cur', cur, n, below[n]) /\ cur' \in [Notifiers -> Waiters \cup {None}]
  BY <1>4, <1>6 DEF At2
<1>8. PICK w \in Waiters : w = cur[n] BY <1>2
<1>9. PICK l \in PCs1 : l = IF below[n] = None THEN "idle" ELSE "unpark" BY PlacesExist1
<1>10. PICK k \in PCs1 : k = IF pc[w] = "blocked" THEN "park" ELSE pc[w] BY PlacesExist1, <1>3, <1>4, <1>8
<1>11. pc' = [pc EXCEPT ![n] = l, ![w] = k]
  <2>1. pc' = [pc EXCEPT ![n] = IF below[n] = None THEN "idle" ELSE "unpark",
                        ![cur[n]] = IF @ = "blocked" THEN "park" ELSE @] BY DEF V1!Wake
  <2> QED BY <2>1, <1>3, <1>4, <1>8, <1>9, <1>10
<1>12. pc' \in [Threads1 -> PCs1] /\ pc'[n] = l /\ pc'[w] = k /\ \A t \in Threads1 \ {n, w} : pc'[t] = pc[t]
  BY <1>3, <1>4, <1>8, <1>11
<1> QED BY <1>1, <1>2, <1>3, <1>4, <1>7, <1>8, <1>9, <1>10, <1>12

----------------------------------------------------------------------------
(* Tickets *)

Bounds1 ==
    /\ Served + state.waiters <= MaxWaits
    /\ \A w \in V1!Announced : Ticket(w) < Served + state.waiters

\* Those in the line are the announced waiters whose tickets the epoch has not passed.
LEMMA UnservedIs ==
    V1!TypeOK /\ Bounds1 => V1!Unserved = {w \in V1!Announced : Served <= Ticket(w)}
<1> SUFFICES ASSUME V1!TypeOK, Bounds1, NEW w \in V1!Announced
             PROVE  (epoch[w] - state.epoch) % EpochSize < state.waiters <=> Served <= Ticket(w)
  BY DEF V1!Unserved
<1>1. w \in Waiters BY DEF V1!Announced
<1>2. /\ epoch[w] \in V1!Epochs /\ state.epoch \in V1!Epochs /\ state.waiters \in Nat
      /\ Served \in Nat /\ Ticket(w) \in Nat BY <1>1, Types1, WordFacts1, NumType DEF Served, Ticket
<1>3. Served + state.waiters <= MaxWaits /\ Ticket(w) < Served + state.waiters BY DEF Bounds1
<1>4. Num(epoch[w]) <= MaxWaits /\ Num(state.epoch) <= MaxWaits BY <1>2, <1>3, Sizes DEF Served, Ticket
<1>5. (epoch[w] - state.epoch) % EpochSize =
         IF Served <= Ticket(w) THEN Ticket(w) - Served ELSE Ticket(w) - Served + EpochSize
  BY <1>2, <1>4, NumDiff DEF Served, Ticket
<1> QED BY <1>2, <1>3, <1>5, Sizes

LEMMA AnnouncedFinite ==
    /\ V1!Announced \subseteq Waiters /\ V1!Unserved \subseteq V1!Announced
    /\ IsFiniteSet(V1!Unserved) /\ Cardinality(V1!Unserved) \in Nat
<1>1. V1!Announced \subseteq Waiters /\ V1!Unserved \subseteq V1!Announced BY DEF V1!Announced, V1!Unserved
<1>2. IsFiniteSet(V1!Unserved) BY <1>1, FS_Subset, WaiterCount
<1> QED BY <1>1, <1>2, FS_CardinalityType

LEMMA TicketTypes ==
    ASSUME IInv1
    PROVE  /\ V1!TypeOK /\ Bounds1 /\ Served \in Nat /\ state.waiters \in Nat /\ Served <= MaxWaits
           /\ state.epoch \in V1!Epochs
           /\ \A w \in Waiters : Ticket(w) \in Nat /\ epoch[w] \in V1!Epochs
           /\ \A w \in V1!Announced : Ticket(w) <= MaxWaits
           /\ V1!Unserved = {w \in V1!Announced : Served <= Ticket(w)}
<1>1. V1!TypeOK /\ Bounds1 BY DEF IInv1, Tickets, Bounds1
<1>2. /\ Served \in Nat /\ state.waiters \in Nat /\ state.epoch \in V1!Epochs
      /\ \A w \in Waiters : Ticket(w) \in Nat /\ epoch[w] \in V1!Epochs
  BY <1>1, Types1, WordFacts1, NumType DEF Served, Ticket
<1>3. Served <= MaxWaits /\ \A w \in V1!Announced : Ticket(w) <= MaxWaits
  BY <1>1, <1>2, Sizes, AnnouncedFinite DEF Bounds1
<1> QED BY <1>1, <1>2, <1>3, UnservedIs

\* How the word, the tickets and the announced waiters change together.
Stays1 ==
    /\ state'.epoch = state.epoch /\ state'.waiters = state.waiters /\ epoch' = epoch
    /\ \A v \in V1!Announced' : v \in V1!Announced
    /\ \A v \in V1!Announced : v \in V1!Announced' \/ Ticket(v) < Served

Announces1(w) ==
    /\ w \in Waiters /\ w \notin V1!Announced /\ V1!Announced' = V1!Announced \cup {w}
    /\ At1(epoch', epoch, w, V1!Advance(state.epoch, state.waiters))
    /\ epoch' \in [Waiters -> V1!Epochs] /\ Num(epoch'[w]) = Served + state.waiters
    /\ state'.waiters = state.waiters + 1 /\ state'.epoch = state.epoch
    /\ Served + state.waiters < MaxWaits

Decides1(w) ==
    /\ w \in V1!Announced /\ Ticket(w) = Served /\ state.waiters > 0
    /\ state'.waiters = state.waiters - 1
    /\ state'.epoch \in V1!Epochs /\ Num(state'.epoch) = Served + 1
    /\ epoch' = epoch
    /\ V1!Announced' \in {V1!Announced, V1!Announced \ {w}}

Serves1All ==
    /\ state'.waiters = 0
    /\ state'.epoch \in V1!Epochs /\ Num(state'.epoch) = Served + state.waiters
    /\ epoch' = epoch /\ V1!Announced' = V1!Announced

LEMMA AnnouncedSame ==
    ASSUME \A v \in Waiters : pc'[v] \in Early <=> pc[v] \in Early
    PROVE  V1!Announced' = V1!Announced BY DEF V1!Announced, Early

LEMMA PrepareWaitWord ==
    ASSUME IInv1, NEW w \in Waiters, V1!PrepareWait(w)
    PROVE  Announces1(w)
<1>1. /\ Served \in Nat /\ state.waiters \in Nat /\ Served + state.waiters <= MaxWaits
      /\ state.epoch \in V1!Epochs /\ V1!TypeOK BY TicketTypes DEF Bounds1
<1>2. /\ pc[w] = "out" /\ Goes1(w, "recheck")
      /\ V1!Advance(state.epoch, state.waiters - V1!Start) < MaxWaits
      /\ At1(epoch', epoch, w, V1!Advance(state.epoch, state.waiters))
      /\ epoch' = [epoch EXCEPT ![w] = V1!Advance(state.epoch, state.waiters)]
      /\ state' = [state EXCEPT !.waiters = @ + 1] BY <1>1, PrepareWaitEffect1
<1>3. Served + state.waiters < MaxWaits BY <1>1, <1>2, NumGuard DEF Served
<1>4. /\ V1!Advance(state.epoch, state.waiters) \in V1!Epochs
      /\ Num(V1!Advance(state.epoch, state.waiters)) = Served + state.waiters
  BY <1>1, NumAdvance DEF Served
<1>5. epoch' \in [Waiters -> V1!Epochs] /\ Num(epoch'[w]) = Served + state.waiters
  BY <1>1, <1>2, <1>4, Types1 DEF At1
<1>6. w \notin V1!Announced /\ V1!Announced' = V1!Announced \cup {w}
  BY <1>2, Threads1Facts DEF V1!Announced, Goes1
<1>7. state'.waiters = state.waiters + 1 /\ state'.epoch = state.epoch
  BY <1>1, <1>2, Types1, WordType1
<1> QED BY <1>2, <1>3, <1>5, <1>6, <1>7 DEF Announces1

\* The one whose ticket the epoch has reached is decided about.
LEMMA DecideWord ==
    ASSUME IInv1, NEW w \in V1!Announced, Ticket(w) = Served,
           state'.waiters = state.waiters - 1, state'.epoch = V1!Advance(state.epoch, 1),
           epoch' = epoch, V1!Announced' \in {V1!Announced, V1!Announced \ {w}}
    PROVE  Decides1(w)
<1>1. /\ Served \in Nat /\ state.waiters \in Nat /\ Served + state.waiters <= MaxWaits
      /\ state.epoch \in V1!Epochs /\ V1!TypeOK /\ Ticket(w) < Served + state.waiters
  BY TicketTypes DEF Bounds1
<1>2. state.waiters > 0 /\ Num(state.epoch) + 1 <= MaxWaits BY <1>1, Sizes DEF Served
<1>3. V1!Advance(state.epoch, 1) \in V1!Epochs /\ Num(V1!Advance(state.epoch, 1)) = Served + 1
  BY <1>1, <1>2, NumAdvance DEF Served
<1> QED BY <1>2, <1>3 DEF Decides1

\* What a waiter that spins finds.
LEMMA TurnFacts ==
    ASSUME IInv1, NEW w \in Waiters, pc[w] \in {"commit", "cancel"}
    PROVE  /\ w \in V1!Announced
           /\ V1!Distance(w) > 0 => Ticket(w) < Served
           /\ V1!Distance(w) = 0 => seen[w].epoch = epoch[w]
<1>1. w \in V1!Announced BY DEF V1!Announced
<1>2. w \in Threads1 /\ seen[w] \in Word1 BY TicketTypes, Types1, Threads1Facts
<1>3. seen[w].epoch \in V1!Epochs /\ Num(seen[w].epoch) \in Nat BY <1>2, WordFacts1
<1>4. Num(seen[w].epoch) <= Served BY <1>2 DEF IInv1, Copies, Deciding, Threads1
<1>5. /\ Served \in Nat /\ Served <= MaxWaits /\ Ticket(w) \in Nat /\ Ticket(w) <= MaxWaits
      /\ epoch[w] \in V1!Epochs BY <1>1, TicketTypes
<1>6. Num(seen[w].epoch) <= MaxWaits BY <1>3, <1>4, <1>5, Sizes
<1>7. V1!Distance(w) = Num(seen[w].epoch) - Ticket(w) BY <1>3, <1>5, <1>6, DistanceIs DEF Ticket
<1>8. V1!Distance(w) = 0 => Num(seen[w].epoch) = Num(epoch[w]) BY <1>3, <1>5, <1>7 DEF Ticket
<1> QED BY <1>1, <1>3, <1>4, <1>5, <1>7, <1>8, NumSame

LEMMA CommitSwapWord ==
    ASSUME IInv1, NEW w \in Waiters, V1!CommitSwap(w), state = seen[w]
    PROVE  /\ Decides1(w) /\ V1!Announced' = V1!Announced \ {w}
           /\ state'.stack = w /\ next[w] = state.stack /\ wstate[w] = "notsignaled"
<1>1. V1!TypeOK /\ state \in Word1 BY TicketTypes, Types1
<1>2. /\ pc[w] = "push" /\ epoch' = epoch /\ Goes1(w, "park")
      /\ state' = [state EXCEPT !.waiters = @ - 1, !.epoch = V1!Advance(@, 1), !.stack = w]
  BY <1>1, CommitSwapEffect1
<1>3. w \in V1!Announced BY <1>2 DEF V1!Announced
<1>4. Ticket(w) = Served /\ next[w] = state.stack /\ wstate[w] = "notsignaled"
  BY <1>2 DEF IInv1, Committing1, Ticket, Served
<1>5. state'.waiters = state.waiters - 1 /\ state'.epoch = V1!Advance(state.epoch, 1) /\ state'.stack = w
  BY <1>1, <1>2, WordType1
<1>6. V1!Announced' = V1!Announced \ {w} BY <1>2, Threads1Facts DEF V1!Announced, Goes1
<1> QED BY <1>2, <1>3, <1>4, <1>5, <1>6, DecideWord

LEMMA CancelSwapWord ==
    ASSUME IInv1, NEW w \in Waiters, V1!CancelSwap(w), state = seen[w]
    PROVE  Decides1(w) /\ V1!Announced' = V1!Announced \ {w} /\ state'.stack = state.stack
<1>1. V1!TypeOK /\ state \in Word1 BY TicketTypes, Types1
<1>2. /\ pc[w] = "cancel" /\ V1!Distance(w) = 0 /\ epoch' = epoch /\ Goes1(w, "out")
      /\ state' = [state EXCEPT !.waiters = @ - 1, !.epoch = V1!Advance(@, 1)]
  BY <1>1, CancelSwapEffect1
<1>3. w \in V1!Announced /\ state.epoch = epoch[w] BY <1>2, TurnFacts
<1>4. Ticket(w) = Served BY <1>3 DEF Ticket, Served
<1>5. /\ state'.waiters = state.waiters - 1 /\ state'.epoch = V1!Advance(state.epoch, 1)
      /\ state'.stack = state.stack BY <1>1, <1>2, WordType1
<1>6. V1!Announced' = V1!Announced \ {w} BY <1>2, Threads1Facts DEF V1!Announced, Goes1
<1> QED BY <1>2, <1>3, <1>4, <1>5, <1>6, DecideWord

LEMMA ServesWord ==
    ASSUME IInv1, NEW n \in Notifiers, Serves1(n), epoch' = epoch
    PROVE  /\ V1!Announced' = V1!Announced /\ state'.stack = state.stack
           /\ \E w \in V1!Announced : Decides1(w)
<1>1. V1!TypeOK /\ state \in Word1 /\ Served \in Nat /\ state.waiters \in Nat BY TicketTypes, Types1
<1>2. /\ state.waiters > 0 /\ Goes1(n, "idle")
      /\ state' = [state EXCEPT !.waiters = @ - 1, !.epoch = V1!Advance(@, 1)] BY DEF Serves1
<1>3. PICK w \in V1!Announced : Ticket(w) = Served BY <1>1, <1>2 DEF IInv1, Tickets
<1>4. /\ state'.waiters = state.waiters - 1 /\ state'.epoch = V1!Advance(state.epoch, 1)
      /\ state'.stack = state.stack BY <1>1, <1>2, WordType1
<1>5. V1!Announced' = V1!Announced BY <1>2, Threads1Facts, AnnouncedSame DEF Goes1
<1>6. Decides1(w) BY <1>3, <1>4, <1>5, DecideWord
<1> QED BY <1>4, <1>5, <1>6

LEMMA TakesAllWord ==
    ASSUME IInv1, NEW n \in Notifiers, TakesAll1(n), epoch' = epoch
    PROVE  Serves1All /\ state'.stack = None /\ \A v \in Waiters : pc'[v] = pc[v]
<1>1. /\ Served \in Nat /\ state.waiters \in Nat /\ Served + state.waiters <= MaxWaits
      /\ state.epoch \in V1!Epochs BY TicketTypes DEF Bounds1
<1>2. /\ state' = [stack |-> None, waiters |-> 0, epoch |-> V1!Advance(state.epoch, state.waiters)]
      /\ Goes1(n, IF state.stack = None THEN "idle" ELSE "unpark") BY DEF TakesAll1
<1>3. /\ V1!Advance(state.epoch, state.waiters) \in V1!Epochs
      /\ Num(V1!Advance(state.epoch, state.waiters)) = Served + state.waiters
  BY <1>1, NumAdvance DEF Served
<1>4. \A v \in Waiters : pc'[v] = pc[v] BY <1>2, Threads1Facts DEF Goes1
<1>5. V1!Announced' = V1!Announced BY <1>4, AnnouncedSame
<1> QED BY <1>2, <1>3, <1>4, <1>5 DEF Serves1All

----------------------------------------------------------------------------
(* Frames *)

\* The steps of a waiter and of a notifier.
Waits1(w) ==
    \/ V1!PrepareWait(w) \/ V1!CommitBegin(w) \/ V1!CancelBegin(w) \/ V1!Spin(w)
    \/ V1!CommitSwap(w) \/ V1!CancelSwap(w) \/ V1!Park(w) \/ V1!SpuriousWakeup(w)

Notifies1(n) ==
    V1!NotifyBegin(n) \/ V1!NotifyReadNext(n) \/ V1!NotifySwap(n) \/ V1!Unpark(n) \/ V1!Wake(n)

LEMMA NextIs1 ==
    V1!Next <=> (\E w \in Waiters : Waits1(w)) \/ (\E n \in Notifiers : Notifies1(n))
  BY DEF V1!Next, Waits1, Notifies1

LEMMA WaiterFrame1 ==
    ASSUME IInv1, NEW w \in Waiters, Waits1(w)
    PROVE  /\ \E l : Goes1(w, l)
           /\ (\E s : Sees1(w, s)) \/ UNCHANGED seen
           /\ \A v \in Waiters \ {w} : pc'[v] = pc[v] /\ seen'[v] = seen[v]
           /\ \A n \in Notifiers : pc'[n] = pc[n] /\ seen'[n] = seen[n]
           /\ Kept1
           /\ \A v \in Waiters \ {w} : wstate'[v] = wstate[v] /\ next'[v] = next[v]
           /\ ~V1!PrepareWait(w) => epoch' = epoch
<1> USE TicketTypes
<1>1. \E l : Goes1(w, l) BY PrepareWaitEffect1, CommitBeginEffect1, CancelBeginEffect1, SpinEffect1,
     CommitSwapEffect1, CancelSwapEffect1, ParkEffect1, SpuriousEffect1 DEF Waits1
<1>2. (\E s : Sees1(w, s)) \/ UNCHANGED seen
  BY PrepareWaitEffect1, CommitBeginEffect1, CancelBeginEffect1, SpinEffect1,
     CommitSwapEffect1, CancelSwapEffect1, ParkEffect1, SpuriousEffect1 DEF Waits1
<1>3. Kept1 BY PrepareWaitEffect1, CommitBeginEffect1, CancelBeginEffect1, SpinEffect1,
     CommitSwapEffect1, CancelSwapEffect1, ParkEffect1, SpuriousEffect1 DEF Waits1
<1>4. \A v \in Waiters \ {w} : wstate'[v] = wstate[v] /\ next'[v] = next[v]
  BY PrepareWaitEffect1, CommitBeginEffect1, CancelBeginEffect1, SpinEffect1,
     CommitSwapEffect1, CancelSwapEffect1, ParkEffect1, SpuriousEffect1 DEF Waits1, At1
<1>5. ~V1!PrepareWait(w) => epoch' = epoch BY CommitBeginEffect1, CancelBeginEffect1, SpinEffect1,
     CommitSwapEffect1, CancelSwapEffect1, ParkEffect1, SpuriousEffect1 DEF Waits1
<1>6. /\ \A v \in Waiters \ {w} : pc'[v] = pc[v] /\ seen'[v] = seen[v]
      /\ \A n \in Notifiers : pc'[n] = pc[n] /\ seen'[n] = seen[n]
  BY <1>1, <1>2, Threads1Facts DEF Goes1, Sees1
<1> QED BY <1>1, <1>2, <1>3, <1>4, <1>5, <1>6

LEMMA NotifierFrame1 ==
    ASSUME IInv1, NEW n \in Notifiers, Notifies1(n)
    PROVE  /\ (\E s : Sees1(n, s)) \/ UNCHANGED seen
           /\ \A m \in Notifiers \ {n} :
                 /\ pc'[m] = pc[m] /\ cur'[m] = cur[m] /\ below'[m] = below[m]
                 /\ seen'[m] = seen[m] /\ all'[m] = all[m]
           /\ \A v \in Waiters : seen'[v] = seen[v]
           /\ ~V1!Wake(n) => (\E l : Goes1(n, l)) /\ \A v \in Waiters : pc'[v] = pc[v]
           /\ epoch' = epoch
           /\ ~V1!Unpark(n) => wstate' = wstate
<1> USE TicketTypes DEF IInv1
<1>2. (\E s : Sees1(n, s)) \/ UNCHANGED seen
  BY NotifyBeginEffect1, NotifyReadNextEffect1, NotifySwapEffect1, UnparkEffect1, WakeEffect1
     DEF Notifies1, Retry1
<1>3. epoch' = epoch /\ (~V1!Unpark(n) => wstate' = wstate)
  BY NotifyBeginEffect1, NotifyReadNextEffect1, NotifySwapEffect1, UnparkEffect1, WakeEffect1
     DEF Notifies1
<1>4. \A m \in Notifiers \ {n} : below'[m] = below[m]
  BY NotifyBeginEffect1, NotifyReadNextEffect1, NotifySwapEffect1, UnparkEffect1, WakeEffect1
     DEF Notifies1, At2
<1>5. \A m \in Notifiers \ {n} : all'[m] = all[m]
  BY NotifyBeginEffect1, NotifyReadNextEffect1, NotifySwapEffect1, UnparkEffect1, WakeEffect1
     DEF Notifies1, At2
<1>6. \A m \in Notifiers \ {n} : cur'[m] = cur[m]
  <2>1. CASE V1!NotifySwap(n) BY <2>1, NotifySwapEffect1 DEF Retry1, TakesAll1, Pops1, Serves1, At2
  <2>2. CASE ~V1!NotifySwap(n)
    BY <2>2, NotifyBeginEffect1, NotifyReadNextEffect1, UnparkEffect1, WakeEffect1 DEF Notifies1, At2
  <2> QED BY <2>1, <2>2
<1>7. ASSUME ~V1!Wake(n) PROVE \E l : Goes1(n, l)
  <2>1. CASE V1!NotifySwap(n) BY <2>1, NotifySwapEffect1 DEF Retry1, TakesAll1, Pops1, Serves1
  <2>2. CASE ~V1!NotifySwap(n)
    BY <1>7, <2>2, NotifyBeginEffect1, NotifyReadNextEffect1, UnparkEffect1 DEF Notifies1
  <2> QED BY <2>1, <2>2
<1>8. ASSUME V1!Wake(n) PROVE \A m \in Notifiers \ {n} : pc'[m] = pc[m]
  <2>1. PICK w \in Waiters : w = cur[n] BY <1>8, WakeEffect1
  <2> QED BY <1>8, <2>1, WakeEffect1, Threads1Facts
<1>9. (\A m \in Notifiers : m \in Threads1) /\ \A v \in Waiters : v \in Threads1 \ {n} BY Threads1Facts
<1> QED BY <1>2, <1>3, <1>4, <1>5, <1>6, <1>7, <1>8, <1>9 DEF Goes1, Sees1

LEMMA WaiterStays ==
    ASSUME IInv1, NEW w \in Waiters, Waits1(w), ~V1!PrepareWait(w),
           ~(V1!CommitSwap(w) /\ state = seen[w]), ~(V1!CancelSwap(w) /\ state = seen[w])
    PROVE  Stays1 /\ state' = state
<1> USE TicketTypes
<1>1. state' = state /\ epoch' = epoch BY CommitBeginEffect1, CancelBeginEffect1, SpinEffect1,
     CommitSwapEffect1, CancelSwapEffect1, ParkEffect1, SpuriousEffect1 DEF Waits1
<1>2. \A v \in Waiters \ {w} : pc'[v] = pc[v] BY WaiterFrame1
<1>3. CASE V1!Spin(w)
  <2>1. pc[w] \in {"commit", "cancel"} /\ w \in V1!Announced BY <1>3, SpinEffect1, TurnFacts
  <2>2. CASE V1!Distance(w) > 0
    <3>1. Ticket(w) < Served BY <2>1, <2>2, TurnFacts
    <3>2. pc'[w] = "out" \/ pc'[w] \in Early BY <1>3, <2>1, SpinEffect1 DEF Goes1, Early
    <3> QED BY <1>1, <1>2, <2>1, <3>1 DEF Stays1, V1!Announced
  <2>3. CASE ~(V1!Distance(w) > 0)
    <3>1. pc'[w] \in Early BY <1>3, <2>1, <2>3, SpinEffect1 DEF Goes1, Early
    <3>2. V1!Announced' = V1!Announced BY <1>2, <2>1, <3>1, AnnouncedSame DEF Early
    <3> QED BY <1>1, <3>2 DEF Stays1
  <2> QED BY <2>2, <2>3
<1>4. CASE ~V1!Spin(w)
  <2>1. pc'[w] \in Early <=> pc[w] \in Early
    <3>1. CASE V1!CommitBegin(w) BY <3>1, CommitBeginEffect1 DEF Goes1, Early
    <3>2. CASE V1!CancelBegin(w) BY <3>2, CancelBeginEffect1 DEF Goes1, Early
    <3>3. CASE V1!CommitSwap(w) BY <3>3, CommitSwapEffect1 DEF Goes1, Early
    <3>4. CASE V1!CancelSwap(w) BY <3>4, CancelSwapEffect1 DEF Goes1, Early
    <3>5. CASE V1!Park(w) BY <3>5, ParkEffect1 DEF Goes1, Early
    <3>6. CASE V1!SpuriousWakeup(w) BY <3>6, SpuriousEffect1 DEF Goes1, Early
    <3> QED BY <1>4, <3>1, <3>2, <3>3, <3>4, <3>5, <3>6 DEF Waits1
  <2>2. V1!Announced' = V1!Announced BY <1>2, <2>1, AnnouncedSame
  <2> QED BY <1>1, <2>2 DEF Stays1
<1> QED BY <1>3, <1>4

LEMMA NotifierStays ==
    ASSUME IInv1, NEW n \in Notifiers, Notifies1(n),
           ~(V1!NotifySwap(n) /\ state = seen[n] /\ (TakesAll1(n) \/ Serves1(n)))
    PROVE  Stays1
<1> USE TicketTypes DEF IInv1
<1>1. epoch' = epoch BY NotifierFrame1
<1>2. state'.epoch = state.epoch /\ state'.waiters = state.waiters
  <2>1. CASE V1!NotifySwap(n)
    <3>1. Retry1(n) \/ Pops1(n)
      <4>1. Retry1(n) \/ TakesAll1(n) \/ Pops1(n) \/ Serves1(n) BY <2>1, NotifySwapEffect1
      <4>2. state # seen[n] => Retry1(n) BY <2>1, NotifySwapEffect1
      <4> QED BY <2>1, <4>1, <4>2
    <3>2. CASE Retry1(n) BY <3>2 DEF Retry1
    <3>3. CASE Pops1(n)
      <4>1. state' = [state EXCEPT !.stack = below[n]] BY <3>3 DEF Pops1
      <4>2. state \in Word1 BY Types1
      <4> QED BY <4>1, <4>2, WordType1
    <3> QED BY <3>1, <3>2, <3>3
  <2>2. CASE ~V1!NotifySwap(n)
    BY <2>2, NotifyBeginEffect1, NotifyReadNextEffect1, UnparkEffect1, WakeEffect1 DEF Notifies1
  <2> QED BY <2>1, <2>2
<1>3. V1!Announced' = V1!Announced
  <2>1. CASE V1!Wake(n)
    <3>1. PICK w \in Waiters : w = cur[n] BY <2>1, WakeEffect1
    <3>2. /\ \A v \in Waiters \ {w} : pc'[v] = pc[v]
          /\ pc'[w] = (IF pc[w] = "blocked" THEN "park" ELSE pc[w])
      BY <2>1, <3>1, WakeEffect1, Threads1Facts
    <3> QED BY <3>2, AnnouncedSame DEF Early
  <2>2. CASE ~V1!Wake(n)
    <3>1. \A v \in Waiters : pc'[v] = pc[v] BY <2>2, NotifierFrame1
    <3> QED BY <3>1, AnnouncedSame
  <2> QED BY <2>1, <2>2
<1> QED BY <1>1, <1>2, <1>3 DEF Stays1

LEMMA WordStep1 ==
    ASSUME IInv1, [V1!Next]_(V1!vars)
    PROVE  Stays1 \/ (\E w \in Waiters : Announces1(w) \/ Decides1(w)) \/ Serves1All
<1>1. CASE UNCHANGED V1!vars BY <1>1 DEF V1!vars, Stays1, V1!Announced
<1>2. ASSUME NEW w \in Waiters, Waits1(w) PROVE Stays1 \/ Announces1(w) \/ Decides1(w)
  BY <1>2, PrepareWaitWord, CommitSwapWord, CancelSwapWord, WaiterStays
<1>3. ASSUME NEW n \in Notifiers, Notifies1(n)
      PROVE  Stays1 \/ (\E w \in V1!Announced : Decides1(w)) \/ Serves1All
  <2>1. epoch' = epoch BY <1>3, NotifierFrame1
  <2> QED BY <1>3, <2>1, ServesWord, TakesAllWord, NotifierStays
<1> QED BY <1>1, <1>2, <1>3, NextIs1, AnnouncedFinite

----------------------------------------------------------------------------
(* Types, tickets, copies and places *)

LEMMA WordMade ==
    ASSUME NEW s \in Word1, NEW k \in Nat, k <= Cardinality(Waiters), NEW e \in V1!Epochs,
           NEW x \in Waiters \cup {None}
    PROVE  /\ [s EXCEPT !.waiters = k] \in Word1
           /\ [s EXCEPT !.waiters = k, !.epoch = e] \in Word1
           /\ [s EXCEPT !.waiters = k, !.epoch = e, !.stack = x] \in Word1
           /\ [s EXCEPT !.stack = x] \in Word1
           /\ [stack |-> None, waiters |-> 0, epoch |-> e] \in Word1
<1>1. k \in 0 .. Cardinality(Waiters) /\ 0 \in 0 .. Cardinality(Waiters) BY WaiterCount
<1> QED BY <1>1, WordType1

LEMMA WordTypeStep ==
    ASSUME IInv1, [V1!Next]_(V1!vars)
    PROVE  state' \in Word1
<1>0. /\ V1!TypeOK /\ state \in Word1 /\ state.stack \in Waiters \cup {None}
      /\ state.waiters \in Nat /\ state.waiters <= Cardinality(Waiters) /\ Cardinality(Waiters) \in Nat
      /\ state.waiters = Cardinality(V1!Unserved)
  BY TicketTypes, Types1, WordFacts1, WaiterCount DEF IInv1, Tickets
<1>1. CASE UNCHANGED V1!vars BY <1>0, <1>1 DEF V1!vars
<1>d. ASSUME state.waiters > 0, NEW e \in V1!Epochs, NEW x \in Waiters \cup {None}
      PROVE  /\ [state EXCEPT !.waiters = @ - 1, !.epoch = e] \in Word1
             /\ [state EXCEPT !.waiters = @ - 1, !.epoch = e, !.stack = x] \in Word1
  <2>1. PICK k \in Nat : k = state.waiters - 1 /\ k <= Cardinality(Waiters) BY <1>0, <1>d
  <2>2. /\ [state EXCEPT !.waiters = k, !.epoch = e] \in Word1
        /\ [state EXCEPT !.waiters = k, !.epoch = e, !.stack = x] \in Word1 BY <1>0, <2>1, WordMade
  <2> QED BY <2>1, <2>2
<1>2. ASSUME NEW w \in Waiters, Waits1(w) PROVE state' \in Word1
  <2>1. CASE V1!PrepareWait(w)
    <3>1. w \notin V1!Unserved /\ V1!Unserved \cup {w} \subseteq Waiters
      BY <2>1, PrepareWaitWord, AnnouncedFinite DEF Announces1
    <3>2. Cardinality(V1!Unserved \cup {w}) = state.waiters + 1
      BY <1>0, <3>1, AnnouncedFinite, FS_AddElement
    <3>3. state.waiters + 1 <= Cardinality(Waiters) BY <3>1, <3>2, WaiterCount, FS_Subset
    <3>4. state' = [state EXCEPT !.waiters = @ + 1] BY <1>0, <2>1, PrepareWaitEffect1
    <3>5. PICK k \in Nat : k = state.waiters + 1 /\ k <= Cardinality(Waiters) BY <1>0, <3>3
    <3>6. state' = [state EXCEPT !.waiters = k] BY <3>4, <3>5
    <3>7. state.epoch \in V1!Epochs BY TicketTypes
    <3> QED BY <1>0, <3>5, <3>6, <3>7, WordMade
  <2>2. CASE V1!CommitSwap(w) /\ state = seen[w]
    <3>1. state' = [state EXCEPT !.waiters = @ - 1, !.epoch = V1!Advance(@, 1), !.stack = w]
      BY <1>0, <2>2, CommitSwapEffect1
    <3>2. state.waiters > 0 /\ state'.epoch \in V1!Epochs BY <2>2, CommitSwapWord DEF Decides1
    <3>3. state'.epoch = V1!Advance(state.epoch, 1) BY <1>0, <3>1, WordType1
    <3>4. PICK e \in V1!Epochs : e = V1!Advance(state.epoch, 1) BY <3>2, <3>3
    <3>5. state' = [state EXCEPT !.waiters = @ - 1, !.epoch = e, !.stack = w] BY <3>1, <3>4
    <3> QED BY <1>d, <3>2, <3>5
  <2>3. CASE V1!CancelSwap(w) /\ state = seen[w]
    <3>1. state' = [state EXCEPT !.waiters = @ - 1, !.epoch = V1!Advance(@, 1)]
      BY <1>0, <2>3, CancelSwapEffect1
    <3>2. state.waiters > 0 /\ state'.epoch \in V1!Epochs BY <2>3, CancelSwapWord DEF Decides1
    <3>3. state'.epoch = V1!Advance(state.epoch, 1) BY <1>0, <3>1, WordType1
    <3>4. PICK e \in V1!Epochs : e = V1!Advance(state.epoch, 1) BY <3>2, <3>3
    <3>5. state' = [state EXCEPT !.waiters = @ - 1, !.epoch = e] BY <3>1, <3>4
    <3> QED BY <1>0, <1>d, <3>2, <3>5
  <2> QED BY <1>0, <1>2, <2>1, <2>2, <2>3, WaiterStays
<1>3. ASSUME NEW n \in Notifiers, Notifies1(n) PROVE state' \in Word1
  <2>0. epoch' = epoch BY <1>3, NotifierFrame1
  <2>1. CASE V1!NotifySwap(n)
    <3>1. CASE Retry1(n) BY <1>0, <3>1 DEF Retry1
    <3>2. CASE TakesAll1(n)
      <4>1. state'.epoch \in V1!Epochs BY <2>0, <3>2, TakesAllWord DEF Serves1All
      <4>2. state' = [stack |-> None, waiters |-> 0, epoch |-> V1!Advance(state.epoch, state.waiters)]
        BY <3>2 DEF TakesAll1
      <4>3. PICK e \in V1!Epochs : e = V1!Advance(state.epoch, state.waiters) BY <4>1, <4>2
      <4> QED BY <1>0, <4>2, <4>3, WordMade
    <3>3. CASE Pops1(n)
      <4>1. state' = [state EXCEPT !.stack = below[n]] BY <3>3 DEF Pops1
      <4>2. below[n] \in Waiters \cup {None} /\ state.epoch \in V1!Epochs BY <1>0, Types1, TicketTypes
      <4> QED BY <1>0, <4>1, <4>2, WordMade
    <3>4. CASE Serves1(n)
      <4>1. state'.epoch \in V1!Epochs /\ state.waiters > 0 BY <2>0, <3>4, ServesWord DEF Decides1
      <4>2. state' = [state EXCEPT !.waiters = @ - 1, !.epoch = V1!Advance(@, 1)] BY <3>4 DEF Serves1
      <4>3. state'.epoch = V1!Advance(state.epoch, 1) BY <1>0, <4>2, WordType1
      <4>4. PICK e \in V1!Epochs : e = V1!Advance(state.epoch, 1) BY <4>1, <4>3
      <4>5. state' = [state EXCEPT !.waiters = @ - 1, !.epoch = e] BY <4>2, <4>4
      <4> QED BY <1>0, <1>d, <4>1, <4>5
    <3> QED BY <2>1, <3>1, <3>2, <3>3, <3>4, TicketTypes, NotifySwapEffect1 DEF IInv1
  <2>2. CASE ~V1!NotifySwap(n)
    <3>1. state' = state
      BY <1>0, <1>3, <2>2, NotifyBeginEffect1, NotifyReadNextEffect1, UnparkEffect1, WakeEffect1
         DEF Notifies1, IInv1
    <3> QED BY <1>0, <3>1
  <2> QED BY <2>1, <2>2
<1> QED BY <1>1, <1>2, <1>3, NextIs1

LEMMA TypeStep1 == ASSUME IInv1, [V1!Next]_(V1!vars) PROVE V1!TypeOK'
<1>0. /\ V1!TypeOK /\ next \in Linkings /\ epoch \in [Waiters -> V1!Epochs]
      /\ wstate \in [Waiters -> {"notsignaled", "waiting", "signaled"}]
      /\ pc \in [Threads1 -> PCs1] /\ seen \in [Threads1 -> Word1]
      /\ below \in [Notifiers -> Waiters \cup {None}] /\ all \in [Notifiers -> BOOLEAN]
      /\ cur \in [Notifiers -> Waiters \cup {None}] BY TicketTypes, Types1
<1>1. state' \in Word1 BY WordTypeStep
<1>2. CASE UNCHANGED V1!vars BY <1>0, <1>2 DEF V1!vars, V1!TypeOK
<1>g. ASSUME /\ next' \in Linkings /\ epoch' \in [Waiters -> V1!Epochs]
             /\ wstate' \in [Waiters -> {"notsignaled", "waiting", "signaled"}]
             /\ pc' \in [Threads1 -> PCs1] /\ seen' \in [Threads1 -> Word1]
             /\ below' \in [Notifiers -> Waiters \cup {None}] /\ all' \in [Notifiers -> BOOLEAN]
             /\ cur' \in [Notifiers -> Waiters \cup {None}]
      PROVE  V1!TypeOK'
  BY <1>1, <1>g DEF V1!TypeOK, Linkings, PCs1, WaiterPC1, NotifierPC1, Word1, Threads1
<1>3. ASSUME NEW w \in Waiters, Waits1(w) PROVE V1!TypeOK'
  <2>1. pc' \in [Threads1 -> PCs1] /\ seen' \in [Threads1 -> Word1] /\ Kept1
    BY <1>0, <1>3, WaiterFrame1 DEF Goes1, Sees1
  <2>2. epoch' \in [Waiters -> V1!Epochs]
    BY <1>0, <1>3, WaiterFrame1, PrepareWaitWord DEF Announces1
  <2>3. next' \in Linkings
    BY <1>0, <1>3, PrepareWaitEffect1, CommitBeginEffect1, CancelBeginEffect1, SpinEffect1,
       CommitSwapEffect1, CancelSwapEffect1, ParkEffect1, SpuriousEffect1 DEF Waits1
  <2>4. wstate' \in [Waiters -> {"notsignaled", "waiting", "signaled"}]
    BY <1>0, <1>3, PrepareWaitEffect1, CommitBeginEffect1, CancelBeginEffect1, SpinEffect1,
       CommitSwapEffect1, CancelSwapEffect1, ParkEffect1, SpuriousEffect1 DEF Waits1
  <2> QED BY <1>0, <1>g, <2>1, <2>2, <2>3, <2>4 DEF Kept1
<1>4. ASSUME NEW n \in Notifiers, Notifies1(n) PROVE V1!TypeOK'
  <2> USE DEF IInv1
  <2>1. seen' \in [Threads1 -> Word1] /\ epoch' = epoch BY <1>0, <1>4, NotifierFrame1 DEF Sees1
  <2>2. pc' \in [Threads1 -> PCs1]
    <3>1. CASE V1!Wake(n) BY <1>0, <3>1, WakeEffect1
    <3>2. CASE ~V1!Wake(n) BY <1>4, <3>2, NotifierFrame1 DEF Goes1
    <3> QED BY <3>1, <3>2
  <2>3. wstate' \in [Waiters -> {"notsignaled", "waiting", "signaled"}]
    BY <1>0, <1>4, NotifierFrame1, UnparkEffect1
  <2>4. /\ below' \in [Notifiers -> Waiters \cup {None}] /\ all' \in [Notifiers -> BOOLEAN]
        /\ cur' \in [Notifiers -> Waiters \cup {None}]
    BY <1>0, <1>4, NotifyBeginEffect1, NotifyReadNextEffect1, NotifySwapEffect1, UnparkEffect1, WakeEffect1
       DEF Notifies1
  <2>5. next' \in Linkings
    <3>1. CASE V1!NotifySwap(n)
      <4>1. next' = next \/ (state.stack \in Waiters /\ next' = [next EXCEPT ![state.stack] = None])
        BY <1>0, <3>1, NotifySwapEffect1 DEF Retry1, TakesAll1, Pops1, Serves1
      <4> QED BY <1>0, <4>1 DEF Linkings
    <3>2. CASE ~V1!NotifySwap(n)
      BY <1>0, <1>4, <3>2, NotifyBeginEffect1, NotifyReadNextEffect1, UnparkEffect1, WakeEffect1
         DEF Notifies1
    <3> QED BY <3>1, <3>2
  <2> QED BY <1>0, <1>g, <2>1, <2>2, <2>3, <2>4, <2>5
<1> QED BY <1>2, <1>3, <1>4, NextIs1

LEMMA TicketNext ==
    ASSUME V1!TypeOK'
    PROVE  /\ Served' \in Nat /\ state'.waiters \in Nat /\ state'.epoch \in V1!Epochs
           /\ \A w \in Waiters : Ticket(w)' \in Nat /\ epoch'[w] \in V1!Epochs
           /\ \A t \in Threads1 : seen'[t] \in Word1
<1>1. /\ state' \in Word1 /\ epoch' \in [Waiters -> V1!Epochs] /\ seen' \in [Threads1 -> Word1]
  BY DEF V1!TypeOK, Word1, Threads1
<1>2. state'.epoch \in V1!Epochs /\ state'.waiters \in Nat /\ Num(state'.epoch) \in Nat BY <1>1, WordFacts1
<1>3. \A w \in Waiters : Num(epoch'[w]) \in Nat /\ epoch'[w] \in V1!Epochs BY <1>1, NumType
<1> QED BY <1>1, <1>2, <1>3 DEF Served, Ticket

LEMMA UnservedNext ==
    V1!TypeOK' /\ Bounds1' => V1!Unserved' = {w \in V1!Announced' : Served' <= Ticket(w)'}
<1>1. (V1!TypeOK /\ Bounds1 => V1!Unserved = {w \in V1!Announced : Served <= Ticket(w)})'
  BY UnservedIs, PTL
<1> QED BY <1>1

\* The tickets stay dense and distinct when the word, the epochs and the announced
\* waiters change as they do together.
LEMMA TicketsStep == ASSUME IInv1, V1!TypeOK', [V1!Next]_(V1!vars) PROVE Tickets'
<1>0. /\ Served \in Nat /\ state.waiters \in Nat /\ Served + state.waiters <= MaxWaits
      /\ V1!Announced \subseteq Waiters
      /\ \A w \in Waiters : Ticket(w) \in Nat
      /\ \A w \in V1!Announced : Ticket(w) < Served + state.waiters
      /\ \A v, w \in V1!Announced : Served <= Ticket(w) /\ Ticket(v) = Ticket(w) => v = w
      /\ \A i \in Nat : Served <= i /\ i < Served + state.waiters => \E w \in V1!Announced : Ticket(w) = i
      /\ V1!Unserved = {w \in V1!Announced : Served <= Ticket(w)}
      /\ Cardinality(V1!Unserved) = state.waiters /\ IsFiniteSet(V1!Unserved)
      /\ V1!Announced' \subseteq Waiters
  BY TicketTypes, AnnouncedFinite DEF IInv1, Tickets, Bounds1, V1!Announced
<1>1. /\ Served' \in Nat /\ state'.waiters \in Nat
      /\ \A w \in Waiters : Ticket(w)' \in Nat
      /\ \A w \in Waiters : epoch'[w] = epoch[w] => Ticket(w)' = Ticket(w) BY TicketNext DEF Ticket
<1>c. IsFiniteSet(V1!Unserved) /\ Cardinality(V1!Unserved) = state.waiters BY <1>0
<1>g. ASSUME Bounds1',
             \A v, w \in V1!Announced' : Served' <= Ticket(w)' /\ Ticket(v)' = Ticket(w)' => v = w,
             \A i \in Nat : Served' <= i /\ i < Served' + state'.waiters => \E w \in V1!Announced' : Ticket(w)' = i,
             NEW U, U = {w \in V1!Announced' : Served' <= Ticket(w)'}, Cardinality(U) = state'.waiters
      PROVE  Tickets'
  <2>1. V1!Unserved' = U BY <1>g, UnservedNext
  <2> QED BY <1>g, <2>1 DEF Tickets, Bounds1
<1>2. CASE Stays1
  <2>1. /\ Served' = Served /\ state'.waiters = state.waiters /\ \A w \in Waiters : Ticket(w)' = Ticket(w)
        /\ \A v \in V1!Announced' : v \in V1!Announced
        /\ \A v \in V1!Announced : v \in V1!Announced' \/ Ticket(v) < Served
    BY <1>1, <1>2 DEF Stays1, Served
  <2>2. Bounds1' BY <1>0, <2>1 DEF Bounds1
  <2>3. \A v, w \in V1!Announced' : Served' <= Ticket(w)' /\ Ticket(v)' = Ticket(w)' => v = w
    BY <1>0, <2>1
  <2>4. ASSUME NEW i \in Nat, Served' <= i, i < Served' + state'.waiters PROVE \E w \in V1!Announced' : Ticket(w)' = i
    <3>1. PICK w \in V1!Announced : Ticket(w) = i BY <1>0, <2>1, <2>4
    <3> QED BY <1>0, <2>1, <2>4, <3>1
  <2>5. V1!Unserved = {w \in V1!Announced' : Served' <= Ticket(w)'} BY <1>0, <2>1
  <2> QED BY <1>0, <1>g, <2>1, <2>2, <2>3, <2>4, <2>5
<1>3. ASSUME NEW w \in Waiters, Announces1(w) PROVE Tickets'
  <2>t. \A v \in Waiters \ {w} : Ticket(v)' = Ticket(v) BY <1>1, <1>3 DEF Announces1, At1
  <2>1. /\ Served' = Served /\ state'.waiters = state.waiters + 1 /\ w \notin V1!Announced
        /\ V1!Announced' = V1!Announced \cup {w} /\ Ticket(w)' = Served + state.waiters
        /\ \A v \in Waiters \ {w} : Ticket(v)' = Ticket(v)
        /\ Served + state.waiters < MaxWaits
    <3>1. /\ state'.waiters = state.waiters + 1 /\ w \notin V1!Announced
          /\ V1!Announced' = V1!Announced \cup {w} /\ Served + state.waiters < MaxWaits
      BY <1>3 DEF Announces1
    <3>2. Served' = Served BY <1>3 DEF Announces1, Served
    <3>3. Ticket(w)' = Served + state.waiters BY <1>3 DEF Announces1, Ticket
    <3> QED BY <2>t, <3>1, <3>2, <3>3
  <2>2. Bounds1'
    <3>1. Served' + state'.waiters <= MaxWaits BY <1>0, <2>1, Sizes
    <3>2. ASSUME NEW v \in V1!Announced' PROVE Ticket(v)' < Served' + state'.waiters
      <4>1. v = w \/ (v \in V1!Announced /\ v # w) BY <2>1, <3>2
      <4>2. CASE v = w BY <1>0, <2>1, <4>2
      <4>3. CASE v \in V1!Announced /\ v # w BY <1>0, <2>1, <4>3
      <4> QED BY <4>1, <4>2, <4>3
    <3> QED BY <3>1, <3>2 DEF Bounds1
  <2>3. ASSUME NEW u \in V1!Announced', NEW v \in V1!Announced', Served' <= Ticket(v)', Ticket(u)' = Ticket(v)'
        PROVE  u = v
    <3>1. ASSUME NEW x \in V1!Announced PROVE Ticket(x)' = Ticket(x) /\ Ticket(x) < Ticket(w)' BY <1>0, <2>1
    <3> QED BY <1>0, <2>1, <2>3, <3>1
  <2>4. ASSUME NEW i \in Nat, Served' <= i, i < Served' + state'.waiters PROVE \E v \in V1!Announced' : Ticket(v)' = i
    <3>1. CASE i = Served + state.waiters BY <2>1, <3>1
    <3>2. CASE i < Served + state.waiters
      <4>1. PICK v \in V1!Announced : Ticket(v) = i BY <1>0, <2>1, <2>4, <3>2
      <4> QED BY <1>0, <2>1, <4>1
    <3> QED BY <1>0, <2>1, <2>4, <3>1, <3>2
  <2>5. V1!Unserved \cup {w} = {v \in V1!Announced' : Served' <= Ticket(v)'} BY <1>0, <2>1
  <2>6. Cardinality(V1!Unserved \cup {w}) = state'.waiters
    <3>1. w \notin V1!Unserved BY <1>0, <2>1
    <3> QED BY <1>c, <2>1, <3>1, FS_AddElement
  <2> QED BY <1>g, <2>2, <2>3, <2>4, <2>5, <2>6
<1>4. ASSUME NEW w \in Waiters, Decides1(w) PROVE Tickets'
  <2>1. /\ Served' = Served + 1 /\ state'.waiters = state.waiters - 1 /\ state.waiters > 0
        /\ w \in V1!Announced /\ Ticket(w) = Served /\ \A v \in Waiters : Ticket(v)' = Ticket(v)
        /\ V1!Announced' \in {V1!Announced, V1!Announced \ {w}} BY <1>1, <1>4 DEF Decides1, Served
  <2>2. Bounds1' BY <1>0, <2>1 DEF Bounds1
  <2>3. \A u, v \in V1!Announced' : Served' <= Ticket(v)' /\ Ticket(u)' = Ticket(v)' => u = v
    BY <1>0, <2>1
  <2>4. ASSUME NEW i \in Nat, Served' <= i, i < Served' + state'.waiters PROVE \E v \in V1!Announced' : Ticket(v)' = i
    <3>1. PICK v \in V1!Announced : Ticket(v) = i BY <1>0, <2>1, <2>4
    <3> QED BY <1>0, <2>1, <2>4, <3>1
  <2>5. V1!Unserved \ {w} = {v \in V1!Announced' : Served' <= Ticket(v)'}
    <3>1. ASSUME NEW v \in V1!Unserved \ {w} PROVE v \in V1!Announced' /\ Served' <= Ticket(v)'
      <4>1. v \in V1!Announced /\ v # w /\ Served <= Ticket(v) BY <1>0, <3>1
      <4>2. Ticket(v) # Served BY <1>0, <2>1, <4>1
      <4> QED BY <1>0, <2>1, <4>1, <4>2
    <3>2. ASSUME NEW v \in V1!Announced', Served' <= Ticket(v)' PROVE v \in V1!Unserved \ {w}
      BY <1>0, <2>1, <3>2
    <3> QED BY <3>1, <3>2
  <2>6. Cardinality(V1!Unserved \ {w}) = state'.waiters
    <3>1. w \in V1!Unserved BY <1>0, <2>1
    <3> QED BY <1>c, <2>1, <3>1, FS_RemoveElement
  <2> QED BY <1>g, <2>2, <2>3, <2>4, <2>5, <2>6
<1>5. CASE Serves1All
  <2>1. /\ Served' = Served + state.waiters /\ state'.waiters = 0 /\ V1!Announced' = V1!Announced
        /\ \A v \in Waiters : Ticket(v)' = Ticket(v) BY <1>1, <1>5 DEF Serves1All, Served
  <2>2. Bounds1' BY <1>0, <2>1 DEF Bounds1
  <2>3. ASSUME NEW v \in V1!Announced' PROVE ~(Served' <= Ticket(v)') BY <1>0, <2>1
  <2>4. \A i \in Nat : ~(Served' <= i /\ i < Served' + state'.waiters) BY <1>1, <2>1
  <2>5. {} = {v \in V1!Announced' : Served' <= Ticket(v)'} BY <2>3
  <2> QED BY <1>g, <2>1, <2>2, <2>3, <2>4, <2>5, FS_EmptySet
<1> QED BY <1>2, <1>3, <1>4, <1>5, WordStep1

LEMMA ServedStep ==
    ASSUME IInv1, V1!TypeOK', [V1!Next]_(V1!vars)
    PROVE  Served <= Served'
<1>0. Served \in Nat /\ state.waiters \in Nat BY TicketTypes
<1> QED BY <1>0, WordStep1 DEF Stays1, Announces1, Decides1, Serves1All, Served

\* Whose copy of the word changes: the thread that steps loads the word or clears it.
Copier(t) ==
    /\ \A u \in Threads1 \ {t} : seen'[u] = seen[u] /\ (pc'[u] \in Deciding => pc[u] \in Deciding)
    /\ pc'[t] \in Deciding => \/ seen'[t] = state
                              \/ seen'[t] = seen[t] /\ pc[t] \in Deciding

LEMMA WaiterCopies ==
    ASSUME IInv1, NEW w \in Waiters, Waits1(w)
    PROVE  Copier(w)
<1> USE TicketTypes
<1>1. \A u \in Threads1 \ {w} : seen'[u] = seen[u] /\ pc'[u] = pc[u]
  <2>1. \A u \in Threads1 : u \in Waiters \/ u \in Notifiers BY Threads1Facts
  <2> QED BY <2>1, WaiterFrame1
<1>2. pc'[w] \in Deciding => seen'[w] = state \/ (seen'[w] = seen[w] /\ pc[w] \in Deciding)
  <2>1. CASE V1!PrepareWait(w) BY <2>1, PrepareWaitEffect1 DEF Goes1, Deciding
  <2>2. CASE V1!CommitBegin(w) BY <2>2, CommitBeginEffect1 DEF Sees1
  <2>3. CASE V1!CancelBegin(w) BY <2>3, CancelBeginEffect1 DEF Sees1
  <2>4. CASE V1!Spin(w) BY <2>4, SpinEffect1 DEF Goes1, Sees1, Deciding
  <2>5. CASE V1!CommitSwap(w) BY <2>5, CommitSwapEffect1 DEF Goes1, Sees1, Deciding
  <2>6. CASE V1!CancelSwap(w) BY <2>6, CancelSwapEffect1 DEF Goes1, Sees1, Deciding
  <2>7. CASE V1!Park(w) BY <2>7, ParkEffect1 DEF Goes1, Deciding
  <2>8. CASE V1!SpuriousWakeup(w) BY <2>8, SpuriousEffect1 DEF Goes1, Deciding
  <2> QED BY <2>1, <2>2, <2>3, <2>4, <2>5, <2>6, <2>7, <2>8 DEF Waits1
<1> QED BY <1>1, <1>2 DEF Copier

LEMMA NotifierCopies ==
    ASSUME IInv1, NEW n \in Notifiers, Notifies1(n)
    PROVE  Copier(n)
<1> USE TicketTypes DEF IInv1
<1>0. \A u \in Threads1 : u \in Waiters \/ u \in Notifiers BY Threads1Facts
<1>1. \A u \in Threads1 \ {n} : seen'[u] = seen[u] BY <1>0, NotifierFrame1
<1>2. \A u \in Threads1 \ {n} : pc'[u] \in Deciding => pc[u] \in Deciding
  <2>1. CASE V1!Wake(n)
    <3>1. PICK w \in Waiters : w = cur[n] BY <2>1, WakeEffect1
    <3>2. pc'[w] = (IF pc[w] = "blocked" THEN "park" ELSE pc[w]) BY <2>1, <3>1, WakeEffect1
    <3>3. \A t \in Threads1 \ {n, w} : pc'[t] = pc[t] BY <2>1, <3>1, WakeEffect1
    <3> QED BY <3>2, <3>3 DEF Deciding
  <2>2. CASE ~V1!Wake(n) BY <1>0, <2>2, NotifierFrame1 DEF Goes1
  <2> QED BY <2>1, <2>2
<1>b. \A a \in BOOLEAN : V1!NobodyWaits => BranchTo1(a) \notin Deciding BY DEF BranchTo1, Deciding
<1>3. pc'[n] \in Deciding => seen'[n] = state \/ (seen'[n] = seen[n] /\ pc[n] \in Deciding)
  <2>1. CASE V1!NotifyBegin(n)
    <3>1. PICK a \in BOOLEAN : Goes1(n, BranchTo1(a)) /\ Sees1(n, IF V1!NobodyWaits THEN V1!NoWord ELSE state)
      BY <2>1, NotifyBeginEffect1
    <3> QED BY <1>b, <3>1 DEF Goes1, Sees1
  <2>2. CASE V1!NotifyReadNext(n) BY <2>2, NotifyReadNextEffect1 DEF Deciding
  <2>3. CASE V1!NotifySwap(n)
    <3>1. CASE Retry1(n)
      <4>1. all[n] \in BOOLEAN BY Types1
      <4> QED BY <1>b, <3>1, <4>1 DEF Retry1, Goes1, Sees1
    <3>2. CASE ~Retry1(n)
      <4>1. pc'[n] \in {"idle", "unpark"}
        BY <2>3, <3>2, NotifySwapEffect1 DEF Goes1, TakesAll1, Pops1, Serves1
      <4> QED BY <4>1 DEF Deciding
    <3> QED BY <3>1, <3>2
  <2>4. CASE V1!Unpark(n)
    <3>1. pc'[n] \in {"idle", "unpark", "wake"} BY <2>4, UnparkEffect1 DEF Goes1
    <3> QED BY <3>1 DEF Deciding
  <2>5. CASE V1!Wake(n)
    <3>1. pc'[n] \in {"idle", "unpark"} BY <2>5, WakeEffect1
    <3> QED BY <3>1 DEF Deciding
  <2> QED BY <2>1, <2>2, <2>3, <2>4, <2>5 DEF Notifies1
<1> QED BY <1>1, <1>2, <1>3 DEF Copier

LEMMA CopiesStep == ASSUME IInv1, V1!TypeOK', [V1!Next]_(V1!vars) PROVE Copies'
<1>0. /\ Served \in Nat /\ Served' \in Nat /\ Served <= Served'
      /\ \A t \in Threads1 : pc[t] \in Deciding => Num(seen[t].epoch) <= Served
      /\ \A t \in Threads1 : Num(seen[t].epoch) \in Nat
  <2>1. \A t \in Threads1 : seen[t] \in Word1 BY TicketTypes, Types1
  <2> QED BY <2>1, TicketTypes, TicketNext, ServedStep, WordFacts1 DEF IInv1, Copies, Threads1
<1>1. CASE UNCHANGED V1!vars BY <1>1 DEF V1!vars, IInv1, Copies, Served
<1>2. ASSUME NEW t \in Threads1, Copier(t) PROVE Copies'
  <2>1. ASSUME NEW u \in Threads1, pc'[u] \in Deciding PROVE Num(seen'[u].epoch) <= Served'
    <3>1. CASE u # t BY <1>0, <1>2, <2>1, <3>1 DEF Copier
    <3>2. CASE u = t /\ seen'[t] = state BY <1>0, <3>2 DEF Served
    <3>3. CASE u = t /\ seen'[t] = seen[t] /\ pc[t] \in Deciding BY <1>0, <3>3
    <3> QED BY <1>2, <2>1, <3>1, <3>2, <3>3 DEF Copier
  <2> QED BY <2>1 DEF Copies, Threads1
<1>3. \A t \in Waiters \cup Notifiers : t \in Threads1 BY Threads1Facts
<1> QED BY <1>1, <1>2, <1>3, NextIs1, WaiterCopies, NotifierCopies

LEMMA PlacesStep1 == ASSUME IInv1, V1!TypeOK', [V1!Next]_(V1!vars) PROVE Places1'
<1> USE TicketTypes DEF IInv1
<1>u. CASE UNCHANGED V1!vars BY <1>u DEF V1!vars, Places1, V1!Pops
<1>w. ASSUME NEW w \in Waiters, Waits1(w) PROVE Places1'
  <2>1. pc'[w] \in WaiterPC1
    <3>1. CASE V1!Spin(w) BY <3>1, SpinEffect1 DEF Goes1, WaiterPC1
    <3>2. CASE V1!CommitSwap(w) \/ V1!CancelSwap(w) \/ V1!Park(w)
      BY <3>2, CommitSwapEffect1, CancelSwapEffect1, ParkEffect1 DEF Goes1, WaiterPC1
    <3>3. CASE V1!PrepareWait(w) \/ V1!CommitBegin(w) \/ V1!CancelBegin(w) \/ V1!SpuriousWakeup(w)
      BY <3>3, PrepareWaitEffect1, CommitBeginEffect1, CancelBeginEffect1, SpuriousEffect1
         DEF Goes1, WaiterPC1
    <3> QED BY <1>w, <3>1, <3>2, <3>3 DEF Waits1
  <2>2. /\ \A v \in Waiters \ {w} : pc'[v] = pc[v]
        /\ \A n \in Notifiers : pc'[n] = pc[n] /\ seen'[n] = seen[n]
        /\ UNCHANGED <<cur, all>> BY <1>w, WaiterFrame1 DEF Kept1
  <2> QED BY <2>1, <2>2 DEF Places1, V1!Pops
<1>n. ASSUME NEW n \in Notifiers, Notifies1(n) PROVE Places1'
  <2> DEFINE OK(m) ==
        /\ pc'[m] \in NotifierPC1
        /\ pc'[m] \in {"unpark", "wake"} => cur'[m] \in Waiters
        /\ pc'[m] = "next" => V1!Pops(m)'
        /\ pc'[m] \in {"next", "swap"} /\ V1!Pops(m)' => seen'[m].stack \in Waiters
  <2>0. state.waiters \in Nat /\ state.stack \in Waiters \cup {None} BY Types1, WordFacts1
  <2>1. ASSUME NEW a \in BOOLEAN, Goes1(n, BranchTo1(a)), Sees1(n, IF V1!NobodyWaits THEN V1!NoWord ELSE state),
               V1!NobodyWaits \/ all'[n] = a
        PROVE  OK(n)
    <3>1. CASE V1!NobodyWaits BY <3>1, <2>1 DEF Goes1, BranchTo1, NotifierPC1
    <3>2. CASE ~V1!NobodyWaits /\ (a \/ state.waiters > 0)
      <4>1. pc'[n] = "swap" /\ seen'[n] = state /\ all'[n] = a BY <3>2, <2>1 DEF Goes1, Sees1, BranchTo1
      <4>2. ~V1!Pops(n)' BY <3>2, <4>1, <2>0 DEF V1!Pops
      <4> QED BY <4>1, <4>2 DEF NotifierPC1
    <3>3. CASE ~V1!NobodyWaits /\ ~(a \/ state.waiters > 0)
      <4>1. pc'[n] = "next" /\ seen'[n] = state /\ all'[n] = a BY <3>3, <2>1 DEF Goes1, Sees1, BranchTo1
      <4>2. state.waiters = 0 /\ state.stack \in Waiters BY <3>3, <2>0 DEF V1!NobodyWaits
      <4>3. V1!Pops(n)' BY <3>3, <4>1, <4>2 DEF V1!Pops
      <4> QED BY <4>1, <4>2, <4>3 DEF NotifierPC1
    <3> QED BY <3>1, <3>2, <3>3
  <2>3. OK(n)
    <3>1. CASE V1!NotifyBegin(n)
      <4>1. PICK a \in BOOLEAN : /\ At2(all', all, n, a /\ ~V1!NobodyWaits)
                                 /\ Goes1(n, BranchTo1(a)) /\ Sees1(n, IF V1!NobodyWaits THEN V1!NoWord ELSE state)
        BY <3>1, NotifyBeginEffect1
      <4>2. V1!NobodyWaits \/ all'[n] = a BY <4>1 DEF At2
      <4> HIDE DEF OK
      <4> QED BY <4>1, <4>2, <2>1
    <3>2. CASE V1!NotifyReadNext(n) BY <3>2, NotifyReadNextEffect1 DEF Goes1, NotifierPC1, V1!Pops
    <3>3. CASE V1!NotifySwap(n)
      <4>1. CASE Retry1(n)
        <5>1. all[n] \in BOOLEAN /\ all' = all BY <3>3, Types1, NotifySwapEffect1
        <5> HIDE DEF OK
        <5> QED BY <4>1, <5>1, <2>1 DEF Retry1
      <4>2. CASE TakesAll1(n) BY <4>2, <2>0 DEF Goes1, At2, NotifierPC1, TakesAll1
      <4>3. CASE Pops1(n) BY <4>3 DEF Goes1, At2, NotifierPC1, Pops1
      <4>4. CASE Serves1(n) BY <4>4 DEF Goes1, NotifierPC1, Serves1
      <4> QED BY <3>3, <4>1, <4>2, <4>3, <4>4, NotifySwapEffect1
    <3>4. CASE V1!Unpark(n)
      <4>1. next[cur[n]] \in Waiters \cup {None} BY <3>4, Types1, UnparkEffect1 DEF Linkings
      <4> QED BY <4>1, <3>4, UnparkEffect1 DEF Goes1, At2, NotifierPC1
    <3>5. CASE V1!Wake(n) BY <3>5, WakeEffect1 DEF At2, NotifierPC1
    <3> QED BY <1>n, <3>1, <3>2, <3>3, <3>4, <3>5 DEF Notifies1
  <2>4. ASSUME NEW m \in Notifiers \ {n} PROVE OK(m)
    <3>1. pc'[m] = pc[m] /\ all'[m] = all[m] /\ cur'[m] = cur[m] /\ seen'[m] = seen[m]
      BY <1>n, NotifierFrame1
    <3> QED BY <3>1 DEF Places1, V1!Pops
  <2>5. \A w \in Waiters : pc'[w] \in WaiterPC1
    <3>1. CASE V1!Wake(n)
      <4>1. ASSUME NEW w \in Waiters PROVE pc'[w] \in WaiterPC1
        <5>1. CASE w = cur[n] BY <5>1, <3>1, WakeEffect1 DEF Places1, WaiterPC1
        <5>2. CASE w # cur[n] BY <5>2, <3>1, Threads1Facts, WakeEffect1 DEF Places1
        <5> QED BY <5>1, <5>2
      <4> QED BY <4>1
    <3>2. CASE ~V1!Wake(n) BY <1>n, <3>2, NotifierFrame1 DEF Places1
    <3> QED BY <3>1, <3>2
  <2>6. \A m \in Notifiers : OK(m) BY <2>3, <2>4
  <2> QED BY <2>5, <2>6 DEF Places1
<1> QED BY <1>u, <1>w, <1>n, NextIs1

----------------------------------------------------------------------------
(* The lists *)

LEMMA Chains1 ==
    /\ \A w : V1!Chain(w) = Reach(next, w)
    /\ V1!Stacked = Reach(next, state.stack)
    /\ \A n \in Notifiers : V1!Taken(n) = Reach(next, Start1(n))
  BY DEF V1!Chain, Reach, V1!Stacked, V1!Taken, Start1

LEMMA ChainsNext1 ==
    /\ V1!Stacked' = Reach(next', state'.stack)
    /\ \A n \in Notifiers : V1!Taken(n)' = Reach(next', Start1(n)')
  BY DEF V1!Chain, Reach, V1!Stacked, V1!Taken, Start1

LEMMA ListTypes1 ==
    ASSUME V1!TypeOK
    PROVE  /\ next \in Linkings
           /\ Tops1 \in Heads(Owners)
           /\ Linked \in SUBSET Waiters
           /\ Tops1[WordOwner] = state.stack
           /\ \A n \in Notifiers : n \in Owners /\ n # WordOwner /\ Tops1[n] = Start1(n)
           /\ V1!Stacked = Reach(next, Tops1[WordOwner])
           /\ \A n \in Notifiers : V1!Taken(n) = Reach(next, Tops1[n])
<1>0. next \in Linkings /\ state.stack \in Waiters \cup {None} BY Types1, WordFacts1
<1>2. ASSUME NEW n \in Notifiers PROVE Start1(n) \in Waiters \cup {None} BY Types1 DEF Start1
<1>3. Tops1 \in Heads(Owners) BY <1>0, <1>2 DEF Tops1, Heads, Owners
<1>4. Tops1[WordOwner] = state.stack /\ \A n \in Notifiers : n \in Owners /\ n # WordOwner /\ Tops1[n] = Start1(n)
  BY WordOwnerNew DEF Tops1, Owners
<1> QED BY <1>0, <1>3, <1>4, Chains1 DEF Linked

ListsKept1 == Lists1' /\ V1!Stacked' = V1!Stacked /\ \A n \in Notifiers : V1!Taken(n)' = V1!Taken(n)

LEMMA KeepLists1 ==
    ASSUME V1!TypeOK, V1!TypeOK', Lists1, state'.stack = state.stack,
           \A n \in Notifiers : Start1(n)' = Start1(n),
           Linked' = Linked, \A v \in Linked : next'[v] = next[v]
    PROVE  ListsKept1
<1>1. Tops1' = Tops1 BY DEF Tops1
<1>2. next \in Linkings /\ Tops1 \in Heads(Owners) /\ Linked \in SUBSET Waiters BY ListTypes1
<1>3. next' \in Linkings BY DEF V1!TypeOK, Linkings
<1>5. PICK f \in Linkings : f = next BY <1>2
<1>6. PICK g \in Linkings : g = next' BY <1>3
<1>7. Partition(f, Owners, Tops1, Linked) BY <1>5 DEF Lists1
<1>4. \A v \in Linked : g[v] = f[v] BY <1>5, <1>6
<1>8. Partition(g, Owners, Tops1, Linked) /\ \A i \in Owners : Reach(g, Tops1[i]) = Reach(f, Tops1[i])
  BY <1>2, <1>4, <1>7, PartitionSame
<1>9. Lists1' BY <1>1, <1>6, <1>8 DEF Lists1
<1>10. WordOwner \in Owners /\ Tops1[WordOwner] = state.stack
       /\ \A n \in Notifiers : n \in Owners /\ Tops1[n] = Start1(n) BY WordOwnerNew, ListTypes1
<1>11. V1!Stacked' = Reach(g, Tops1[WordOwner]) /\ V1!Stacked = Reach(f, Tops1[WordOwner])
  BY <1>5, <1>6, <1>10, Chains1, ChainsNext1
<1>12. \A n \in Notifiers : V1!Taken(n)' = Reach(g, Tops1[n]) /\ V1!Taken(n) = Reach(f, Tops1[n])
  BY <1>5, <1>6, <1>10, Chains1, ChainsNext1
<1> QED BY <1>8, <1>9, <1>10, <1>11, <1>12 DEF ListsKept1

LEMMA StartKept1 ==
    ASSUME NEW n \in Notifiers, Start1(n)' = Start1(n),
           \A m \in Notifiers \ {n} : pc'[m] = pc[m] /\ cur'[m] = cur[m] /\ below'[m] = below[m]
    PROVE  \A m \in Notifiers : Start1(m)' = Start1(m)
<1> SUFFICES ASSUME NEW m \in Notifiers \ {n} PROVE Start1(m)' = Start1(m) OBVIOUS
<1> QED BY DEF Start1

LEMMA WaiterLists1 ==
    ASSUME IInv1, V1!TypeOK', NEW w \in Waiters, Waits1(w), ~(V1!CommitSwap(w) /\ state = seen[w])
    PROVE  ListsKept1
<1> USE TicketTypes DEF IInv1
<1>1. (\A v \in Waiters \ {w} : pc'[v] = pc[v] /\ wstate'[v] = wstate[v]) /\ \A n \in Notifiers : pc'[n] = pc[n]
  BY WaiterFrame1
<1>3. \A n \in Notifiers : Start1(n)' = Start1(n) BY <1>1, WaiterFrame1 DEF Start1, Kept1
<1>5. state'.stack = state.stack
  <2>1. CASE V1!PrepareWait(w)
    <3>1. state \in Word1 BY Types1
    <3> QED BY <2>1, <3>1, PrepareWaitEffect1, WordType1
  <2>2. CASE V1!CancelSwap(w) /\ state = seen[w] BY <2>2, CancelSwapWord
  <2>3. CASE ~V1!PrepareWait(w) /\ ~(V1!CancelSwap(w) /\ state = seen[w])
    <3>1. state' = state BY <2>3, WaiterStays
    <3> QED BY <3>1
  <2> QED BY <2>1, <2>2, <2>3
<1>6. Linked' = Linked
  <2>1. CASE V1!Park(w)
    <3>1. \/ /\ wstate[w] = "signaled" /\ Goes1(w, "out") /\ UNCHANGED wstate /\ pc[w] = "park"
          \/ /\ wstate[w] # "signaled" /\ Goes1(w, "blocked") /\ wstate'[w] = "waiting" /\ pc[w] = "park"
      BY <2>1, ParkEffect1 DEF At1
    <3> QED BY <3>1, <1>1 DEF Linked, Asleep, Goes1
  <2>2. CASE V1!SpuriousWakeup(w)
    <3>1. pc[w] = "blocked" /\ pc'[w] = "park" /\ wstate' = wstate BY <2>2, SpuriousEffect1 DEF Goes1
    <3> QED BY <3>1, <1>1 DEF Linked, Asleep
  <2>3. CASE ~V1!Park(w) /\ ~V1!SpuriousWakeup(w)
    <3>1. ~Asleep(w) /\ ~Asleep(w)'
      <4>1. CASE V1!PrepareWait(w) BY <4>1, PrepareWaitEffect1 DEF Goes1, Asleep
      <4>2. CASE V1!CommitBegin(w) BY <4>2, CommitBeginEffect1 DEF Goes1, Asleep
      <4>3. CASE V1!CancelBegin(w) BY <4>3, CancelBeginEffect1 DEF Goes1, Asleep
      <4>4. CASE V1!Spin(w) BY <4>4, SpinEffect1 DEF Goes1, Asleep
      <4>5. CASE V1!CommitSwap(w)
        <5>1. pc[w] = "push" /\ pc'[w] = "commit" BY <4>5, CommitSwapEffect1 DEF Goes1
        <5> QED BY <5>1 DEF Asleep
      <4>6. CASE V1!CancelSwap(w) BY <4>6, CancelSwapEffect1 DEF Goes1, Asleep
      <4> QED BY <2>3, <4>1, <4>2, <4>3, <4>4, <4>5, <4>6 DEF Waits1
    <3> QED BY <3>1, <1>1, LinkedKept DEF Linked
  <2> QED BY <2>1, <2>2, <2>3
<1>7. \A v \in Linked : next'[v] = next[v]
  <2>1. CASE V1!Spin(w)
    <3>1. w \notin Linked BY <2>1, SpinEffect1 DEF Linked, Asleep
    <3> QED BY <3>1, WaiterFrame1 DEF Linked
  <2>2. CASE ~V1!Spin(w) BY <2>2, PrepareWaitEffect1, CommitBeginEffect1, CancelBeginEffect1,
       CommitSwapEffect1, CancelSwapEffect1, ParkEffect1, SpuriousEffect1 DEF Waits1
  <2> QED BY <2>1, <2>2
<1> QED BY <1>3, <1>5, <1>6, <1>7, KeepLists1

\* A waiter that goes to sleep is on top of the stack then.
LEMMA PushLists1 ==
    ASSUME IInv1, V1!TypeOK', NEW w \in Waiters, V1!CommitSwap(w), state = seen[w]
    PROVE  /\ Lists1' /\ V1!Stacked' = V1!Stacked \cup {w} /\ w \notin Linked
           /\ \A n \in Notifiers : V1!Taken(n)' = V1!Taken(n)
           /\ next' = next
<1>0. V1!TypeOK /\ Lists1 BY TicketTypes DEF IInv1
<1>1. pc[w] = "push" /\ Goes1(w, "park") /\ UNCHANGED <<next, wstate, below, all, cur>>
  BY <1>0, CommitSwapEffect1 DEF Kept1
<1>2. wstate[w] = "notsignaled" /\ next[w] = state.stack /\ state'.stack = w BY CommitSwapWord
<1>5. (\A v \in Waiters \ {w} : pc'[v] = pc[v]) /\ \A n \in Notifiers : pc'[n] = pc[n]
  BY <1>0, WaiterFrame1 DEF Waits1
<1>7. Linked' = Linked \cup {w} /\ w \notin Linked BY <1>0, <1>1, <1>2, <1>5, Types1 DEF Linked, Asleep, Goes1
<1>8. \A n \in Notifiers : Start1(n)' = Start1(n) BY <1>1, <1>5 DEF Start1
<1>9. /\ next \in Linkings /\ Tops1 \in Heads(Owners) /\ Linked \in SUBSET Waiters
      /\ Tops1[WordOwner] = state.stack
      /\ \A n \in Notifiers : n \in Owners /\ n # WordOwner /\ Tops1[n] = Start1(n)
  BY <1>0, ListTypes1
<1>10. Tops1' = [Tops1 EXCEPT ![WordOwner] = w] BY <1>2, <1>8, <1>9, WordOwnerNew DEF Tops1, Owners
<1>13. PICK f \in Linkings : f = next BY <1>9
<1>14. PICK h \in Heads(Owners) : h = Tops1 BY <1>9
<1>15. /\ Partition(f, Owners, [h EXCEPT ![WordOwner] = w], Linked \cup {w})
       /\ Reach(f, w) = Reach(f, h[WordOwner]) \cup {w}
  <2>1. Partition(f, Owners, h, Linked) /\ f[w] = h[WordOwner] BY <1>0, <1>2, <1>9, <1>13, <1>14 DEF Lists1
  <2>2. Linked \in SUBSET Waiters /\ w \notin Linked /\ WordOwner \in Owners BY <1>7, <1>9, WordOwnerNew
  <2>3. PICK A \in SUBSET Waiters : A = Linked BY <2>2
  <2>4. PICK i \in Owners : i = WordOwner BY <2>2
  <2>5. Partition(f, Owners, h, A) /\ w \notin A /\ f[w] = h[i] BY <2>1, <2>2, <2>3, <2>4
  <2>6. /\ Partition(f, Owners, [h EXCEPT ![i] = w], A \cup {w})
        /\ Reach(f, w) = Reach(f, h[i]) \cup {w} BY <2>5, PartitionPush
  <2> QED BY <2>3, <2>4, <2>6
<1>16. Lists1' BY <1>1, <1>7, <1>10, <1>13, <1>14, <1>15 DEF Lists1
<1>17. V1!Stacked' = Reach(f, w) /\ V1!Stacked = Reach(f, h[WordOwner])
  BY <1>1, <1>2, <1>9, <1>13, <1>14, Chains1, ChainsNext1
<1>18. \A n \in Notifiers : V1!Taken(n)' = V1!Taken(n) BY <1>1, <1>8, Chains1, ChainsNext1
<1> QED BY <1>1, <1>7, <1>15, <1>16, <1>17, <1>18

\* The fields of one notifier change, and its place to one without a list.
LEMMA NotifierKeeps1 ==
    ASSUME IInv1, V1!TypeOK', NEW n \in Notifiers, Start1(n) = None, Start1(n)' = None,
           \A t \in Threads1 \ {n} : pc'[t] = pc[t],
           \A m \in Notifiers \ {n} : cur'[m] = cur[m] /\ below'[m] = below[m],
           UNCHANGED <<next, wstate>>, state'.stack = state.stack
    PROVE  ListsKept1
<1> USE TicketTypes DEF IInv1
<1>1. \A w \in Waiters : pc'[w] = pc[w] BY Threads1Facts
<1>2. Linked' = Linked BY <1>1 DEF Linked, Asleep
<1>3. \A m \in Notifiers \ {n} : pc'[m] = pc[m] BY Threads1Facts
<1>4. \A m \in Notifiers : Start1(m)' = Start1(m) BY <1>3, StartKept1
<1> QED BY <1>2, <1>4, KeepLists1

LEMMA NotifierLists1 ==
    ASSUME IInv1, V1!TypeOK', NEW n \in Notifiers,
           \/ V1!NotifyBegin(n) \/ V1!NotifyReadNext(n)
           \/ V1!NotifySwap(n) /\ (Retry1(n) \/ Serves1(n))
    PROVE  ListsKept1
<1> USE TicketTypes DEF IInv1
<1>f. ASSUME NEW l, Goes1(n, l) PROVE \A t \in Threads1 \ {n} : pc'[t] = pc[t] BY <1>f DEF Goes1
<1>b. \A a \in BOOLEAN : BranchTo1(a) \in {"idle", "swap", "next"} BY DEF BranchTo1
<1>1. CASE V1!NotifyBegin(n)
  <2>1. PICK a \in BOOLEAN : Goes1(n, BranchTo1(a)) /\ pc[n] = "idle" BY <1>1, NotifyBeginEffect1
  <2>2. Start1(n) = None /\ Start1(n)' = None BY <2>1, <1>b DEF Start1, Goes1
  <2>3. UNCHANGED <<state, next, epoch, wstate, below, cur>> BY <1>1, NotifyBeginEffect1
  <2> QED BY <1>f, <2>1, <2>2, <2>3, NotifierKeeps1
<1>2. CASE V1!NotifyReadNext(n)
  <2>1. Start1(n) = None /\ Start1(n)' = None BY <1>2, NotifyReadNextEffect1 DEF Start1, Goes1
  <2>2. /\ \A m \in Notifiers \ {n} : cur'[m] = cur[m] /\ below'[m] = below[m]
        /\ UNCHANGED <<state, next, wstate>> /\ Goes1(n, "swap")
    BY <1>2, NotifyReadNextEffect1 DEF At2
  <2> QED BY <1>f, <2>1, <2>2, NotifierKeeps1
<1>3. CASE V1!NotifySwap(n) /\ (Retry1(n) \/ Serves1(n))
  <2>1. /\ pc[n] = "swap" /\ UNCHANGED <<epoch, wstate>>
        /\ \A m \in Notifiers \ {n} : below'[m] = below[m] BY <1>3, NotifySwapEffect1 DEF At2
  <2>2. CASE Retry1(n)
    <3>1. all[n] \in BOOLEAN BY Types1
    <3>2. Goes1(n, BranchTo1(all[n])) /\ UNCHANGED <<state, cur, next>> BY <2>2 DEF Retry1
    <3>3. Start1(n) = None /\ Start1(n)' = None BY <1>b, <2>1, <3>1, <3>2 DEF Start1, Goes1
    <3> QED BY <1>f, <2>1, <3>2, <3>3, NotifierKeeps1
  <2>3. CASE Serves1(n)
    <3>1. Goes1(n, "idle") /\ next' = next /\ \A m \in Notifiers \ {n} : cur'[m] = cur[m]
      BY <2>3 DEF Serves1, At2
    <3>2. Start1(n) = None /\ Start1(n)' = None BY <2>1, <3>1 DEF Start1, Goes1
    <3>3. state'.stack = state.stack BY <2>1, <2>3, ServesWord
    <3> QED BY <1>f, <2>1, <3>1, <3>2, <3>3, NotifierKeeps1
  <2> QED BY <1>3, <2>2, <2>3
<1> QED BY <1>1, <1>2, <1>3

\* notify_all takes the whole stack.
LEMMA AllLists1 ==
    ASSUME IInv1, V1!TypeOK', NEW n \in Notifiers, V1!NotifySwap(n), TakesAll1(n)
    PROVE  /\ Lists1' /\ V1!Stacked' = {} /\ next' = next
           /\ \A w \in Waiters : pc'[w] = pc[w]
<1> USE TicketTypes DEF IInv1
<1>1. /\ pc[n] = "swap" /\ UNCHANGED <<wstate, epoch>>
      /\ \A m \in Notifiers \ {n} : below'[m] = below[m] BY NotifySwapEffect1 DEF At2
<1>2. /\ Goes1(n, IF state.stack = None THEN "idle" ELSE "unpark")
      /\ At2(cur', cur, n, state.stack) /\ next' = next BY DEF TakesAll1
<1>3. state'.stack = None /\ \A w \in Waiters : pc'[w] = pc[w] BY <1>1, TakesAllWord
<1>4. /\ next \in Linkings /\ Tops1 \in Heads(Owners) /\ Linked \in SUBSET Waiters
      /\ Tops1[WordOwner] = state.stack
      /\ \A m \in Notifiers : m \in Owners /\ m # WordOwner /\ Tops1[m] = Start1(m) BY ListTypes1
<1>5. Linked' = Linked BY <1>1, <1>3 DEF Linked, Asleep
<1>6. Start1(n) = None /\ Start1(n)' = state.stack BY <1>1, <1>2 DEF Start1, Goes1, At2
<1>7. ASSUME NEW m \in Notifiers \ {n} PROVE Start1(m)' = Start1(m)
  BY <1>1, <1>2, Threads1Facts DEF Start1, Goes1, At2
<1>8. Tops1' = [Tops1 EXCEPT ![WordOwner] = None, ![n] = Tops1[WordOwner]]
  BY <1>3, <1>4, <1>6, <1>7, WordOwnerNew DEF Tops1, Owners
<1>9. Partition(next, Owners, Tops1, Linked) BY DEF Lists1
<1>10. n \in Owners /\ WordOwner \in Owners /\ n # WordOwner /\ Tops1[n] = None BY <1>4, <1>6, WordOwnerNew
<1>11. Partition(next, Owners, [Tops1 EXCEPT ![WordOwner] = None, ![n] = Tops1[WordOwner]], Linked)
  BY <1>4, <1>9, <1>10, PartitionTake
<1>12. Lists1' BY <1>2, <1>5, <1>8, <1>11 DEF Lists1
<1>13. V1!Stacked' = {} BY <1>3, ReachNone, ChainsNext1
<1> QED BY <1>2, <1>3, <1>12, <1>13

\* notify_one takes the top of the stack; what the notifier has read below it is there.
LEMMA PopLists1 ==
    ASSUME IInv1, V1!TypeOK', NEW n \in Notifiers, V1!NotifySwap(n), Pops1(n)
    PROVE  /\ Lists1' /\ state.stack \in V1!Stacked /\ V1!Stacked' = V1!Stacked \ {state.stack}
           /\ \A w \in Waiters : pc'[w] = pc[w]
           /\ \A w \in Waiters \ {state.stack} : next'[w] = next[w]
           /\ state'.epoch = state.epoch /\ state'.waiters = state.waiters
<1> USE TicketTypes DEF IInv1
<1>1. /\ pc[n] = "swap" /\ UNCHANGED <<wstate, epoch>>
      /\ \A m \in Notifiers \ {n} : below'[m] = below[m] BY NotifySwapEffect1 DEF At2
<1>2. /\ state = seen[n] /\ ~all[n] /\ state.waiters = 0 /\ state.stack \in Waiters
      /\ state' = [state EXCEPT !.stack = below[n]]
      /\ next' = [next EXCEPT ![state.stack] = None]
      /\ Goes1(n, "unpark") /\ At2(cur', cur, n, state.stack) BY DEF Pops1
<1>t. state \in Word1 BY Types1
<1>4. /\ next \in Linkings /\ Tops1 \in Heads(Owners) /\ Linked \in SUBSET Waiters
      /\ Tops1[WordOwner] = state.stack /\ V1!Stacked = Reach(next, state.stack)
      /\ \A m \in Notifiers : m \in Owners /\ m # WordOwner /\ Tops1[m] = Start1(m) BY ListTypes1
<1>3. state.stack \in V1!Stacked BY <1>2, <1>4, ReachStep
<1>5. below[n] = next[state.stack] BY <1>1, <1>2, <1>3 DEF Reads1, V1!Pops
<1>6. PICK w \in Waiters : w = state.stack BY <1>2
<1>7. PICK b \in Waiters \cup {None} : b = next[w] BY <1>4 DEF Linkings
<1>8. state'.stack = b /\ state'.epoch = state.epoch /\ state'.waiters = state.waiters
  BY <1>2, <1>5, <1>6, <1>7, <1>t, WordType1
<1>9. \A v \in Waiters : pc'[v] = pc[v] BY <1>2, Threads1Facts DEF Goes1
<1>10. Linked' = Linked BY <1>1, <1>9 DEF Linked, Asleep
<1>11. next' = [next EXCEPT ![w] = None] BY <1>2, <1>6
<1>12. Start1(n) = None /\ Start1(n)' = w BY <1>1, <1>2, <1>6 DEF Start1, Goes1, At2
<1>13. ASSUME NEW m \in Notifiers \ {n} PROVE Start1(m)' = Start1(m)
  BY <1>1, <1>2, Threads1Facts DEF Start1, Goes1, At2
<1>14. Cut(next, next', Owners, Tops1, Tops1', Linked, WordOwner, n, w, b)
  <2>1. next' \in Linkings /\ next'[w] = None /\ \A v \in Waiters \ {w} : next'[v] = next[v]
    BY <1>4, <1>11 DEF Linkings
  <2>2. Partition(next, Owners, Tops1, Linked) BY DEF Lists1
  <2>3. Tops1[n] = None /\ Tops1[WordOwner] = w /\ next[w] = b BY <1>4, <1>6, <1>7, <1>12
  <2>4. n \in Owners /\ WordOwner \in Owners /\ WordOwner # n BY <1>4, WordOwnerNew
  <2>5. Tops1'[WordOwner] = b /\ Tops1'[n] = w /\ \A k \in Owners \ {WordOwner, n} : Tops1'[k] = Tops1[k]
    BY <1>4, <1>8, <1>12, <1>13, WordOwnerNew DEF Tops1, Owners
  <2> QED BY <1>4, <2>1, <2>2, <2>3, <2>4, <2>5 DEF Cut
<1>19. Partition(next', Owners, Tops1', Linked) /\ Reach(next', b) = Reach(next, w) \ {w}
  BY <1>14, PartitionPop
<1>23. Lists1' BY <1>10, <1>19 DEF Lists1
<1>24. V1!Stacked' = V1!Stacked \ {w} BY <1>4, <1>6, <1>8, <1>19, ChainsNext1
<1>20. \A v \in Waiters \ {w} : next'[v] = next[v] BY <1>4, <1>11 DEF Linkings
<1> QED BY <1>3, <1>6, <1>8, <1>9, <1>20, <1>23, <1>24

\* A sleeper that is signaled leaves its notifier's list.
LEMMA UnparkLists1 ==
    ASSUME IInv1, V1!TypeOK', NEW n \in Notifiers, V1!Unpark(n)
    PROVE  /\ Lists1' /\ V1!Stacked' = V1!Stacked /\ cur[n] \in Linked
           /\ \A w \in Waiters : pc'[w] = pc[w]
<1> USE TicketTypes DEF IInv1
<1>1. /\ pc[n] = "unpark" /\ cur[n] \in Waiters
      /\ UNCHANGED <<state, next, epoch, seen, all>>
      /\ At2(below', below, n, next[cur[n]])
      /\ At1(wstate', wstate, cur[n], "signaled")
      /\ \/ wstate[cur[n]] = "waiting" /\ Goes1(n, "wake") /\ UNCHANGED cur
         \/ /\ wstate[cur[n]] # "waiting"
            /\ Goes1(n, IF next[cur[n]] = None THEN "idle" ELSE "unpark")
            /\ At2(cur', cur, n, next[cur[n]]) BY UnparkEffect1
<1>2. /\ next \in Linkings /\ Tops1 \in Heads(Owners) /\ Linked \in SUBSET Waiters
      /\ \A m \in Notifiers : m \in Owners /\ m # WordOwner /\ Tops1[m] = Start1(m) BY ListTypes1
<1>3. PICK w \in Waiters : w = cur[n] BY <1>1
<1>4. PICK b : b = next[w] OBVIOUS
<1>5. \A v \in Waiters : pc'[v] = pc[v] BY <1>1, Threads1Facts DEF Goes1
<1>6. Linked' = Linked \ {w} BY <1>1, <1>3, <1>5 DEF Linked, Asleep, At1
<1>8. Start1(n) = w BY <1>1, <1>3 DEF Start1
<1>9. Start1(n)' = b
  <2>1. below'[n] = b BY <1>1, <1>3, <1>4 DEF At2
  <2>2. next[cur[n]] = b BY <1>3, <1>4
  <2>3. CASE Goes1(n, "wake") BY <2>1, <2>3 DEF Start1, Goes1
  <2>4. CASE /\ Goes1(n, IF next[cur[n]] = None THEN "idle" ELSE "unpark")
             /\ At2(cur', cur, n, next[cur[n]]) BY <2>2, <2>4 DEF Start1, Goes1, At2
  <2> QED BY <1>1, <2>3, <2>4
<1>10. ASSUME NEW m \in Notifiers \ {n} PROVE Start1(m)' = Start1(m)
  BY <1>1, Threads1Facts DEF Start1, Goes1, At2
<1>11. Tops1' = [Tops1 EXCEPT ![n] = b] BY <1>1, <1>2, <1>9, <1>10, WordOwnerNew DEF Tops1, Owners
<1>12. PICK f \in Linkings : f = next BY <1>2
<1>13. PICK h \in Heads(Owners) : h = Tops1 BY <1>2
<1>14. Partition(f, Owners, [h EXCEPT ![n] = b], Linked \ {w}) /\ w \in Linked
  <2>1. Partition(f, Owners, h, Linked) BY <1>12, <1>13 DEF Lists1
  <2>2. w = h[n] /\ b = f[w] /\ n \in Owners BY <1>2, <1>4, <1>8, <1>12, <1>13
  <2>3. w \in Reach(f, h[n]) BY <2>2, ReachStep
  <2>4. w \in Linked BY <2>1, <2>2, <2>3 DEF Partition
  <2> QED BY <1>2, <2>1, <2>2, <2>4, PartitionDrop
<1>15. Lists1' BY <1>1, <1>6, <1>11, <1>12, <1>13, <1>14 DEF Lists1
<1>16. V1!Stacked' = V1!Stacked BY <1>1, Chains1, ChainsNext1
<1> QED BY <1>3, <1>5, <1>14, <1>15, <1>16

LEMMA WakeLists1 ==
    ASSUME IInv1, V1!TypeOK', NEW n \in Notifiers, V1!Wake(n)
    PROVE  ListsKept1
<1> USE TicketTypes DEF IInv1
<1>1. PICK w \in Waiters : w = cur[n] BY WakeEffect1
<1>2. pc'[w] = (IF pc[w] = "blocked" THEN "park" ELSE pc[w]) BY <1>1, WakeEffect1
<1>3. \A t \in Threads1 \ {n, w} : pc'[t] = pc[t] BY <1>1, WakeEffect1
<1>4. UNCHANGED <<state, next, wstate, below>> BY WakeEffect1
<1>5. Linked' = Linked
  <2>1. \A v \in Waiters \ {w} : pc'[v] = pc[v] BY <1>3, Threads1Facts
  <2> QED BY <1>2, <1>4, <2>1 DEF Linked, Asleep
<1>6. Start1(n)' = Start1(n)
  <2>1. /\ pc[n] = "wake" /\ pc'[n] = (IF below[n] = None THEN "idle" ELSE "unpark")
        /\ cur'[n] = below[n] BY WakeEffect1 DEF At2
  <2> QED BY <2>1 DEF Start1
<1>7. \A m \in Notifiers \ {n} : pc'[m] = pc[m] /\ cur'[m] = cur[m] /\ below'[m] = below[m]
  BY <1>3, <1>4, WakeEffect1, Threads1Facts DEF At2
<1>8. \A m \in Notifiers : Start1(m)' = Start1(m) BY <1>6, <1>7, StartKept1
<1> QED BY <1>4, <1>5, <1>8, KeepLists1

LEMMA ListFacts1 ==
    ASSUME IInv1
    PROVE  /\ V1!Stacked \subseteq Linked /\ Linked \subseteq Waiters
           /\ \A n \in Notifiers : V1!Taken(n) \subseteq Linked /\ V1!Taken(n) \cap V1!Stacked = {}
           /\ \A n, m \in Notifiers : n # m => V1!Taken(n) \cap V1!Taken(m) = {}
           /\ \A w \in Linked : w \in V1!Stacked \/ \E n \in Notifiers : w \in V1!Taken(n)
<1>0. V1!TypeOK /\ Lists1 BY TicketTypes DEF IInv1
<1>1. /\ V1!Stacked = Reach(next, Tops1[WordOwner]) /\ WordOwner \in Owners
      /\ \A n \in Notifiers : n \in Owners /\ n # WordOwner /\ V1!Taken(n) = Reach(next, Tops1[n])
  BY <1>0, ListTypes1, WordOwnerNew
<1>2. /\ \A i \in Owners : Reach(next, Tops1[i]) \subseteq Linked
      /\ \A i, j \in Owners : i # j => Reach(next, Tops1[i]) \cap Reach(next, Tops1[j]) = {}
      /\ \A w \in Linked : \E i \in Owners : w \in Reach(next, Tops1[i])
  BY <1>0 DEF Lists1, Partition
<1>3. \A i \in Owners : i = WordOwner \/ i \in Notifiers BY DEF Owners
<1>4. Linked \subseteq Waiters BY DEF Linked
<1> QED BY <1>1, <1>2, <1>3, <1>4

\* A step that serves nobody takes sleepers from the stack at most, and keeps the links.
LEMMA StackStep1 ==
    ASSUME IInv1, V1!TypeOK', [V1!Next]_(V1!vars)
    PROVE  /\ Lists1'
           /\ Served' = Served => \A v \in V1!Stacked' : v \in V1!Stacked /\ next'[v] = next[v]
<1> USE TicketTypes DEF IInv1
<1>s. V1!Stacked \subseteq Linked /\ Linked \subseteq Waiters /\ Served \in Nat BY ListFacts1
<1>k. ASSUME ListsKept1, next' = next
      PROVE  Lists1' /\ \A v \in V1!Stacked' : v \in V1!Stacked /\ next'[v] = next[v]
  BY <1>k DEF ListsKept1
<1>1. CASE UNCHANGED V1!vars
  <2>1. V1!Stacked' = V1!Stacked /\ next' = next BY <1>1, Chains1, ChainsNext1 DEF V1!vars
  <2>2. Lists1' BY <1>1 DEF V1!vars, Lists1, Tops1, Start1, Linked, Asleep
  <2> QED BY <2>1, <2>2
<1>2. ASSUME NEW w \in Waiters, Waits1(w)
      PROVE  /\ Lists1'
             /\ Served' = Served => \A v \in V1!Stacked' : v \in V1!Stacked /\ next'[v] = next[v]
  <2>1. CASE V1!CommitSwap(w) /\ state = seen[w]
    <3>1. Served' # Served BY <2>1, <1>s, CommitSwapWord DEF Decides1, Served
    <3> QED BY <2>1, <3>1, PushLists1
  <2>2. CASE ~(V1!CommitSwap(w) /\ state = seen[w])
    <3>1. ListsKept1 BY <1>2, <2>2, WaiterLists1
    <3>2. CASE V1!Spin(w)
      <4>1. w \notin Linked BY <3>2, SpinEffect1 DEF Linked, Asleep
      <4>2. \A v \in Waiters \ {w} : next'[v] = next[v] BY <1>2, WaiterFrame1
      <4> QED BY <1>s, <3>1, <4>1, <4>2 DEF ListsKept1
    <3>3. CASE ~V1!Spin(w)
      <4>1. next' = next BY <1>2, <3>3, PrepareWaitEffect1, CommitBeginEffect1, CancelBeginEffect1,
           CommitSwapEffect1, CancelSwapEffect1, ParkEffect1, SpuriousEffect1 DEF Waits1
      <4> QED BY <1>k, <3>1, <4>1
    <3> QED BY <3>2, <3>3
  <2> QED BY <2>1, <2>2
<1>3. ASSUME NEW n \in Notifiers, Notifies1(n)
      PROVE  Lists1' /\ \A v \in V1!Stacked' : v \in V1!Stacked /\ next'[v] = next[v]
  <2>1. CASE V1!NotifyBegin(n) BY <1>k, <2>1, NotifierLists1, NotifyBeginEffect1
  <2>2. CASE V1!NotifyReadNext(n) BY <1>k, <2>2, NotifierLists1, NotifyReadNextEffect1
  <2>3. CASE V1!NotifySwap(n)
    <3>1. CASE Retry1(n) BY <1>k, <2>3, <3>1, NotifierLists1 DEF Retry1
    <3>2. CASE Serves1(n) BY <1>k, <2>3, <3>2, NotifierLists1 DEF Serves1
    <3>3. CASE TakesAll1(n) BY <2>3, <3>3, AllLists1
    <3>4. CASE Pops1(n) BY <1>s, <2>3, <3>4, PopLists1
    <3> QED BY <2>3, <3>1, <3>2, <3>3, <3>4, NotifySwapEffect1
  <2>4. CASE V1!Unpark(n) BY <2>4, UnparkLists1, UnparkEffect1
  <2>5. CASE V1!Wake(n) BY <1>k, <2>5, WakeLists1, WakeEffect1
  <2> QED BY <1>3, <2>1, <2>2, <2>3, <2>4, <2>5 DEF Notifies1
<1> QED BY <1>1, <1>2, <1>3, NextIs1

----------------------------------------------------------------------------
(* Waiters that commit *)

LEMMA WaiterCommitting1 ==
    ASSUME IInv1, NEW w \in Waiters, Waits1(w)
    PROVE  \A v \in Waiters : Committing1(v)'
<1> USE TicketTypes DEF IInv1
<1>0. \A v \in Waiters : Committing1(v) OBVIOUS
<1>1. /\ \A v \in Waiters \ {w} : /\ pc'[v] = pc[v] /\ seen'[v] = seen[v]
                                  /\ wstate'[v] = wstate[v] /\ next'[v] = next[v]
      /\ \A n \in Notifiers : pc'[n] = pc[n]
      /\ cur' = cur BY WaiterFrame1 DEF Kept1
<1>2. \A v \in Waiters \ {w} : epoch'[v] = epoch[v] BY WaiterFrame1, PrepareWaitEffect1 DEF At1
<1>5. ASSUME NEW v \in Waiters \ {w} PROVE Committing1(v)' BY <1>0, <1>1, <1>2 DEF Committing1
<1>6. Committing1(w)'
  <2>1. CASE V1!PrepareWait(w) BY <2>1, PrepareWaitEffect1 DEF Goes1, Committing1
  <2>2. CASE V1!CommitBegin(w) BY <2>2, CommitBeginEffect1 DEF Goes1, At1, Committing1
  <2>3. CASE V1!CancelBegin(w) BY <2>3, CancelBeginEffect1 DEF Goes1, Committing1
  <2>4. CASE V1!Spin(w)
    <3>1. /\ pc[w] \in {"commit", "cancel"} /\ UNCHANGED <<epoch, wstate>>
          /\ \/ pc'[w] = pc[w] \/ pc'[w] = "out"
             \/ /\ V1!Distance(w) = 0 /\ pc[w] = "commit" /\ pc'[w] = "push" /\ seen' = seen
                /\ next'[w] = seen[w].stack BY <2>4, SpinEffect1 DEF Goes1, At1
    <3>2. V1!Distance(w) = 0 => seen[w].epoch = epoch[w] BY <3>1, TurnFacts
    <3> QED BY <1>0, <3>1, <3>2 DEF Committing1
  <2>5. CASE V1!CommitSwap(w)
    <3>1. pc[w] = "push" /\ pc'[w] \in {"commit", "park"} /\ wstate' = wstate
      BY <2>5, CommitSwapEffect1 DEF Goes1
    <3> QED BY <1>0, <3>1 DEF Committing1
  <2>6. CASE V1!Park(w) BY <2>6, ParkEffect1 DEF Goes1, At1, Committing1
  <2>7. CASE V1!CancelSwap(w) BY <2>7, CancelSwapEffect1 DEF Goes1, Committing1
  <2>8. CASE V1!SpuriousWakeup(w) BY <2>8, SpuriousEffect1 DEF Goes1, Committing1
  <2> QED BY <2>1, <2>2, <2>3, <2>4, <2>5, <2>6, <2>7, <2>8 DEF Waits1
<1> QED BY <1>5, <1>6

LEMMA NotifierCommitting1 ==
    ASSUME IInv1, V1!TypeOK', NEW n \in Notifiers, Notifies1(n)
    PROVE  \A v \in Waiters : Committing1(v)'
<1> USE TicketTypes DEF IInv1
<1> TAKE v \in Waiters
<1>1. Committing1(v) OBVIOUS
<1>2. seen'[v] = seen[v] /\ epoch' = epoch BY NotifierFrame1
<1>3. CASE V1!Wake(n)
  <2>1. PICK w \in Waiters : w = cur[n] BY <1>3, WakeEffect1
  <2>2. UNCHANGED <<wstate, next>> BY <1>3, WakeEffect1
  <2>3. v = w => pc'[v] = (IF pc[v] = "blocked" THEN "park" ELSE pc[v]) BY <1>3, <2>1, WakeEffect1
  <2>4. v # w => pc'[v] = pc[v] BY <1>3, <2>1, WakeEffect1, Threads1Facts
  <2>5. pc'[v] = "blocked" => v # w BY <2>3
  <2>6. ASSUME NEW m \in Notifiers, pc[m] = "wake", cur[m] = v, v # w
        PROVE  pc'[m] = "wake" /\ cur'[m] = v BY <2>6, <2>1, NotifierFrame1
  <2> QED BY <1>1, <1>2, <2>2, <2>3, <2>4, <2>5, <2>6 DEF Committing1
<1>4. CASE V1!Unpark(n)
  <2>1. pc'[v] = pc[v] /\ next' = next BY <1>4, UnparkLists1, UnparkEffect1
  <2>2. cur[n] \in Linked BY <1>4, UnparkLists1
  <2>3. PICK w \in Linked : w = cur[n] BY <2>2
  <2>4. w \in Waiters /\ Asleep(w) /\ wstate[w] # "signaled" BY DEF Linked
  <2>5. ASSUME NEW m \in Notifiers, pc[m] = "wake", cur[m] = v PROVE pc'[m] = "wake" /\ cur'[m] = v
    <3>1. pc[n] # "wake" BY <1>4, UnparkEffect1
    <3> QED BY <2>5, <3>1, NotifierFrame1
  <2>6. CASE v = w
    <3>1. wstate'[v] = "signaled" /\ pc[v] \in {"park", "blocked"}
      BY <1>4, <2>3, <2>4, <2>6, UnparkEffect1 DEF At1, Asleep
    <3>2. ASSUME pc[v] = "blocked" PROVE pc'[n] = "wake" /\ cur'[n] = v
      <4>1. wstate[w] \in {"notsignaled", "waiting", "signaled"} BY <2>4, Types1
      <4>2. wstate[cur[n]] = "waiting" BY <1>1, <2>3, <2>4, <2>6, <3>2, <4>1 DEF Committing1
      <4> QED BY <1>4, <4>2, <2>3, <2>6, UnparkEffect1 DEF Goes1
    <3> QED BY <2>1, <3>1, <3>2 DEF Committing1
  <2>7. CASE v # w
    <3>1. wstate'[v] = wstate[v] BY <1>4, <2>3, <2>7, UnparkEffect1 DEF At1
    <3> QED BY <1>1, <1>2, <2>1, <2>5, <3>1 DEF Committing1
  <2> QED BY <2>6, <2>7
<1>5. CASE ~V1!Wake(n) /\ ~V1!Unpark(n)
  <2>1. pc'[v] = pc[v] /\ wstate' = wstate BY <1>5, NotifierFrame1
  <2>2. pc[n] # "wake"
    BY <1>5, NotifyBeginEffect1, NotifyReadNextEffect1, NotifySwapEffect1 DEF Notifies1
  <2>3. \A m \in Notifiers : pc[m] = "wake" => pc'[m] = "wake" /\ cur'[m] = cur[m] BY <2>2, NotifierFrame1
  <2>4. pc[v] = "push" => next'[v] = next[v]
    <3>1. CASE V1!NotifySwap(n)
      <4>1. CASE Pops1(n)
        <5>1. state.stack \in Linked BY <3>1, <4>1, PopLists1, ListFacts1
        <5>2. pc[v] = "push" => v # state.stack BY <5>1 DEF Linked, Asleep
        <5> QED BY <3>1, <4>1, <5>2, PopLists1
      <4>2. CASE ~Pops1(n) BY <3>1, <4>2, NotifySwapEffect1 DEF Retry1, TakesAll1, Serves1
      <4> QED BY <4>1, <4>2
    <3>2. CASE ~V1!NotifySwap(n)
      BY <1>5, <3>2, NotifyBeginEffect1, NotifyReadNextEffect1 DEF Notifies1
    <3> QED BY <3>1, <3>2
  <2> QED BY <1>1, <1>2, <2>1, <2>3, <2>4 DEF Committing1
<1> QED BY <1>3, <1>4, <1>5

LEMMA CommittingStep1 ==
    ASSUME IInv1, V1!TypeOK', [V1!Next]_(V1!vars)
    PROVE  \A v \in Waiters : Committing1(v)'
<1>1. CASE UNCHANGED V1!vars BY <1>1 DEF V1!vars, IInv1, Committing1
<1> QED BY <1>1, WaiterCommitting1, NotifierCommitting1, NextIs1

----------------------------------------------------------------------------
(* What a notifier has read *)

LEMMA ReadsKept1 ==
    ASSUME IInv1, V1!TypeOK', [V1!Next]_(V1!vars), NEW n \in Notifiers,
           pc'[n] = pc[n], all'[n] = all[n], seen'[n] = seen[n], below'[n] = below[n]
    PROVE  Reads1(n)'
<1> USE TicketTypes DEF IInv1
<1> SUFFICES ASSUME pc'[n] = "swap", V1!Pops(n)', seen'[n].stack \in V1!Stacked', seen'[n].epoch = state'.epoch
             PROVE  below'[n] = next'[seen'[n].stack] BY DEF Reads1
<1> DEFINE w == seen[n].stack
<1>1. pc[n] = "swap" /\ V1!Pops(n) /\ w \in V1!Stacked' /\ seen[n].epoch = state'.epoch
  BY DEF V1!Pops
<1>2. Num(seen[n].epoch) <= Served /\ Num(seen[n].epoch) = Served'
  <2>1. n \in Threads1 BY Threads1Facts
  <2> QED BY <1>1, <2>1 DEF Copies, Deciding, Threads1, Served
<1>3. Served' = Served BY <1>2, ServedStep, TicketNext
<1>4. state'.epoch = state.epoch BY <1>3, NumSame, TicketNext DEF Served
<1>5. w \in V1!Stacked /\ next'[w] = next[w] BY <1>1, <1>3, StackStep1
<1>6. Reads1(n) OBVIOUS
<1> QED BY <1>1, <1>4, <1>5, <1>6 DEF Reads1

\* A notifier that has branched to its swap has not read, and will not need to.
LEMMA BranchReads1 ==
    ASSUME V1!TypeOK, NEW n \in Notifiers, NEW a \in BOOLEAN,
           Goes1(n, BranchTo1(a)), Sees1(n, IF V1!NobodyWaits THEN V1!NoWord ELSE state),
           a /\ ~V1!NobodyWaits => all'[n]
    PROVE  Reads1(n)'
<1>1. CASE BranchTo1(a) # "swap" BY <1>1 DEF Goes1, Reads1
<1>2. CASE BranchTo1(a) = "swap"
  <2>1. ~V1!NobodyWaits /\ (a \/ state.waiters > 0) BY <1>2 DEF BranchTo1
  <2>2. seen'[n] = state BY <2>1 DEF Sees1
  <2>3. state.waiters \in Nat BY Types1, WordFacts1
  <2>4. ~V1!Pops(n)' BY <2>1, <2>2, <2>3 DEF V1!Pops
  <2> QED BY <2>4 DEF Reads1
<1> QED BY <1>1, <1>2

LEMMA ReadsStep1 == ASSUME IInv1, V1!TypeOK', [V1!Next]_(V1!vars) PROVE \A n \in Notifiers : Reads1(n)'
<1> USE TicketTypes DEF IInv1
<1>u. CASE UNCHANGED V1!vars BY <1>u, ReadsKept1 DEF V1!vars
<1>w. ASSUME NEW w \in Waiters, Waits1(w), NEW n \in Notifiers PROVE Reads1(n)'
  <2>1. pc'[n] = pc[n] /\ seen'[n] = seen[n] /\ UNCHANGED <<all, below>> BY <1>w, WaiterFrame1 DEF Kept1
  <2> QED BY <2>1, ReadsKept1
<1>m. ASSUME NEW m \in Notifiers, Notifies1(m), NEW n \in Notifiers \ {m} PROVE Reads1(n)'
  <2>1. pc'[n] = pc[n] /\ below'[n] = below[n] /\ seen'[n] = seen[n] /\ all'[n] = all[n]
    BY <1>m, NotifierFrame1
  <2> QED BY <2>1, ReadsKept1
<1>n. ASSUME NEW n \in Notifiers, Notifies1(n) PROVE Reads1(n)'
  <2>1. CASE V1!NotifyBegin(n)
    <3>1. PICK a \in BOOLEAN : /\ At2(all', all, n, a /\ ~V1!NobodyWaits)
                               /\ Goes1(n, BranchTo1(a)) /\ Sees1(n, IF V1!NobodyWaits THEN V1!NoWord ELSE state)
      BY <2>1, NotifyBeginEffect1
    <3>2. all'[n] = (a /\ ~V1!NobodyWaits) BY <3>1 DEF At2
    <3> QED BY <3>1, <3>2, BranchReads1
  <2>2. CASE V1!NotifyReadNext(n)
    <3>1. below'[n] = next[seen[n].stack] /\ next' = next /\ seen' = seen
      BY <2>2, NotifyReadNextEffect1 DEF At2
    <3> QED BY <3>1 DEF Reads1
  <2>3. CASE V1!NotifySwap(n)
    <3>1. CASE Retry1(n)
      <4>1. all[n] \in BOOLEAN /\ all' = all BY <2>3, Types1, NotifySwapEffect1
      <4>2. Goes1(n, BranchTo1(all[n])) /\ Sees1(n, IF V1!NobodyWaits THEN V1!NoWord ELSE state)
        BY <3>1 DEF Retry1
      <4> QED BY <4>1, <4>2, BranchReads1
    <3>2. CASE ~Retry1(n)
      <4>1. pc'[n] \in {"idle", "unpark"}
        BY <2>3, <3>2, NotifySwapEffect1 DEF Goes1, TakesAll1, Pops1, Serves1
      <4> QED BY <4>1 DEF Reads1
    <3> QED BY <3>1, <3>2
  <2>4. CASE V1!Unpark(n)
    <3>1. pc'[n] \in {"idle", "unpark", "wake"} BY <2>4, UnparkEffect1 DEF Goes1
    <3> QED BY <3>1 DEF Reads1
  <2>5. CASE V1!Wake(n)
    <3>1. pc'[n] \in {"idle", "unpark"} BY <2>5, WakeEffect1
    <3> QED BY <3>1 DEF Reads1
  <2> QED BY <1>n, <2>1, <2>2, <2>3, <2>4, <2>5 DEF Notifies1
<1> QED BY <1>u, <1>w, <1>m, <1>n, NextIs1

----------------------------------------------------------------------------
(* The inductive invariant of the first version *)

LEMMA InitInv1 == V1!Init => IInv1
<1> SUFFICES ASSUME V1!Init PROVE IInv1 OBVIOUS
<1> USE DEF V1!Init
<1>0. V1!Start \in V1!Epochs /\ 0 \in V1!Epochs /\ Num(V1!Start) = 0 BY Sizes DEF Num
<1>1. state = [stack |-> None, waiters |-> 0, epoch |-> V1!Start] BY DEF V1!NoWord
<1>2. state \in Word1 /\ V1!NoWord \in Word1 BY <1>0, <1>1, PlacesExist1, WordType1, WaiterCount
<1>3. V1!TypeOK BY <1>0, <1>2 DEF V1!TypeOK, Word1
<1>4. \A w \in Waiters : pc[w] = "out" BY DEF V1!Threads
<1>5. \A n \in Notifiers : pc[n] = "idle" BY Threads1Facts DEF V1!Threads
<1>6. \A t \in V1!Threads : pc[t] \in {"out", "idle"} OBVIOUS
<1>7. Places1 BY <1>4, <1>5 DEF Places1, WaiterPC1, NotifierPC1
<1>8. Tickets
  <2>1. V1!Announced = {} /\ V1!Unserved = {} BY <1>4 DEF V1!Announced, V1!Unserved
  <2>2. Served = 0 /\ state.waiters = 0 BY <1>0, <1>1 DEF Served
  <2> QED BY <2>1, <2>2, Sizes, FS_EmptySet DEF Tickets
<1>9. Copies BY <1>6 DEF Copies, Deciding
<1>10. \A w \in Waiters : Committing1(w) BY <1>4 DEF Committing1
<1>11. Lists1
  <2>1. Linked = {} BY <1>4 DEF Linked, Asleep
  <2>2. \A i \in Owners : Tops1[i] = None BY <1>1, <1>5 DEF Tops1, Start1
  <2>3. Reach(next, None) = {} /\ Ends(next, None) BY ReachNone, EndsNone
  <2> QED BY <2>1, <2>2, <2>3 DEF Lists1, Partition
<1>12. \A n \in Notifiers : Reads1(n) BY <1>5 DEF Reads1
<1> QED BY <1>3, <1>7, <1>8, <1>9, <1>10, <1>11, <1>12 DEF IInv1

LEMMA NextInv1 == IInv1 /\ [V1!Next]_(V1!vars) => IInv1'
<1> SUFFICES ASSUME IInv1, [V1!Next]_(V1!vars) PROVE IInv1' OBVIOUS
<1>1. V1!TypeOK' BY TypeStep1
<1>2. Places1' /\ Tickets' /\ Copies' BY <1>1, PlacesStep1, TicketsStep, CopiesStep
<1>3. Lists1' BY <1>1, StackStep1
<1>4. (\A w \in Waiters : Committing1(w)') /\ \A n \in Notifiers : Reads1(n)'
  BY <1>1, CommittingStep1, ReadsStep1
<1> QED BY <1>1, <1>2, <1>3, <1>4 DEF IInv1

LEMMA InvConsistent1 == IInv1 => V1!Consistent
<1> SUFFICES ASSUME IInv1 PROVE V1!Consistent OBVIOUS
<1>1. V1!TypeOK /\ V1!Cardinality(V1!Unserved) = state.waiters
  BY CardinalitySame1 DEF IInv1, Tickets
<1>2. ASSUME NEW v \in V1!Unserved, NEW w \in V1!Unserved, epoch[v] = epoch[w] PROVE v = w
  BY <1>2, TicketTypes DEF IInv1, Tickets, Ticket
<1>3. ASSUME NEW w \in Waiters
      PROVE  LET wakers == {n \in Notifiers : w \in V1!Taken(n)}
                 asleep == pc[w] \in {"park", "blocked"} IN
             /\ V1!Cardinality(wakers) <= 1
             /\ w \in V1!Stacked => asleep /\ wstate[w] # "signaled" /\ wakers = {}
             /\ asleep => w \in V1!Stacked \/ wstate[w] = "signaled" \/ wakers # {}
             /\ pc[w] = "blocked" /\ wstate[w] = "signaled" =>
                   \E n \in Notifiers : pc[n] = "wake" /\ cur[n] = w
  <2> DEFINE wakers == {n \in Notifiers : w \in V1!Taken(n)}
  <2>1. V1!Cardinality(wakers) <= 1
    <3>1. CASE wakers = {} BY <3>1, CardinalitySame1, FS_EmptySet
    <3>2. CASE wakers # {}
      <4>1. PICK n \in Notifiers : n \in wakers BY <3>2
      <4>2. ASSUME NEW m \in wakers PROVE m = n
        <5>1. m \in Notifiers /\ w \in V1!Taken(m) /\ w \in V1!Taken(n) BY <4>1
        <5> QED BY <5>1, ListFacts1
      <4>3. wakers = {n} BY <4>1, <4>2
      <4>4. Cardinality({n}) = 1 BY FS_Singleton
      <4> HIDE DEF wakers
      <4> QED BY <4>3, <4>4, CardinalitySame1
    <3> QED BY <3>1, <3>2
  <2>2. /\ w \in V1!Stacked => Asleep(w) /\ wstate[w] # "signaled" /\ wakers = {}
        /\ Asleep(w) => w \in V1!Stacked \/ wstate[w] = "signaled" \/ wakers # {}
    BY ListFacts1 DEF Linked
  <2>3. pc[w] = "blocked" /\ wstate[w] = "signaled" => \E n \in Notifiers : pc[n] = "wake" /\ cur[n] = w
    BY DEF IInv1, Committing1
  <2> QED BY <2>1, <2>2, <2>3 DEF Asleep
<1> QED BY <1>1, <1>2, <1>3 DEF V1!Consistent

\* V1: the word counts the waiters nothing was decided about, the stack is of distinct
\* sleepers, and one that is off it is signalled or in the hands of one notifier
\* (commit_wait, _notify, _unpark).
THEOREM TicketsConsistent == V1!Spec => []V1!Consistent
<1>1. V1!Init => IInv1 BY InitInv1
<1>2. IInv1 /\ [V1!Next]_(V1!vars) => IInv1' BY NextInv1
<1>3. IInv1 => V1!Consistent BY InvConsistent1
<1> QED BY <1>1, <1>2, <1>3, PTL DEF V1!Spec

----------------------------------------------------------------------------
(* The ticket count that it implements *)

LEMMA SeqAppend ==
  ASSUME NEW S, NEW m \in Nat, NEW f \in [1 .. m -> S], NEW x \in S, NEW g \in [1 .. m + 1 -> S],
         \A i \in 1 .. m : g[i] = f[i], g[m + 1] = x
  PROVE g = Append(f, x)
<1>1. f \in Seq(S) /\ Len(f) = m OBVIOUS
<1>0. /\ Append(f, x) \in Seq(S) /\ Len(Append(f, x)) = m + 1
      /\ Append(f, x)[m + 1] = x /\ \A i \in 1 .. m : Append(f, x)[i] = f[i]
  BY <1>1, AppendProperties
<1>2. Append(f, x) \in [1 .. m + 1 -> S] BY <1>0, LenProperties
<1>3. \A i \in 1 .. m + 1 : g[i] = Append(f, x)[i] BY <1>0
<1> QED BY <1>2, <1>3

LEMMA SeqTail ==
  ASSUME NEW S, NEW m \in Nat, m > 0, NEW f \in [1 .. m -> S], NEW g \in [1 .. m - 1 -> S],
         \A i \in 1 .. m - 1 : g[i] = f[i + 1]
  PROVE g = Tail(f) /\ f # <<>> /\ Head(f) = f[1]
<1>1. f \in Seq(S) /\ Len(f) = m OBVIOUS
<1>e. f # << >> BY <1>1
<1>0. Tail(f) \in Seq(S) /\ Len(Tail(f)) = m - 1 /\ \A i \in 1 .. m - 1 : Tail(f)[i] = f[i + 1]
  BY <1>1, <1>e, HeadTailProperties
<1>2. Tail(f) \in [1 .. m - 1 -> S] BY <1>0, LenProperties
<1>3. \A i \in 1 .. m - 1 : g[i] = Tail(f)[i] BY <1>0
<1>4. g = Tail(f) BY <1>2, <1>3
<1> QED BY <1>1, <1>e, <1>4

\* Those in the line are told apart by their tickets.
LEMMA UnservedFacts1 ==
    IInv1 => /\ V1!Unserved \subseteq V1!Announced /\ V1!Announced \subseteq Waiters
             /\ Served \in Nat /\ state.waiters \in Nat
             /\ \A w \in Waiters : Ticket(w) \in Nat
             /\ \A w \in V1!Unserved : Served <= Ticket(w)
             /\ \A w \in V1!Announced : Served <= Ticket(w) => w \in V1!Unserved
             /\ \A v, w \in V1!Unserved : Ticket(v) = Ticket(w) => v = w
<1> SUFFICES ASSUME IInv1
             PROVE  /\ V1!Unserved \subseteq V1!Announced /\ V1!Announced \subseteq Waiters
                    /\ Served \in Nat /\ state.waiters \in Nat
                    /\ \A w \in Waiters : Ticket(w) \in Nat
                    /\ \A w \in V1!Unserved : Served <= Ticket(w)
                    /\ \A w \in V1!Announced : Served <= Ticket(w) => w \in V1!Unserved
                    /\ \A v, w \in V1!Unserved : Ticket(v) = Ticket(w) => v = w OBVIOUS
<1>1. V1!Unserved = {w \in V1!Announced : Served <= Ticket(w)} BY TicketTypes
<1> QED BY <1>1, TicketTypes, AnnouncedFinite DEF IInv1, Tickets

\* The i-th in the line holds the i-th ticket from the epoch on.
LEMMA LineIs ==
    IInv1 => /\ V1!Line \in [1 .. state.waiters -> Waiters]
             /\ \A i \in 1 .. state.waiters : V1!Line[i] \in V1!Unserved /\ Ticket(V1!Line[i]) = Served + i - 1
<1> SUFFICES ASSUME IInv1
             PROVE  /\ V1!Line \in [1 .. state.waiters -> Waiters]
                    /\ \A i \in 1 .. state.waiters :
                          V1!Line[i] \in V1!Unserved /\ Ticket(V1!Line[i]) = Served + i - 1 OBVIOUS
<1>0. /\ Served \in Nat /\ state.waiters \in Nat /\ Served + state.waiters <= MaxWaits
      /\ state.epoch \in V1!Epochs
      /\ \A w \in Waiters : Ticket(w) \in Nat /\ epoch[w] \in V1!Epochs
      /\ V1!Unserved \subseteq V1!Announced /\ V1!Announced \subseteq Waiters
      /\ \A w \in V1!Announced : Served <= Ticket(w) => w \in V1!Unserved
  BY TicketTypes, UnservedFacts1 DEF Bounds1
<1>1. ASSUME NEW i \in 1 .. state.waiters
      PROVE  LET x == CHOOSE w \in V1!Unserved : epoch[w] = V1!Advance(state.epoch, i - 1)
             IN x \in V1!Unserved /\ Ticket(x) = Served + i - 1
  <2>1. PICK k \in Nat : k = i - 1 BY <1>0, <1>1
  <2>2. Served + k \in Nat /\ Served <= Served + k /\ Served + k < Served + state.waiters
        /\ Num(state.epoch) + k <= MaxWaits BY <1>0, <1>1, <2>1, Sizes DEF Served
  <2>3. PICK w \in V1!Announced : Ticket(w) = Served + k BY <2>2 DEF IInv1, Tickets
  <2>4. w \in V1!Unserved BY <1>0, <2>2, <2>3
  <2>5. V1!Advance(state.epoch, k) \in V1!Epochs /\ Num(V1!Advance(state.epoch, k)) = Served + k
    BY <1>0, <2>2, NumAdvance DEF Served
  <2>6. epoch[w] = V1!Advance(state.epoch, k) BY <1>0, <2>3, <2>5, NumSame DEF Ticket
  <2>7. \E x \in V1!Unserved : epoch[x] = V1!Advance(state.epoch, i - 1) BY <2>1, <2>4, <2>6
  <2> DEFINE x == CHOOSE u \in V1!Unserved : epoch[u] = V1!Advance(state.epoch, i - 1)
  <2>8. x \in V1!Unserved /\ epoch[x] = V1!Advance(state.epoch, i - 1) BY <2>7
  <2> HIDE DEF x
  <2>9. Ticket(x) = Served + k BY <2>1, <2>5, <2>8 DEF Ticket
  <2>10. Ticket(x) = Served + i - 1 BY <1>0, <1>1, <2>1, <2>9
  <2> QED BY <2>8, <2>10 DEF x
<1>2. ASSUME NEW i \in 1 .. state.waiters
      PROVE  V1!Line[i] \in V1!Unserved /\ Ticket(V1!Line[i]) = Served + i - 1
  BY <1>1, <1>2 DEF V1!Line
<1>3. V1!Line \in [1 .. state.waiters -> Waiters] BY <1>0, <1>1 DEF V1!Line
<1> QED BY <1>2, <1>3

LEMMA PhaseFacts1 ==
    IInv1 => /\ \A w \in Waiters :
                   V1!Phases[w] = IF w \in V1!Unserved THEN "prewait"
                                  ELSE IF w \in V1!Stacked THEN "parked"
                                  ELSE IF pc[w] = "out" THEN "out" ELSE "woken"
             /\ \A w \in V1!Unserved : pc[w] \in Early
             /\ \A w \in V1!Stacked : w \in Waiters /\ Asleep(w) /\ wstate[w] # "signaled" /\ w \notin V1!Unserved
<1> SUFFICES ASSUME IInv1
             PROVE  /\ \A w \in Waiters :
                          V1!Phases[w] = IF w \in V1!Unserved THEN "prewait"
                                         ELSE IF w \in V1!Stacked THEN "parked"
                                         ELSE IF pc[w] = "out" THEN "out" ELSE "woken"
                    /\ \A w \in V1!Unserved : pc[w] \in Early
                    /\ \A w \in V1!Stacked : w \in Waiters /\ Asleep(w) /\ wstate[w] # "signaled" /\ w \notin V1!Unserved
  OBVIOUS
<1>1. \A w \in V1!Unserved : pc[w] \in Early BY DEF V1!Unserved, V1!Announced, Early
<1>2. \A w \in V1!Stacked : w \in Waiters /\ Asleep(w) /\ wstate[w] # "signaled" BY ListFacts1 DEF Linked
<1>3. \A w \in V1!Stacked : w \notin V1!Unserved BY <1>1, <1>2 DEF Early, Asleep
<1>4. ASSUME NEW w \in Waiters
      PROVE  V1!Phases[w] = IF w \in V1!Unserved THEN "prewait"
                            ELSE IF w \in V1!Stacked THEN "parked"
                            ELSE IF pc[w] = "out" THEN "out" ELSE "woken"
  <2>1. V1!Phases[w] = CASE w \in V1!Unserved -> "prewait"
                         [] w \in V1!Stacked -> "parked"
                         [] pc[w] = "out" -> "out"
                         [] OTHER -> "woken" BY Zenon DEF V1!Phases
  <2>2. CASE w \in V1!Unserved
    <3>1. w \notin V1!Stacked /\ pc[w] # "out" BY <1>1, <1>3, <2>2 DEF Early
    <3> QED BY <2>1, <2>2, <3>1, Zenon
  <2>3. CASE w \notin V1!Unserved /\ w \in V1!Stacked
    <3>1. pc[w] # "out" BY <1>2, <2>3 DEF Asleep
    <3> QED BY <2>1, <2>3, <3>1, Zenon
  <2>4. CASE w \notin V1!Unserved /\ w \notin V1!Stacked BY <2>1, <2>4, Zenon
  <2> QED BY <2>2, <2>3, <2>4
<1> QED BY <1>1, <1>2, <1>3, <1>4

LEMMA SeqEmpty ==
    ASSUME NEW f \in [{} -> Waiters]
    PROVE  f = << >>
OBVIOUS

LEMMA RefinementNext1 ==
    IInv1' => /\ V1!Unserved' = {w \in V1!Announced' : Served' <= Ticket(w)'}
              /\ V1!Announced' \subseteq Waiters
              /\ Served' \in Nat /\ state'.waiters \in Nat /\ \A w \in Waiters : Ticket(w)' \in Nat
              /\ V1!Line' \in [1 .. state'.waiters -> Waiters]
              /\ \A i \in 1 .. state'.waiters :
                    V1!Line'[i] \in V1!Unserved' /\ Ticket(V1!Line[i])' = Served' + i - 1
<1> SUFFICES ASSUME IInv1'
             PROVE  /\ V1!Unserved' = {w \in V1!Announced' : Served' <= Ticket(w)'}
                    /\ V1!Announced' \subseteq Waiters
                    /\ Served' \in Nat /\ state'.waiters \in Nat /\ \A w \in Waiters : Ticket(w)' \in Nat
                    /\ V1!Line' \in [1 .. state'.waiters -> Waiters]
                    /\ \A i \in 1 .. state'.waiters :
                          V1!Line'[i] \in V1!Unserved' /\ Ticket(V1!Line[i])' = Served' + i - 1
  OBVIOUS
<1>1. V1!TypeOK' /\ Bounds1' BY DEF IInv1, Tickets, Bounds1
<1>2. V1!Unserved' = {w \in V1!Announced' : Served' <= Ticket(w)'} BY <1>1, UnservedNext
<1>3. (IInv1 => /\ V1!Line \in [1 .. state.waiters -> Waiters]
                /\ \A i \in 1 .. state.waiters : V1!Line[i] \in V1!Unserved /\ Ticket(V1!Line[i]) = Served + i - 1)'
  BY LineIs, PTL
<1>4. V1!Announced' \subseteq Waiters BY DEF V1!Announced
<1> QED BY <1>1, <1>2, <1>3, <1>4, TicketNext

\* Those in the line change as the word does.
LEMMA UnservedStep ==
    ASSUME IInv1, IInv1'
    PROVE  /\ Stays1 => V1!Unserved' = V1!Unserved
           /\ \A w \in Waiters : Announces1(w) => V1!Unserved' = V1!Unserved \cup {w} /\ w \notin V1!Unserved
           /\ \A w \in Waiters : Decides1(w) => V1!Unserved' = V1!Unserved \ {w} /\ w \in V1!Unserved
           /\ Serves1All => V1!Unserved' = {}
<1>0. /\ Served \in Nat /\ state.waiters \in Nat
      /\ V1!Announced \subseteq Waiters
      /\ \A w \in Waiters : Ticket(w) \in Nat
      /\ \A w \in V1!Announced : Ticket(w) < Served + state.waiters
      /\ V1!Unserved = {w \in V1!Announced : Served <= Ticket(w)}
      /\ \A v, w \in V1!Unserved : Ticket(v) = Ticket(w) => v = w
  BY TicketTypes, UnservedFacts1 DEF Bounds1
<1>1. /\ V1!Unserved' = {w \in V1!Announced' : Served' <= Ticket(w)'} /\ V1!Announced' \subseteq Waiters
      /\ \A w \in Waiters : epoch'[w] = epoch[w] => Ticket(w)' = Ticket(w)
  BY RefinementNext1 DEF Ticket
<1>2. ASSUME Stays1 PROVE V1!Unserved' = V1!Unserved
  <2>1. /\ Served' = Served /\ \A w \in Waiters : Ticket(w)' = Ticket(w)
        /\ \A v \in V1!Announced' : v \in V1!Announced
        /\ \A v \in V1!Announced : v \in V1!Announced' \/ Ticket(v) < Served
    BY <1>1, <1>2 DEF Stays1, Served
  <2>2. ASSUME NEW v \in V1!Unserved PROVE v \in V1!Unserved'
    <3>1. v \in V1!Announced /\ Served <= Ticket(v) /\ v \in Waiters BY <1>0, <2>2
    <3> QED BY <1>0, <1>1, <2>1, <3>1
  <2>3. ASSUME NEW v \in V1!Unserved' PROVE v \in V1!Unserved
    <3>1. v \in V1!Announced' /\ Served' <= Ticket(v)' /\ v \in Waiters BY <1>1, <2>3
    <3> QED BY <1>0, <2>1, <3>1
  <2> QED BY <2>2, <2>3
<1>3. ASSUME NEW w \in Waiters, Announces1(w)
      PROVE  V1!Unserved' = V1!Unserved \cup {w} /\ w \notin V1!Unserved
  <2>t. \A v \in Waiters \ {w} : Ticket(v)' = Ticket(v) BY <1>1, <1>3 DEF Announces1, At1
  <2>1. Served' = Served BY <1>3 DEF Announces1, Served
  <2>2. Ticket(w)' = Served + state.waiters BY <1>3 DEF Announces1, Ticket
  <2>3. w \notin V1!Announced /\ V1!Announced' = V1!Announced \cup {w} BY <1>3 DEF Announces1
  <2> QED BY <1>0, <1>1, <2>t, <2>1, <2>2, <2>3
<1>4. ASSUME NEW w \in Waiters, Decides1(w)
      PROVE  V1!Unserved' = V1!Unserved \ {w} /\ w \in V1!Unserved
  <2>1. /\ Served' = Served + 1
        /\ w \in V1!Announced /\ Ticket(w) = Served /\ \A v \in Waiters : Ticket(v)' = Ticket(v)
        /\ V1!Announced' \in {V1!Announced, V1!Announced \ {w}} BY <1>1, <1>4 DEF Decides1, Served
  <2>2. w \in V1!Unserved BY <1>0, <2>1
  <2>3. ASSUME NEW v \in V1!Unserved \ {w} PROVE v \in V1!Unserved'
    <3>1. v \in V1!Announced /\ v # w /\ Served <= Ticket(v) /\ v \in Waiters BY <1>0, <2>3
    <3>2. Ticket(v) # Served BY <1>0, <2>1, <2>2, <2>3
    <3> QED BY <1>0, <1>1, <2>1, <3>1, <3>2
  <2>4. ASSUME NEW v \in V1!Unserved' PROVE v \in V1!Unserved \ {w}
    <3>1. v \in V1!Announced' /\ Served' <= Ticket(v)' /\ v \in Waiters BY <1>1, <2>4
    <3> QED BY <1>0, <2>1, <3>1
  <2> QED BY <2>2, <2>3, <2>4
<1>5. ASSUME Serves1All PROVE V1!Unserved' = {}
  <2>1. /\ Served' = Served + state.waiters /\ V1!Announced' = V1!Announced
        /\ \A v \in Waiters : Ticket(v)' = Ticket(v) BY <1>1, <1>5 DEF Serves1All, Served
  <2>2. ASSUME NEW v \in V1!Announced' PROVE ~(Served' <= Ticket(v)') BY <1>0, <2>1, <2>2
  <2>3. \A v \in V1!Unserved' : v \in V1!Announced' /\ Served' <= Ticket(v)' BY <1>1
  <2> QED BY <2>2, <2>3
<1> QED BY <1>2, <1>3, <1>4, <1>5

LEMMA LineStep ==
    ASSUME IInv1, IInv1'
    PROVE  /\ Stays1 => V1!Line' = V1!Line
           /\ \A w \in Waiters : Announces1(w) => V1!Line' = Append(V1!Line, w)
           /\ \A w \in Waiters : Decides1(w) =>
                 V1!Line # << >> /\ Head(V1!Line) = w /\ V1!Line' = Tail(V1!Line)
           /\ Serves1All => V1!Line' = << >>
           /\ state.waiters = 0 => V1!Line = << >>
<1> DEFINE m == state.waiters  k == state'.waiters
<1>0. /\ Served \in Nat /\ m \in Nat
      /\ V1!Line \in [1 .. m -> Waiters]
      /\ \A i \in 1 .. m : V1!Line[i] \in V1!Unserved /\ Ticket(V1!Line[i]) = Served + i - 1
      /\ \A v, w \in V1!Unserved : Ticket(v) = Ticket(w) => v = w
      /\ \A w \in Waiters : Ticket(w) \in Nat
      /\ V1!Unserved \subseteq Waiters BY LineIs, UnservedFacts1
<1>1. /\ k \in Nat /\ V1!Line' \in [1 .. k -> Waiters]
      /\ \A i \in 1 .. k : V1!Line'[i] \in V1!Unserved' /\ Ticket(V1!Line[i])' = Served' + i - 1
  BY RefinementNext1
<1>t. \A w \in Waiters : epoch'[w] = epoch[w] => Ticket(w)' = Ticket(w) BY DEF Ticket
<1>e. \A i \in 1 .. k : Ticket(V1!Line[i])' = Num(epoch'[V1!Line'[i]]) BY DEF Ticket
<1>u. \A v \in Waiters : Ticket(v) = Num(epoch[v]) BY DEF Ticket
<1>2. ASSUME Stays1 PROVE V1!Line' = V1!Line
  <2>1. V1!Unserved' = V1!Unserved /\ k = m /\ epoch' = epoch BY <1>2, UnservedStep DEF Stays1
  <2>2. \A v \in Waiters : Ticket(v)' = Ticket(v) BY <1>t, <2>1
  <2>3. Served' = Served BY <1>2 DEF Stays1, Served
  <2>4. ASSUME NEW i \in 1 .. m PROVE V1!Line'[i] = V1!Line[i]
    <3>1. V1!Line'[i] \in V1!Unserved /\ Num(epoch'[V1!Line'[i]]) = Served + i - 1
      BY <1>1, <1>e, <2>1, <2>3, <2>4
    <3>2. V1!Line'[i] \in Waiters /\ Ticket(V1!Line'[i]) = Served + i - 1 BY <1>0, <1>u, <2>1, <3>1
    <3> QED BY <1>0, <2>4, <3>1, <3>2
  <2> QED BY <1>0, <1>1, <2>1, <2>4
<1>3. ASSUME NEW w \in Waiters, Announces1(w) PROVE V1!Line' = Append(V1!Line, w)
  <2>1. /\ k = m + 1 /\ Served' = Served /\ V1!Unserved' = V1!Unserved \cup {w} /\ w \notin V1!Unserved
        /\ \A v \in Waiters \ {w} : epoch'[v] = epoch[v]
        /\ Num(epoch'[w]) = Served + m BY <1>3, UnservedStep DEF Announces1, Served, At1
  <2>2. ASSUME NEW i \in 1 .. m + 1
        PROVE  /\ V1!Line'[i] \in V1!Unserved \cup {w} /\ Num(epoch'[V1!Line'[i]]) = Served + i - 1
               /\ V1!Line'[i] # w => Ticket(V1!Line'[i]) = Served + i - 1
    BY <1>0, <1>1, <1>e, <1>u, <2>1, <2>2
  <2>3. ASSUME NEW i \in 1 .. m PROVE V1!Line'[i] = V1!Line[i]
    <3>1. i \in 1 .. m + 1 /\ Served + i - 1 # Served + m BY <1>0, <2>3
    <3>2. V1!Line'[i] # w BY <2>1, <2>2, <3>1
    <3> QED BY <1>0, <2>2, <2>3, <3>1, <3>2
  <2>4. V1!Line'[m + 1] = w
    <3>1. m + 1 \in 1 .. m + 1 /\ Served + (m + 1) - 1 = Served + m BY <1>0
    <3>2. ASSUME V1!Line'[m + 1] # w PROVE FALSE
      <4>1. V1!Line'[m + 1] \in V1!Unserved /\ Ticket(V1!Line'[m + 1]) = Served + m BY <2>2, <3>1, <3>2
      <4>2. Ticket(V1!Line'[m + 1]) < Served + m BY <4>1, TicketTypes, AnnouncedFinite DEF Bounds1
      <4> QED BY <1>0, <4>1, <4>2
    <3> QED BY <3>2
  <2> QED BY <1>0, <1>1, <2>1, <2>3, <2>4, SeqAppend
<1>4. ASSUME NEW w \in Waiters, Decides1(w)
      PROVE  V1!Line # << >> /\ Head(V1!Line) = w /\ V1!Line' = Tail(V1!Line)
  <2>1. /\ k = m - 1 /\ m > 0 /\ Served' = Served + 1
        /\ V1!Unserved' = V1!Unserved \ {w} /\ w \in V1!Unserved
        /\ epoch' = epoch /\ Ticket(w) = Served BY <1>4, UnservedStep DEF Decides1, Served
  <2>2. ASSUME NEW i \in 1 .. m - 1 PROVE V1!Line'[i] = V1!Line[i + 1]
    <3>1. i \in 1 .. k /\ i + 1 \in 1 .. m BY <1>0, <2>1, <2>2
    <3>2. V1!Line'[i] \in V1!Unserved /\ Ticket(V1!Line'[i]) = Served' + i - 1
      BY <1>0, <1>1, <1>e, <1>u, <2>1, <3>1
    <3>3. V1!Line[i + 1] \in V1!Unserved /\ Ticket(V1!Line[i + 1]) = Served + (i + 1) - 1
      BY <1>0, <3>1
    <3>4. Served' + i - 1 = Served + (i + 1) - 1 BY <1>0, <2>1, <2>2
    <3> QED BY <1>0, <3>2, <3>3, <3>4
  <2>3. V1!Line[1] = w
    <3>1. 1 \in 1 .. m /\ Served + 1 - 1 = Served BY <1>0, <2>1
    <3> QED BY <1>0, <2>1, <3>1
  <2> QED BY <1>0, <1>1, <2>1, <2>2, <2>3, SeqTail
<1>5. ASSUME Serves1All PROVE V1!Line' = << >>
  <2>1. k = 0 BY <1>5 DEF Serves1All
  <2>2. 1 .. 0 = {} OBVIOUS
  <2>3. V1!Line' \in [{} -> Waiters] BY <1>1, <2>1, <2>2
  <2> QED BY <2>3, SeqEmpty
<1>6. ASSUME m = 0 PROVE V1!Line = << >>
  <2>2. 1 .. 0 = {} OBVIOUS
  <2>3. V1!Line \in [{} -> Waiters] BY <1>0, <1>6, <2>2
  <2> QED BY <2>3, SeqEmpty
<1> QED BY <1>2, <1>3, <1>4, <1>5, <1>6

----------------------------------------------------------------------------
(* Every step of the tickets is a step of the ticket count *)

\* What a waiter's phase depends on is left as it is.
KeepsPhase(v) ==
    /\ v \in V1!Unserved' <=> v \in V1!Unserved
    /\ v \in V1!Stacked' <=> v \in V1!Stacked
    /\ pc'[v] = "out" <=> pc[v] = "out"

LEMMA PhasesMove1 ==
    ASSUME IInv1, IInv1'
    PROVE  /\ \A w \in Waiters :
                 V1!Phases'[w] = IF w \in V1!Unserved' THEN "prewait"
                                 ELSE IF w \in V1!Stacked' THEN "parked"
                                 ELSE IF pc'[w] = "out" THEN "out" ELSE "woken"
           /\ \A w \in V1!Unserved' : pc'[w] \in Early
           /\ \A w \in V1!Stacked' : pc'[w] # "out" /\ w \notin V1!Unserved'
           /\ \A w \in Waiters : KeepsPhase(w) => V1!Phases'[w] = V1!Phases[w]
           /\ (\A v \in Waiters : KeepsPhase(v)) => V1!Phases' = V1!Phases
           /\ \A w \in Waiters, p \in {"out", "prewait", "parked", "woken"} :
                 (\A v \in Waiters \ {w} : KeepsPhase(v)) /\ V1!Phases'[w] = p
                 => V1!Phases' = [V1!Phases EXCEPT ![w] = p]
<1>1. (IInv1 => /\ \A w \in Waiters :
                      V1!Phases[w] = IF w \in V1!Unserved THEN "prewait"
                                     ELSE IF w \in V1!Stacked THEN "parked"
                                     ELSE IF pc[w] = "out" THEN "out" ELSE "woken"
                /\ \A w \in V1!Unserved : pc[w] \in Early
                /\ \A w \in V1!Stacked : w \in Waiters /\ Asleep(w) /\ wstate[w] # "signaled" /\ w \notin V1!Unserved)'
  BY PhaseFacts1, PTL
<1>2. /\ \A w \in Waiters :
            V1!Phases'[w] = IF w \in V1!Unserved' THEN "prewait"
                            ELSE IF w \in V1!Stacked' THEN "parked"
                            ELSE IF pc'[w] = "out" THEN "out" ELSE "woken"
      /\ \A w \in V1!Unserved' : pc'[w] \in Early BY <1>1
<1>3. \A w \in V1!Stacked' : pc'[w] # "out" /\ w \notin V1!Unserved' BY <1>1 DEF Asleep
<1>4. ASSUME NEW w \in Waiters, KeepsPhase(w) PROVE V1!Phases'[w] = V1!Phases[w]
  BY <1>2, <1>4, PhaseFacts1 DEF KeepsPhase
<1>5. V1!Phases = [w \in Waiters |-> V1!Phases[w]] BY DEF V1!Phases
<1>6. V1!Phases' = [w \in Waiters |-> V1!Phases'[w]] BY DEF V1!Phases
<1>7. ASSUME \A v \in Waiters : KeepsPhase(v) PROVE V1!Phases' = V1!Phases BY <1>4, <1>5, <1>6, <1>7
<1>8. ASSUME NEW w \in Waiters, NEW p \in {"out", "prewait", "parked", "woken"},
             \A v \in Waiters \ {w} : KeepsPhase(v), V1!Phases'[w] = p
      PROVE  V1!Phases' = [V1!Phases EXCEPT ![w] = p]
  <2>1. \A v \in Waiters \ {w} : V1!Phases'[v] = V1!Phases[v] BY <1>4, <1>8
  <2> QED BY <1>5, <1>6, <1>8, <2>1
<1> QED BY <1>2, <1>3, <1>4, <1>7, <1>8

LEMMA WaiterRefines1 ==
    ASSUME IInv1, IInv1', NEW w \in Waiters, Waits1(w)
    PROVE  UNCHANGED V1!TC!tcVars \/ V1!TC!TCNext
<1>t. V1!TypeOK /\ V1!TypeOK' BY DEF IInv1
<1>f. \A v \in Waiters \ {w} : pc'[v] = pc[v] BY WaiterFrame1
<1>u. V1!Unserved \subseteq Waiters BY DEF V1!Unserved, V1!Announced
<1>1. CASE V1!PrepareWait(w)
  <2>1. pc[w] = "out" BY <1>1 DEF V1!PrepareWait
  <2>2. V1!Stacked' = V1!Stacked
    <3>1. ~V1!CommitSwap(w) BY <2>1 DEF V1!CommitSwap
    <3> QED BY <1>t, <3>1, WaiterLists1 DEF ListsKept1
  <2>3. V1!Unserved' = V1!Unserved \cup {w} /\ V1!Line' = Append(V1!Line, w)
    BY <1>1, PrepareWaitWord, UnservedStep, LineStep
  <2>4. V1!Phases[w] = "out" BY <2>1, PhaseFacts1 DEF Early, Asleep
  <2>5. V1!Phases'[w] = "prewait" BY <2>3, PhasesMove1
  <2>6. \A v \in Waiters \ {w} : KeepsPhase(v) BY <1>f, <2>2, <2>3 DEF KeepsPhase
  <2>7. V1!Phases' = [V1!Phases EXCEPT ![w] = "prewait"] BY <2>5, <2>6, PhasesMove1
  <2>8. V1!TC!Announce(w) BY <2>3, <2>4, <2>7 DEF V1!TC!Announce
  <2> QED BY <2>8 DEF V1!TC!TCNext
<1>2. CASE V1!CommitSwap(w) /\ state = seen[w]
  <2>1. Decides1(w) BY <1>2, CommitSwapWord
  <2>2. V1!Stacked' = V1!Stacked \cup {w} BY <1>t, <1>2, PushLists1
  <2>3. V1!Unserved' = V1!Unserved \ {w} BY <2>1, UnservedStep
  <2>4. V1!Line # << >> /\ Head(V1!Line) = w /\ V1!Line' = Tail(V1!Line) BY <2>1, LineStep
  <2>5. V1!Phases'[w] = "parked" BY <2>2, <2>3, PhasesMove1
  <2>6. \A v \in Waiters \ {w} : KeepsPhase(v) BY <1>f, <2>2, <2>3 DEF KeepsPhase
  <2>7. V1!Phases' = [V1!Phases EXCEPT ![w] = "parked"] BY <2>5, <2>6, PhasesMove1
  <2>8. V1!TC!Decide("parked") BY <2>4, <2>7 DEF V1!TC!Decide
  <2> QED BY <2>8 DEF V1!TC!TCNext
<1>3. CASE V1!CancelSwap(w) /\ state = seen[w]
  <2>1. Decides1(w) BY <1>3, CancelSwapWord
  <2>2. pc[w] = "cancel" /\ pc'[w] = "out" BY <1>t, <1>3, CancelSwapEffect1 DEF Goes1
  <2>3. V1!Stacked' = V1!Stacked
    <3>1. ~V1!CommitSwap(w) BY <2>2 DEF V1!CommitSwap
    <3> QED BY <1>t, <3>1, WaiterLists1 DEF ListsKept1
  <2>4. V1!Unserved' = V1!Unserved \ {w} BY <2>1, UnservedStep
  <2>5. V1!Line # << >> /\ Head(V1!Line) = w /\ V1!Line' = Tail(V1!Line) BY <2>1, LineStep
  <2>6. w \notin V1!Unserved' /\ w \notin V1!Stacked' BY <2>2, <2>4, PhasesMove1
  <2>7. V1!Phases'[w] = "out" BY <2>2, <2>6, PhasesMove1
  <2>8. \A v \in Waiters \ {w} : KeepsPhase(v) BY <1>f, <2>3, <2>4 DEF KeepsPhase
  <2>9. V1!Phases' = [V1!Phases EXCEPT ![w] = "out"] BY <2>7, <2>8, PhasesMove1
  <2>10. V1!TC!Decide("out") BY <2>5, <2>9 DEF V1!TC!Decide
  <2> QED BY <2>10 DEF V1!TC!TCNext
<1>4. CASE ~V1!PrepareWait(w) /\ ~(V1!CommitSwap(w) /\ state = seen[w]) /\ ~(V1!CancelSwap(w) /\ state = seen[w])
  <2>1. Stays1 BY <1>4, WaiterStays
  <2>2. V1!Unserved' = V1!Unserved /\ V1!Line' = V1!Line BY <2>1, UnservedStep, LineStep
  <2>3. V1!Stacked' = V1!Stacked BY <1>t, <1>4, WaiterLists1 DEF ListsKept1
  <2>4. pc[w] # "out"
    BY <1>4 DEF Waits1, V1!CommitBegin, V1!CancelBegin, V1!Spin, V1!CommitSwap, V1!CancelSwap,
       V1!Park, V1!SpuriousWakeup
  <2>5. \A v \in Waiters \ {w} : KeepsPhase(v) BY <1>f, <2>2, <2>3 DEF KeepsPhase
  <2>6. CASE pc'[w] = "out"
    <3>1. w \notin V1!Unserved' /\ w \notin V1!Stacked' BY <2>6, PhasesMove1 DEF Early
    <3>2. V1!Phases'[w] = "out" BY <2>6, <3>1, PhasesMove1
    <3>3. V1!Phases[w] = "woken" BY <2>2, <2>3, <2>4, <3>1, PhaseFacts1
    <3>4. V1!Phases' = [V1!Phases EXCEPT ![w] = "out"] BY <2>5, <3>2, PhasesMove1
    <3>5. V1!TC!Leave(w) BY <2>2, <3>3, <3>4 DEF V1!TC!Leave
    <3> QED BY <3>5 DEF V1!TC!TCNext
  <2>7. CASE pc'[w] # "out"
    <3>1. KeepsPhase(w) BY <2>2, <2>3, <2>4, <2>7 DEF KeepsPhase
    <3>2. V1!Phases' = V1!Phases BY <2>5, <3>1, PhasesMove1
    <3> QED BY <2>2, <3>2 DEF V1!TC!tcVars
  <2> QED BY <2>6, <2>7
<1> QED BY <1>1, <1>2, <1>3, <1>4

LEMMA NotifierRefines1 ==
    ASSUME IInv1, IInv1', NEW n \in Notifiers, Notifies1(n)
    PROVE  UNCHANGED V1!TC!tcVars \/ V1!TC!TCNext
<1>t. V1!TypeOK /\ V1!TypeOK' /\ Places1 BY DEF IInv1
<1>e. epoch' = epoch BY NotifierFrame1
<1>s. ASSUME V1!NotifySwap(n) PROVE \A v \in Waiters : pc'[v] = pc[v]
  <2>1. ~V1!Wake(n) BY <1>s DEF V1!Wake, V1!NotifySwap
  <2> QED BY <2>1, NotifierFrame1
<1>1. CASE V1!NotifySwap(n) /\ Serves1(n)
  <2>1. PICK w \in V1!Announced : Decides1(w) BY <1>1, <1>e, ServesWord
  <2>2. w \in Waiters /\ pc[w] \in Early BY <2>1 DEF V1!Announced, Early
  <2>3. V1!Stacked' = V1!Stacked BY <1>1, <1>t, NotifierLists1 DEF ListsKept1
  <2>4. V1!Unserved' = V1!Unserved \ {w} BY <2>1, <2>2, UnservedStep
  <2>5. V1!Line # << >> /\ Head(V1!Line) = w /\ V1!Line' = Tail(V1!Line) BY <2>1, <2>2, LineStep
  <2>6. V1!Phases'[w] = "woken"
    <3>1. w \notin V1!Unserved' /\ pc'[w] \in Early BY <1>1, <1>s, <2>2, <2>4
    <3>2. w \notin V1!Stacked' BY <2>2, <2>3, PhaseFacts1 DEF Asleep, Early
    <3> QED BY <2>2, <3>1, <3>2, PhasesMove1 DEF Early
  <2>7. \A v \in Waiters \ {w} : KeepsPhase(v) BY <1>1, <1>s, <2>3, <2>4 DEF KeepsPhase
  <2>8. V1!Phases' = [V1!Phases EXCEPT ![w] = "woken"] BY <2>2, <2>6, <2>7, PhasesMove1
  <2>9. V1!TC!Decide("woken") BY <2>5, <2>8 DEF V1!TC!Decide
  <2> QED BY <2>9 DEF V1!TC!TCNext, V1!TC!WakeOne
<1>2. CASE V1!NotifySwap(n) /\ TakesAll1(n)
  <2>1. Serves1All BY <1>2, <1>e, TakesAllWord
  <2>2. V1!Stacked' = {} BY <1>2, <1>t, AllLists1
  <2>3. V1!Unserved' = {} /\ V1!Line' = << >> BY <2>1, UnservedStep, LineStep
  <2>4. \A w \in Waiters : V1!Phases'[w] = IF pc[w] = "out" THEN "out" ELSE "woken"
    BY <1>2, <1>s, <2>2, <2>3, PhasesMove1
  <2>5. \A w \in Waiters : V1!Phases[w] = "out" <=> pc[w] = "out" BY PhaseFacts1 DEF Asleep, Early
  <2>6. V1!Phases' = [w \in Waiters |-> V1!Phases'[w]] BY DEF V1!Phases
  <2>7. V1!Phases' = [w \in Waiters |-> IF V1!Phases[w] = "out" THEN "out" ELSE "woken"]
    BY <2>4, <2>5, <2>6
  <2>8. V1!TC!WakeAll BY <2>3, <2>7 DEF V1!TC!WakeAll
  <2> QED BY <2>8 DEF V1!TC!TCNext
<1>3. CASE V1!NotifySwap(n) /\ Pops1(n)
  <2>1. PICK w \in Waiters : w = state.stack BY <1>3 DEF Pops1
  <2>2. w \in V1!Stacked /\ V1!Stacked' = V1!Stacked \ {w} BY <1>3, <1>t, <2>1, PopLists1
  <2>3. ~(TakesAll1(n) \/ Serves1(n)) BY <1>3 DEF Pops1, TakesAll1, Serves1
  <2>4. Stays1 BY <2>3, NotifierStays
  <2>5. V1!Unserved' = V1!Unserved /\ V1!Line' = V1!Line BY <2>4, UnservedStep, LineStep
  <2>6. V1!Line = << >> BY <1>3, LineStep DEF Pops1
  <2>7. w \notin V1!Unserved /\ pc[w] # "out" /\ V1!Phases[w] = "parked"
    BY <2>2, PhaseFacts1 DEF Asleep
  <2>8. V1!Phases'[w] = "woken"
    <3>1. w \notin V1!Unserved' /\ w \notin V1!Stacked' /\ pc'[w] # "out" BY <1>3, <1>s, <2>2, <2>5, <2>7
    <3> QED BY <3>1, PhasesMove1
  <2>9. \A v \in Waiters \ {w} : KeepsPhase(v) BY <1>3, <1>s, <2>2, <2>5 DEF KeepsPhase
  <2>10. V1!Phases' = [V1!Phases EXCEPT ![w] = "woken"] BY <2>8, <2>9, PhasesMove1
  <2>11. w \in V1!TC!Parked BY <2>7 DEF V1!TC!Parked
  <2>12. V1!TC!WakeOne BY <2>5, <2>6, <2>10, <2>11 DEF V1!TC!WakeOne
  <2> QED BY <2>12 DEF V1!TC!TCNext
<1>4. CASE ~(V1!NotifySwap(n) /\ (Serves1(n) \/ TakesAll1(n) \/ Pops1(n)))
  <2>1. Stays1 BY <1>4, NotifierStays
  <2>2. V1!Unserved' = V1!Unserved /\ V1!Line' = V1!Line BY <2>1, UnservedStep, LineStep
  <2>3. V1!Stacked' = V1!Stacked
    <3>1. CASE V1!NotifySwap(n) BY <1>4, <1>t, <3>1, NotifySwapEffect1, NotifierLists1 DEF ListsKept1
    <3>2. CASE V1!Unpark(n) BY <1>t, <3>2, UnparkLists1
    <3>3. CASE V1!Wake(n) BY <1>t, <3>3, WakeLists1 DEF ListsKept1
    <3>4. CASE V1!NotifyBegin(n) \/ V1!NotifyReadNext(n) BY <1>t, <3>4, NotifierLists1 DEF ListsKept1
    <3> QED BY <3>1, <3>2, <3>3, <3>4 DEF Notifies1
  <2>4. \A v \in Waiters : pc'[v] = "out" <=> pc[v] = "out"
    <3>1. CASE V1!Wake(n)
      <4>1. PICK w \in Waiters : w = cur[n] BY <3>1, <1>t, WakeEffect1
      <4>2. /\ pc'[w] = (IF pc[w] = "blocked" THEN "park" ELSE pc[w])
            /\ \A v \in Waiters \ {w} : pc'[v] = pc[v]
        BY <3>1, <4>1, <1>t, WakeEffect1, Threads1Facts
      <4> QED BY <4>2
    <3>2. CASE ~V1!Wake(n) BY <3>2, NotifierFrame1
    <3> QED BY <3>1, <3>2
  <2>5. \A v \in Waiters : KeepsPhase(v) BY <2>2, <2>3, <2>4 DEF KeepsPhase
  <2>6. V1!Phases' = V1!Phases BY <2>5, PhasesMove1
  <2> QED BY <2>2, <2>6 DEF V1!TC!tcVars
<1> QED BY <1>1, <1>2, <1>3, <1>4

LEMMA StepRefines1 == IInv1 /\ IInv1' /\ [V1!Next]_(V1!vars) => [V1!TC!TCNext]_(V1!TC!tcVars)
<1> SUFFICES ASSUME IInv1, IInv1', [V1!Next]_(V1!vars) PROVE [V1!TC!TCNext]_(V1!TC!tcVars) OBVIOUS
<1>1. CASE UNCHANGED V1!vars
  <2>1. UNCHANGED <<state, next, epoch, pc>> BY <1>1 DEF V1!vars
  <2>2. V1!Announced' = V1!Announced BY <2>1 DEF V1!Announced
  <2>3. V1!Unserved' = V1!Unserved BY <2>1, <2>2 DEF V1!Unserved
  <2>4. V1!Stacked' = V1!Stacked BY <2>1 DEF V1!Stacked, V1!Chain
  <2>5. V1!Line' = V1!Line BY <2>1, <2>3 DEF V1!Line
  <2>6. V1!Phases' = V1!Phases BY <2>1, <2>3, <2>4 DEF V1!Phases
  <2> QED BY <2>5, <2>6 DEF V1!TC!tcVars
<1> QED BY <1>1, NextIs1, WaiterRefines1, NotifierRefines1

LEMMA InitRefines1 == V1!Init => V1!TC!TCInit
<1> SUFFICES ASSUME V1!Init PROVE V1!TC!TCInit OBVIOUS
<1>i. IInv1 BY InitInv1
<1>1. \A w \in Waiters : pc[w] = "out" BY DEF V1!Init, V1!Threads
<1>2. state.waiters = 0 BY DEF V1!Init, V1!NoWord
<1>3. V1!Line = << >> 
  <2>1. 1 .. 0 = {} OBVIOUS
  <2>2. V1!Line \in [{} -> Waiters] BY <1>i, <1>2, <2>1, LineIs
  <2> QED BY <2>2, SeqEmpty
<1>4. \A w \in Waiters : V1!Phases[w] = "out" BY <1>i, <1>1, PhaseFacts1 DEF Early, Asleep
<1>5. V1!Phases = [w \in Waiters |-> V1!Phases[w]] BY DEF V1!Phases
<1>6. V1!Phases = [w \in Waiters |-> "out"] BY <1>4, <1>5
<1> QED BY <1>3, <1>6 DEF V1!TC!TCInit

\* V1: every behaviour is one of the atomic ticket count: waiters are decided about in
\* the order of prepare_wait, and a sleeper is woken only when nobody is announced.
THEOREM TicketsImplement ==
    V1!Spec => V1!TC!TCInit /\ [][V1!TC!TCNext]_(V1!TC!tcVars)
<1>1. V1!Init => IInv1 /\ V1!TC!TCInit BY InitInv1, InitRefines1
<1>2. IInv1 /\ [V1!Next]_(V1!vars) => IInv1' BY NextInv1
<1>3. IInv1 /\ IInv1' /\ [V1!Next]_(V1!vars) => [V1!TC!TCNext]_(V1!TC!tcVars) BY StepRefines1
<1> QED BY <1>1, <1>2, <1>3, PTL DEF V1!Spec

----------------------------------------------------------------------------
(* The inductive invariant of the atomic notifier *)

AtWaiterPC == {"out", "recheck", "commit", "wait", "blocked", "leave"}
AtNotifierPC == {"idle", "load", "swap", "wake"}
AtPCs == AtWaiterPC \cup AtNotifierPC
AtThreads == Waiters \cup Notifiers

AtTypes ==
    /\ state \in At!Word
    /\ epoch \in [Waiters -> Nat]
    /\ pc \in [AtThreads -> AtPCs]
    /\ \A w \in Waiters : pc[w] \in AtWaiterPC
    /\ \A n \in Notifiers : pc[n] \in AtNotifierPC
    /\ seen \in [AtThreads -> At!Word]
    /\ all \in [Notifiers -> BOOLEAN]
    /\ work \in Nat /\ made \in Nat
    /\ eligible \in [Notifiers -> SUBSET Waiters]

\* The sleepers that saw the epoch as it is, and those that a notification has passed.
Fresh == {w \in At!Asleep : epoch[w] = state.epoch}
Stale == {w \in Waiters : pc[w] = "blocked" /\ epoch[w] # state.epoch}

\* The notifiers that may still change the epoch, and those that can wake every
\* sleeper that was passed.
Bumping == {n \in Notifiers : pc[n] \in {"load", "swap"}}
Covering == {n \in Notifiers : pc[n] = "wake" /\ Stale \subseteq eligible[n]}
Up == Waiters \ At!Asleep

\* While somebody sleeps on the epoch as it is, a notification to come answers for
\* every piece of work; while others sleep, one that is under way or a waiter that is up.
Covered ==
    /\ Fresh # {} => work <= Cardinality(Bumping)
    /\ Fresh = {} /\ Stale # {} => work <= Cardinality(Bumping) + Cardinality(Covering) + Cardinality(Up)

AtEpochs ==
    /\ \A w \in Waiters : epoch[w] <= state.epoch /\ (pc[w] \in {"wait", "blocked"} => seen[w].epoch = epoch[w])
    /\ state.epoch + Cardinality(Bumping) <= made /\ made <= MaxWork

AtInv ==
    /\ AtTypes
    /\ state.waiters = Cardinality(At!Announced)
    /\ AtEpochs
    /\ \A n \in Notifiers : eligible[n] \subseteq Stale
    /\ Covered

----------------------------------------------------------------------------
(* Sets and their sizes *)

LEMMA AtCardinality == ASSUME NEW S PROVE At!Cardinality(S) = Cardinality(S)
  BY Zenon DEF At!Cardinality, Cardinality

LEMMA AtFinite == IsFiniteSet(Waiters) /\ IsFiniteSet(Notifiers) /\ MaxWork \in Nat
<1>1. IsFiniteSet(Waiters) BY NotifierAssumption
<1>2. At!IsFiniteSet(Notifiers) /\ MaxWork \in Nat BY WorkAssumption DEF At!WorkAssumed
<1>3. IsFiniteSet(Notifiers) BY <1>2, Zenon DEF At!IsFiniteSet, IsFiniteSet
<1> QED BY <1>1, <1>2, <1>3

\* The size of a part of the waiters or of the notifiers.
LEMMA PartSize ==
    ASSUME NEW T \in {Waiters, Notifiers}, NEW S \in SUBSET T
    PROVE  IsFiniteSet(S) /\ Cardinality(S) \in Nat /\ Cardinality(S) <= Cardinality(T)
<1>1. IsFiniteSet(T) BY AtFinite
<1> QED BY <1>1, FS_Subset, FS_CardinalityType

LEMMA PartGrows ==
    ASSUME NEW T \in {Waiters, Notifiers}, NEW S \in SUBSET T, NEW R \in SUBSET S
    PROVE  Cardinality(R) <= Cardinality(S)
<1>1. IsFiniteSet(S) BY PartSize
<1> QED BY <1>1, FS_Subset

LEMMA PartAdds ==
    ASSUME NEW T \in {Waiters, Notifiers}, NEW S \in SUBSET T, NEW x
    PROVE  /\ x \notin S => Cardinality(S \cup {x}) = Cardinality(S) + 1
           /\ x \in S => Cardinality(S \ {x}) = Cardinality(S) - 1
<1>1. IsFiniteSet(S) /\ Cardinality(S) \in Nat BY PartSize
<1> QED BY <1>1, FS_AddElement, FS_RemoveElement

LEMMA AtSets ==
    /\ At!Announced \subseteq Waiters /\ At!Asleep \subseteq Waiters /\ Fresh \subseteq At!Asleep
    /\ Stale \subseteq Waiters /\ Up \subseteq Waiters
    /\ Bumping \subseteq Notifiers /\ Covering \subseteq Notifiers
    /\ At!Announced' \subseteq Waiters /\ At!Asleep' \subseteq Waiters /\ Fresh' \subseteq At!Asleep'
    /\ Stale' \subseteq Waiters /\ Up' \subseteq Waiters
    /\ Bumping' \subseteq Notifiers /\ Covering' \subseteq Notifiers
  BY DEF At!Announced, At!Asleep, Fresh, Stale, Up, Bumping, Covering

LEMMA AtSizes ==
    /\ Cardinality(At!Announced) \in Nat /\ Cardinality(Bumping) \in Nat /\ Cardinality(Covering) \in Nat
    /\ Cardinality(Up) \in Nat
    /\ Cardinality(At!Announced') \in Nat /\ Cardinality(Bumping') \in Nat /\ Cardinality(Covering') \in Nat
    /\ Cardinality(Up') \in Nat
    /\ Cardinality(At!Announced') <= Cardinality(Waiters) /\ Cardinality(Waiters) \in Nat
  BY AtSets, PartSize

LEMMA AtWordType == At!Word = [waiters : 0 .. Cardinality(Waiters), epoch : 0 .. MaxWork]
  BY AtCardinality DEF At!Word

LEMMA AtThreadsFacts ==
    /\ \A w \in Waiters : w \in AtThreads /\ w \notin Notifiers
    /\ \A n \in Notifiers : n \in AtThreads /\ n \notin Waiters BY NotifierAssumption DEF AtThreads

AtMoves(t, l) == pc'[t] = l /\ (\A u \in AtThreads \ {t} : pc'[u] = pc[u])

LEMMA AtGotoMoves ==
    ASSUME AtTypes, NEW t \in AtThreads, NEW l \in AtPCs, At!Goto(t, l)
    PROVE  AtMoves(t, l) /\ pc' \in [AtThreads -> AtPCs] BY DEF At!Goto, AtMoves, AtTypes

LEMMA AtLoadSees ==
    ASSUME AtTypes, NEW t \in AtThreads, At!Load(t) \/ At!Forget(t)
    PROVE  /\ seen' \in [AtThreads -> At!Word] /\ (At!Load(t) => seen'[t] = state)
           /\ \A u \in AtThreads \ {t} : seen'[u] = seen[u]
<1>1. At!NoWord \in At!Word BY AtWordType, AtFinite, AtSizes DEF At!NoWord
<1> QED BY <1>1 DEF At!Load, At!Forget, AtTypes

----------------------------------------------------------------------------
(* The steps of a waiter *)

LEMMA CoverKept ==
    ASSUME AtInv, Bumping' = Bumping, Stale' \subseteq Stale, Covering \subseteq Covering',
           work' \in Nat, work' <= work, (Fresh' = Fresh /\ Up \subseteq Up') \/ work' = 0
    PROVE  Covered'
<1> DEFINE b == Cardinality(Bumping)  c == Cardinality(Covering)  u == Cardinality(Up)
           cc == Cardinality(Covering')  uu == Cardinality(Up')
<1>1. /\ b \in Nat /\ c \in Nat /\ u \in Nat /\ cc \in Nat /\ uu \in Nat
      /\ Cardinality(Bumping') = b BY AtSizes
<1>2. c <= cc /\ (Up \subseteq Up' => u <= uu) BY AtSets, PartGrows
<1>3. Covered /\ work \in Nat BY DEF AtInv, AtTypes
<1>4. ASSUME Fresh' # {} PROVE work' <= b
  <2>1. CASE Fresh' = Fresh
    <3>1. work <= b BY <1>3, <1>4, <2>1 DEF Covered
    <3> QED BY <1>1, <1>3, <3>1
  <2>2. CASE work' = 0 BY <1>1, <2>2
  <2> QED BY <2>1, <2>2
<1>5. ASSUME Fresh' = {}, Stale' # {} PROVE work' <= b + cc + uu
  <2>1. CASE Fresh' = Fresh /\ Up \subseteq Up'
    <3>1. Stale # {} BY <1>5
    <3>2. work <= b + c + u BY <1>3, <1>5, <2>1, <3>1 DEF Covered
    <3> QED BY <1>1, <1>2, <1>3, <3>2
  <2>2. CASE work' = 0 BY <1>1, <2>2
  <2> QED BY <2>1, <2>2
<1> QED BY <1>1, <1>4, <1>5 DEF Covered

LEMMA AtWaiterStep ==
    ASSUME AtInv, AtTypes', NEW w \in Waiters, \A u \in AtThreads \ {w} : pc'[u] = pc[u],
           state'.epoch = state.epoch, state'.waiters = Cardinality(At!Announced'),
           made' = made, work' <= work, (Fresh' = Fresh /\ Up \subseteq Up') \/ work' = 0,
           Stale' \subseteq Stale,
           \A v \in Waiters : epoch'[v] <= state.epoch /\ (pc'[v] \in {"wait", "blocked"} => seen'[v].epoch = epoch'[v]),
           \A n \in Notifiers : eligible'[n] \subseteq Stale' /\ Stale' \cap eligible[n] \subseteq eligible'[n]
    PROVE  AtInv'
<1>1. \A n \in Notifiers : pc'[n] = pc[n] BY AtThreadsFacts
<1>2. Bumping' = Bumping BY <1>1 DEF Bumping
<1>3. Covering \subseteq Covering'
  <2> SUFFICES ASSUME NEW n \in Covering PROVE n \in Covering' OBVIOUS
  <2>1. n \in Notifiers /\ pc[n] = "wake" /\ Stale \subseteq eligible[n] BY DEF Covering
  <2>2. pc'[n] = "wake" BY <1>1, <2>1
  <2>3. Stale' \subseteq eligible'[n] BY <2>1
  <2> QED BY <2>1, <2>2, <2>3 DEF Covering
<1>4. work' \in Nat BY DEF AtTypes
<1>5. Covered' BY <1>2, <1>3, <1>4, CoverKept
<1>6. AtEpochs' BY <1>2 DEF AtInv, AtEpochs
<1> QED BY <1>5, <1>6 DEF AtInv

\* What a step of a waiter that keeps the epochs and the work leaves alone.
LEMMA AtWaiterMove ==
    ASSUME AtInv, AtTypes', NEW w \in Waiters, NEW l, AtMoves(w, l),
           UNCHANGED <<epoch, made>>, work' <= work, state'.epoch = state.epoch,
           state'.waiters = Cardinality(At!Announced'),
           \A v \in Waiters \ {w} : seen'[v] = seen[v],
           l \in {"wait", "blocked"} => seen'[w].epoch = epoch[w],
           w \in At!Asleep' => w \in At!Asleep /\ (l = "blocked" => pc[w] = "blocked" \/ epoch[w] = state.epoch),
           w \in Fresh => w \in At!Asleep',
           w \in Stale \ Stale' => \A n \in Notifiers : eligible'[n] = eligible[n] \ {w},
           w \notin Stale \ Stale' => eligible' = eligible
    PROVE  AtInv'
<1>0. AtTypes /\ AtEpochs /\ \A n \in Notifiers : eligible[n] \subseteq Stale BY DEF AtInv
<1>1. pc'[w] = l /\ (\A v \in Waiters \ {w} : pc'[v] = pc[v]) /\ \A u \in AtThreads \ {w} : pc'[u] = pc[u]
  BY AtThreadsFacts DEF AtMoves
<1>2. \A v \in Waiters \ {w} : v \in At!Asleep' <=> v \in At!Asleep BY <1>1 DEF At!Asleep
<1>3. Fresh' = Fresh
  <2>1. w \in Fresh' <=> w \in Fresh BY DEF Fresh
  <2>2. \A v \in Waiters \ {w} : v \in Fresh' <=> v \in Fresh BY <1>2 DEF Fresh
  <2> QED BY <2>1, <2>2, AtSets
<1>4. Stale' \subseteq Stale /\ Stale \ {w} \subseteq Stale'
  <2>1. \A v \in Waiters \ {w} : v \in Stale' <=> v \in Stale BY <1>1 DEF Stale
  <2>2. ASSUME w \in Stale' PROVE w \in Stale
    <3>1. l = "blocked" /\ epoch[w] # state.epoch /\ w \in At!Asleep'
      BY <1>1, <2>2 DEF Stale, At!Asleep
    <3> QED BY <3>1 DEF Stale
  <2> QED BY <2>1, <2>2, AtSets
<1>5. Up \subseteq Up' BY <1>2 DEF Up, At!Asleep
<1>6. \A v \in Waiters : epoch'[v] <= state.epoch /\ (pc'[v] \in {"wait", "blocked"} => seen'[v].epoch = epoch'[v])
  BY <1>0, <1>1 DEF AtEpochs
<1>7. ASSUME NEW n \in Notifiers
      PROVE  eligible'[n] \subseteq Stale' /\ Stale' \cap eligible[n] \subseteq eligible'[n]
  <2>1. CASE w \in Stale \ Stale' BY <1>0, <1>4, <2>1
  <2>2. CASE w \notin Stale \ Stale' BY <1>0, <1>4, <2>2
  <2> QED BY <2>1, <2>2
<1> QED BY <1>1, <1>3, <1>4, <1>5, <1>6, <1>7, AtWaiterStep

LEMMA AtAnnouncedStep ==
    ASSUME NEW w \in Waiters, \A v \in Waiters \ {w} : pc'[v] = pc[v],
           pc[w] \in AtWaiterPC, pc'[w] \in AtWaiterPC
    PROVE  /\ pc[w] # "out" /\ pc'[w] # "out" => At!Announced' = At!Announced
           /\ pc[w] = "out" /\ pc'[w] # "out" =>
                 Cardinality(At!Announced') = Cardinality(At!Announced) + 1
           /\ pc[w] # "out" /\ pc'[w] = "out" =>
                 Cardinality(At!Announced') = Cardinality(At!Announced) - 1
<1>1. At!Announced = {v \in Waiters : pc[v] \in AtWaiterPC \ {"out"}}
  BY DEF At!Announced, AtWaiterPC
<1>2. At!Announced' = {v \in Waiters : pc'[v] \in AtWaiterPC \ {"out"}}
  BY DEF At!Announced, AtWaiterPC
<1>3. ASSUME pc[w] # "out", pc'[w] # "out" PROVE At!Announced' = At!Announced BY <1>1, <1>2, <1>3
<1>4. ASSUME pc[w] = "out", pc'[w] # "out"
      PROVE  Cardinality(At!Announced') = Cardinality(At!Announced) + 1
  <2>1. w \notin At!Announced /\ At!Announced' = At!Announced \cup {w} BY <1>1, <1>2, <1>4
  <2> QED BY <2>1, AtSets, PartAdds
<1>5. ASSUME pc[w] # "out", pc'[w] = "out"
      PROVE  Cardinality(At!Announced') = Cardinality(At!Announced) - 1
  <2>1. w \in At!Announced /\ At!Announced' = At!Announced \ {w} BY <1>1, <1>2, <1>5
  <2> QED BY <2>1, AtSets, PartAdds
<1> QED BY <1>3, <1>4, <1>5

LEMMA TakeWorkInv == ASSUME AtInv, NEW w \in Waiters, At!TakeWork(w) PROVE AtInv'
<1>1. /\ pc[w] = "out" /\ work > 0 /\ work' = work - 1
      /\ UNCHANGED <<state, epoch, pc, seen, all, made, eligible>> BY DEF At!TakeWork
<1>2. AtTypes BY DEF AtInv
<1>3. work' \in Nat /\ work' <= work BY <1>1, <1>2 DEF AtTypes
<1>4. AtTypes' BY <1>1, <1>2, <1>3, AtWordType DEF AtTypes, At!Word
<1>5. At!Announced' = At!Announced /\ At!Asleep' = At!Asleep BY <1>1 DEF At!Announced, At!Asleep
<1>6. Fresh' = Fresh /\ Stale' = Stale /\ Up' = Up BY <1>1, <1>5 DEF Fresh, Stale, Up
<1> QED BY <1>1, <1>3, <1>4, <1>5, <1>6, AtWaiterStep DEF AtInv, AtEpochs

LEMMA AtPrepareWaitInv == ASSUME AtInv, NEW w \in Waiters, At!PrepareWait(w) PROVE AtInv'
<1>1. /\ pc[w] = "out" /\ state' = [state EXCEPT !.waiters = @ + 1]
      /\ epoch' = [epoch EXCEPT ![w] = state.epoch] /\ At!Goto(w, "recheck")
      /\ UNCHANGED <<seen, all, work, made, eligible>> BY DEF At!PrepareWait
<1>2. AtTypes /\ AtEpochs /\ state.waiters = Cardinality(At!Announced)
      /\ \A n \in Notifiers : eligible[n] \subseteq Stale BY DEF AtInv
<1>3. w \in AtThreads /\ "recheck" \in AtPCs BY AtThreadsFacts DEF AtPCs, AtWaiterPC
<1>4. AtMoves(w, "recheck") /\ pc' \in [AtThreads -> AtPCs] BY <1>1, <1>2, <1>3, AtGotoMoves
<1>5. /\ pc'[w] = "recheck" /\ (\A v \in Waiters \ {w} : pc'[v] = pc[v])
      /\ (\A n \in Notifiers : pc'[n] = pc[n]) /\ \A u \in AtThreads \ {w} : pc'[u] = pc[u]
  BY <1>4, AtThreadsFacts DEF AtMoves
<1>6. Cardinality(At!Announced') = Cardinality(At!Announced) + 1
  BY <1>1, <1>5, AtAnnouncedStep DEF AtWaiterPC
<1>7. state.epoch \in 0 .. MaxWork /\ state.epoch \in Nat BY <1>2, AtFinite, AtWordType DEF AtTypes
<1>8. /\ state'.waiters = Cardinality(At!Announced') /\ state'.epoch = state.epoch
      /\ state' \in At!Word
  <2>1. state.waiters + 1 = Cardinality(At!Announced') BY <1>2, <1>6
  <2>2. state.waiters + 1 \in 0 .. Cardinality(Waiters) BY <2>1, AtSizes
  <2> QED BY <1>1, <1>2, <2>1, <2>2, AtWordType DEF AtTypes
<1>9. epoch'[w] = state.epoch /\ (\A v \in Waiters \ {w} : epoch'[v] = epoch[v])
      /\ epoch' \in [Waiters -> Nat] BY <1>1, <1>2, <1>7 DEF AtTypes
<1>10. AtTypes' BY <1>1, <1>2, <1>4, <1>5, <1>8, <1>9, AtWordType DEF AtTypes, At!Word, AtWaiterPC
<1>11. Fresh' = Fresh /\ Stale' = Stale /\ Up' = Up
  <2>1. \A v \in Waiters : v \in At!Asleep' <=> v \in At!Asleep
    BY <1>1, <1>5, <1>8, <1>9 DEF At!Asleep
  <2>2. At!Asleep' = At!Asleep BY <2>1, AtSets
  <2>3. w \notin At!Asleep BY <1>1 DEF At!Asleep
  <2>4. Fresh' = Fresh BY <1>8, <1>9, <2>2, <2>3, AtSets DEF Fresh
  <2>5. Stale' = Stale BY <1>1, <1>5, <1>8, <1>9 DEF Stale
  <2> QED BY <2>2, <2>4, <2>5 DEF Up
<1>12. \A v \in Waiters : epoch'[v] <= state.epoch /\ (pc'[v] \in {"wait", "blocked"} => seen'[v].epoch = epoch'[v])
  BY <1>1, <1>2, <1>5, <1>7, <1>9 DEF AtEpochs
<1>13. work' <= work BY <1>1, <1>2 DEF AtTypes
<1> QED BY <1>1, <1>2, <1>5, <1>8, <1>10, <1>11, <1>12, <1>13, AtWaiterStep

LEMMA RecheckInv == ASSUME AtInv, NEW w \in Waiters, At!Recheck(w) PROVE AtInv'
<1>1. /\ pc[w] = "recheck" /\ At!Goto(w, IF work > 0 THEN "leave" ELSE "commit")
      /\ UNCHANGED <<state, epoch, seen, all, work, made, eligible>> BY DEF At!Recheck
<1>2. AtTypes /\ AtEpochs /\ state.waiters = Cardinality(At!Announced)
      /\ \A n \in Notifiers : eligible[n] \subseteq Stale BY DEF AtInv
<1>3. PICK l \in {"leave", "commit"} : l = IF work > 0 THEN "leave" ELSE "commit" OBVIOUS
<1>4. w \in AtThreads /\ l \in AtPCs BY AtThreadsFacts DEF AtPCs, AtWaiterPC
<1>5. AtMoves(w, l) /\ pc' \in [AtThreads -> AtPCs] BY <1>1, <1>2, <1>3, <1>4, AtGotoMoves
<1>6. /\ pc'[w] = l /\ (\A v \in Waiters \ {w} : pc'[v] = pc[v])
      /\ (\A n \in Notifiers : pc'[n] = pc[n]) /\ \A u \in AtThreads \ {w} : pc'[u] = pc[u]
  BY <1>5, AtThreadsFacts DEF AtMoves
<1>7. At!Announced' = At!Announced BY <1>1, <1>6, AtAnnouncedStep DEF AtWaiterPC
<1>8. AtTypes' BY <1>1, <1>2, <1>5, <1>6, AtWordType DEF AtTypes, At!Word, AtWaiterPC
<1>9. work \in Nat BY <1>2 DEF AtTypes
<1>10. CASE l = "leave"
  BY <1>1, <1>2, <1>5, <1>6, <1>7, <1>8, <1>9, <1>10, AtWaiterMove DEF At!Asleep, Fresh, Stale
<1>11. CASE l = "commit"
  <2>1. work' = 0 BY <1>1, <1>3, <1>9, <1>11
  <2>2. Stale' = Stale BY <1>1, <1>6, <1>11 DEF Stale
  <2>3. \A v \in Waiters : epoch'[v] <= state.epoch /\ (pc'[v] \in {"wait", "blocked"} => seen'[v].epoch = epoch'[v])
    BY <1>1, <1>2, <1>6, <1>11 DEF AtEpochs
  <2> QED BY <1>1, <1>2, <1>6, <1>7, <1>8, <1>9, <2>1, <2>2, <2>3, AtWaiterStep
<1> QED BY <1>10, <1>11

LEMMA CommitLoadInv == ASSUME AtInv, NEW w \in Waiters, At!CommitLoad(w) PROVE AtInv'
<1>1. /\ pc[w] = "commit"
      /\ \/ state.epoch = epoch[w] /\ At!Goto(w, "wait") /\ At!Load(w)
         \/ state.epoch # epoch[w] /\ At!Goto(w, "leave") /\ At!Forget(w)
      /\ UNCHANGED <<state, epoch, all, work, made, eligible>> BY DEF At!CommitLoad
<1>2. AtTypes /\ AtEpochs /\ state.waiters = Cardinality(At!Announced) BY DEF AtInv
<1>3. PICK l \in {"leave", "wait"} : l = IF state.epoch = epoch[w] THEN "wait" ELSE "leave" OBVIOUS
<1>4. w \in AtThreads /\ l \in AtPCs BY AtThreadsFacts DEF AtPCs, AtWaiterPC
<1>5. AtMoves(w, l) /\ pc' \in [AtThreads -> AtPCs] BY <1>1, <1>2, <1>3, <1>4, AtGotoMoves
<1>6. /\ pc'[w] = l /\ (\A v \in Waiters \ {w} : pc'[v] = pc[v]) /\ (\A n \in Notifiers : pc'[n] = pc[n])
  BY <1>5, AtThreadsFacts DEF AtMoves
<1>7. /\ seen' \in [AtThreads -> At!Word] /\ (l = "wait" => seen'[w] = state)
      /\ \A v \in Waiters \ {w} : seen'[v] = seen[v]
  BY <1>1, <1>2, <1>3, <1>4, AtLoadSees, AtThreadsFacts
<1>8. At!Announced' = At!Announced BY <1>1, <1>6, AtAnnouncedStep DEF AtWaiterPC
<1>9. AtTypes' BY <1>1, <1>2, <1>5, <1>6, <1>7, AtWordType DEF AtTypes, At!Word, AtWaiterPC
<1>10. work' <= work BY <1>1, <1>2 DEF AtTypes
<1>11. /\ w \in At!Asleep' => w \in At!Asleep
       /\ w \in Fresh => w \in At!Asleep'
       /\ w \notin Stale BY <1>1, <1>3, <1>6 DEF At!Asleep, Fresh, Stale
<1> QED BY <1>1, <1>2, <1>3, <1>5, <1>7, <1>8, <1>9, <1>10, <1>11, AtWaiterMove

LEMMA AtWaitInv == ASSUME AtInv, NEW w \in Waiters, At!Wait(w) PROVE AtInv'
<1>1. /\ pc[w] = "wait" /\ At!Goto(w, IF state = seen[w] THEN "blocked" ELSE "commit")
      /\ UNCHANGED <<state, epoch, seen, all, work, made, eligible>> BY DEF At!Wait
<1>2. AtTypes /\ AtEpochs /\ state.waiters = Cardinality(At!Announced) BY DEF AtInv
<1>3. PICK l \in {"blocked", "commit"} : l = IF state = seen[w] THEN "blocked" ELSE "commit" OBVIOUS
<1>4. w \in AtThreads /\ l \in AtPCs BY AtThreadsFacts DEF AtPCs, AtWaiterPC
<1>5. AtMoves(w, l) /\ pc' \in [AtThreads -> AtPCs] BY <1>1, <1>2, <1>3, <1>4, AtGotoMoves
<1>6. /\ pc'[w] = l /\ (\A v \in Waiters \ {w} : pc'[v] = pc[v]) /\ (\A n \in Notifiers : pc'[n] = pc[n])
  BY <1>5, AtThreadsFacts DEF AtMoves
<1>7. l = "blocked" => epoch[w] = state.epoch
  <2>1. seen[w].epoch = epoch[w] BY <1>1, <1>2 DEF AtEpochs
  <2> QED BY <1>3, <2>1
<1>8. At!Announced' = At!Announced BY <1>1, <1>6, AtAnnouncedStep DEF AtWaiterPC
<1>9. AtTypes' BY <1>1, <1>2, <1>5, <1>6, AtWordType DEF AtTypes, At!Word, AtWaiterPC
<1>10. work' <= work BY <1>1, <1>2 DEF AtTypes
<1>12. seen'[w].epoch = epoch[w] BY <1>1, <1>2 DEF AtEpochs
<1>11. /\ w \in At!Asleep' => w \in At!Asleep
       /\ w \in Fresh => w \in At!Asleep'
       /\ w \notin Stale BY <1>1, <1>3, <1>6, <1>7 DEF At!Asleep, Fresh, Stale
<1> QED BY <1>1, <1>2, <1>3, <1>5, <1>7, <1>8, <1>9, <1>10, <1>11, <1>12, AtWaiterMove

\* Threads that are unblocked compare again.
LEMMA UnblockedPC ==
    ASSUME AtTypes, NEW S \in SUBSET Waiters,
           pc' = [t \in DOMAIN pc |-> IF t \in S THEN "wait" ELSE pc[t]]
    PROVE  /\ pc' \in [AtThreads -> AtPCs] /\ (\A w \in S : pc'[w] = "wait")
           /\ \A t \in AtThreads \ S : pc'[t] = pc[t]
<1>1. DOMAIN pc = AtThreads BY DEF AtTypes
<1>2. pc' = [t \in AtThreads |-> IF t \in S THEN "wait" ELSE pc[t]] BY <1>1
<1>3. "wait" \in AtPCs /\ S \subseteq AtThreads BY DEF AtPCs, AtWaiterPC, AtThreads
<1> QED BY <1>2, <1>3 DEF AtTypes

LEMMA AtSpuriousInv == ASSUME AtInv, NEW w \in Waiters, At!SpuriousWakeup(w) PROVE AtInv'
<1>1. /\ pc[w] = "blocked" /\ At!Unblocked({w})
      /\ UNCHANGED <<state, epoch, seen, all, work, made>> BY DEF At!SpuriousWakeup
<1>2. AtTypes /\ AtEpochs /\ state.waiters = Cardinality(At!Announced)
      /\ \A n \in Notifiers : eligible[n] \subseteq Stale BY DEF AtInv
<1>3. /\ pc' \in [AtThreads -> AtPCs] /\ pc'[w] = "wait"
      /\ \A t \in AtThreads \ {w} : pc'[t] = pc[t] BY <1>1, <1>2, UnblockedPC DEF At!Unblocked
<1>4. /\ (\A v \in Waiters \ {w} : pc'[v] = pc[v])
      /\ (\A n \in Notifiers : pc'[n] = pc[n]) BY <1>3, AtThreadsFacts
<1>5. eligible' = [n \in Notifiers |-> eligible[n] \ {w}] BY <1>1 DEF At!Unblocked
<1>6. At!Announced' = At!Announced BY <1>1, <1>3, <1>4, AtAnnouncedStep DEF AtWaiterPC
<1>7. AtTypes' BY <1>1, <1>2, <1>3, <1>4, <1>5, AtWordType DEF AtTypes, At!Word, AtWaiterPC
<1>8. Stale' = Stale \ {w} BY <1>1, <1>3, <1>4 DEF Stale
<1>9. Fresh' = Fresh /\ Up \subseteq Up'
  <2>1. \A v \in Waiters \ {w} : v \in At!Asleep' <=> v \in At!Asleep BY <1>1, <1>4 DEF At!Asleep
  <2>2. w \in At!Asleep /\ (w \in At!Asleep' <=> epoch[w] = state.epoch) BY <1>1, <1>3 DEF At!Asleep
  <2> QED BY <1>1, <2>1, <2>2, AtSets DEF Fresh, Up
<1>10. \A v \in Waiters :
          epoch'[v] <= state.epoch /\ (pc'[v] \in {"wait", "blocked"} => seen'[v].epoch = epoch'[v])
  BY <1>1, <1>2, <1>4 DEF AtEpochs
<1>11. work' <= work BY <1>1, <1>2 DEF AtTypes
<1> QED BY <1>1, <1>2, <1>3, <1>5, <1>6, <1>7, <1>8, <1>9, <1>10, <1>11, AtWaiterStep

LEMMA AtLeaveInv == ASSUME AtInv, NEW w \in Waiters, At!Leave(w) PROVE AtInv'
<1>1. /\ pc[w] = "leave" /\ At!Goto(w, "out") /\ state' = [state EXCEPT !.waiters = @ - 1]
      /\ UNCHANGED <<epoch, seen, all, work, made, eligible>> BY DEF At!Leave
<1>2. AtTypes /\ AtEpochs /\ state.waiters = Cardinality(At!Announced) BY DEF AtInv
<1>3. w \in AtThreads /\ "out" \in AtPCs BY AtThreadsFacts DEF AtPCs, AtWaiterPC
<1>4. AtMoves(w, "out") /\ pc' \in [AtThreads -> AtPCs] BY <1>1, <1>2, <1>3, AtGotoMoves
<1>5. /\ pc'[w] = "out" /\ (\A v \in Waiters \ {w} : pc'[v] = pc[v]) /\ (\A n \in Notifiers : pc'[n] = pc[n])
  BY <1>4, AtThreadsFacts DEF AtMoves
<1>6. Cardinality(At!Announced') = Cardinality(At!Announced) - 1
  BY <1>1, <1>5, AtAnnouncedStep DEF AtWaiterPC
<1>7. /\ state'.waiters = Cardinality(At!Announced') /\ state'.epoch = state.epoch
      /\ state' \in At!Word
  <2>1. state.waiters - 1 = Cardinality(At!Announced') BY <1>2, <1>6
  <2>2. state.waiters - 1 \in 0 .. Cardinality(Waiters) BY <2>1, AtSizes
  <2> QED BY <1>1, <1>2, <2>1, <2>2, AtWordType DEF AtTypes
<1>8. AtTypes' BY <1>1, <1>2, <1>4, <1>5, <1>7 DEF AtTypes, AtWaiterPC
<1>9. work' <= work BY <1>1, <1>2 DEF AtTypes
<1>10. w \notin At!Asleep' /\ w \notin Fresh /\ w \notin Stale
  BY <1>1, <1>5 DEF At!Asleep, Fresh, Stale
<1> QED BY <1>1, <1>4, <1>7, <1>8, <1>9, <1>10, AtWaiterMove

----------------------------------------------------------------------------
(* The steps of a notifier *)

LEMMA MakeWorkInv == ASSUME AtInv, NEW n \in Notifiers, At!MakeWork(n) PROVE AtInv'
<1>1. /\ pc[n] = "idle" /\ made < MaxWork /\ made' = made + 1 /\ work' = work + 1
      /\ \E a \in BOOLEAN : all' = [all EXCEPT ![n] = a]
      /\ At!Goto(n, "load") /\ UNCHANGED <<state, epoch, seen, eligible>> BY DEF At!MakeWork
<1>2. AtTypes /\ AtEpochs /\ Covered BY DEF AtInv
<1>3. n \in AtThreads /\ "load" \in AtPCs BY AtThreadsFacts DEF AtPCs, AtNotifierPC
<1>4. AtMoves(n, "load") /\ pc' \in [AtThreads -> AtPCs] BY <1>1, <1>2, <1>3, AtGotoMoves
<1>5. /\ pc'[n] = "load" /\ (\A v \in Waiters : pc'[v] = pc[v])
      /\ (\A m \in Notifiers \ {n} : pc'[m] = pc[m]) BY <1>4, AtThreadsFacts DEF AtMoves
<1>6. AtTypes' BY <1>1, <1>2, <1>4, <1>5, AtWordType DEF AtTypes, At!Word, AtNotifierPC
<1>7. /\ At!Announced' = At!Announced /\ At!Asleep' = At!Asleep /\ Fresh' = Fresh /\ Stale' = Stale
      /\ Up' = Up
  <2>1. At!Announced' = At!Announced /\ At!Asleep' = At!Asleep BY <1>1, <1>5 DEF At!Announced, At!Asleep
  <2> QED BY <1>1, <1>5, <2>1 DEF Fresh, Stale, Up
<1>8. n \notin Bumping /\ Bumping' = Bumping \cup {n} BY <1>1, <1>5 DEF Bumping
<1>9. Cardinality(Bumping') = Cardinality(Bumping) + 1 BY <1>8, AtSets, PartAdds
<1>10. Covering' = Covering BY <1>1, <1>5, <1>7 DEF Covering
<1>11. AtEpochs'
  <2>1. state.epoch \in Nat /\ made \in Nat BY <1>2, AtFinite, AtWordType DEF AtTypes
  <2>2. state.epoch + (Cardinality(Bumping) + 1) <= made + 1 /\ made + 1 <= MaxWork
    BY <1>1, <1>2, <2>1, AtSizes, AtFinite DEF AtEpochs
  <2>3. state'.epoch + Cardinality(Bumping') <= made' /\ made' <= MaxWork BY <1>1, <1>9, <2>2
  <2>4. \A v \in Waiters :
           epoch'[v] <= state'.epoch /\ (pc'[v] \in {"wait", "blocked"} => seen'[v].epoch = epoch'[v])
    BY <1>1, <1>2, <1>5 DEF AtEpochs
  <2> QED BY <2>3, <2>4 DEF AtEpochs
<1>12. Covered'
  <2>1. work \in Nat BY <1>2 DEF AtTypes
  <2> QED BY <1>1, <1>2, <1>7, <1>9, <1>10, <2>1, AtSizes DEF Covered
<1> QED BY <1>1, <1>6, <1>7, <1>11, <1>12 DEF AtInv

\* Without announced waiters nobody sleeps.
LEMMA NobodyAsleep ==
    ASSUME AtInv, ~(state.waiters > 0)
    PROVE  At!Asleep = {} /\ Fresh = {} /\ Stale = {}
<1>1. Cardinality(At!Announced) = 0 BY AtSizes DEF AtInv
<1>2. IsFiniteSet(At!Announced) BY AtSets, PartSize
<1>3. At!Announced = {} BY <1>1, <1>2, FS_EmptySet
<1>4. At!Asleep = {} BY <1>3 DEF At!Announced, At!Asleep
<1>5. Stale = {} BY <1>3 DEF At!Announced, Stale
<1> QED BY <1>4, <1>5, AtSets

LEMMA LoadOrReturnInv ==
    ASSUME AtInv, NEW n \in Notifiers, pc[n] \in {"load", "swap"}, At!LoadOrReturn(n),
           UNCHANGED <<state, epoch, all, work, made, eligible>>
    PROVE  AtInv'
<1>1. AtTypes /\ AtEpochs /\ Covered BY DEF AtInv
<1>2. n \in AtThreads /\ {"idle", "swap"} \subseteq AtPCs BY AtThreadsFacts DEF AtPCs, AtNotifierPC
<1>3. PICK l \in {"idle", "swap"} : l = IF state.waiters > 0 THEN "swap" ELSE "idle" OBVIOUS
<1>4. At!Goto(n, l) /\ (At!Load(n) \/ At!Forget(n)) BY <1>3 DEF At!LoadOrReturn
<1>5. AtMoves(n, l) /\ pc' \in [AtThreads -> AtPCs] BY <1>1, <1>2, <1>4, AtGotoMoves
<1>6. /\ pc'[n] = l /\ (\A v \in Waiters : pc'[v] = pc[v])
      /\ (\A m \in Notifiers \ {n} : pc'[m] = pc[m]) BY <1>5, AtThreadsFacts DEF AtMoves
<1>7. seen' \in [AtThreads -> At!Word] /\ \A v \in Waiters : seen'[v] = seen[v]
  BY <1>1, <1>2, <1>4, AtLoadSees, AtThreadsFacts
<1>8. AtTypes' BY <1>1, <1>5, <1>6, <1>7, AtWordType DEF AtTypes, At!Word, AtNotifierPC
<1>9. /\ At!Announced' = At!Announced /\ Fresh' = Fresh /\ Stale' = Stale /\ Up' = Up
  <2>1. At!Announced' = At!Announced /\ At!Asleep' = At!Asleep BY <1>6 DEF At!Announced, At!Asleep
  <2> QED BY <1>6, <2>1 DEF Fresh, Stale, Up
<1>10. Covering' = Covering BY <1>6, <1>9 DEF Covering
<1>11. n \in Bumping /\ Bumping' = IF l = "swap" THEN Bumping ELSE Bumping \ {n} BY <1>6 DEF Bumping
<1>12. Cardinality(Bumping') <= Cardinality(Bumping) BY <1>11, AtSets, PartGrows
<1>13. AtEpochs'
  <2>1. state.epoch \in Nat /\ made \in Nat BY <1>1, AtFinite, AtWordType DEF AtTypes
  <2>2. state.epoch + Cardinality(Bumping') <= made /\ made <= MaxWork
    BY <1>1, <1>12, <2>1, AtSizes, AtFinite DEF AtEpochs
  <2> QED BY <1>1, <1>6, <1>7, <2>2 DEF AtEpochs
<1>14. Covered'
  <2>1. CASE l = "swap" BY <1>1, <1>9, <1>10, <1>11, <2>1 DEF Covered
  <2>2. CASE l = "idle"
    <3>1. Fresh = {} /\ Stale = {} BY <1>3, <2>2, NobodyAsleep
    <3> QED BY <1>9, <3>1 DEF Covered
  <2> QED BY <2>1, <2>2
<1> QED BY <1>8, <1>9, <1>13, <1>14 DEF AtInv

\* A notification passes everybody that sleeps, and can wake them all.
LEMMA AtBumpInv ==
    ASSUME AtInv, NEW n \in Notifiers, At!NotifySwap(n), state = seen[n]
    PROVE  AtInv'
<1> DEFINE B == {w \in Waiters : pc[w] = "blocked"}
<1>1. /\ pc[n] = "swap" /\ state' = [state EXCEPT !.epoch = @ + 1]
      /\ eligible' = [eligible EXCEPT ![n] = B]
      /\ At!Goto(n, "wake") /\ At!Forget(n) /\ UNCHANGED <<epoch, all, work, made>>
  BY DEF At!NotifySwap
<1>2. AtTypes /\ AtEpochs /\ Covered /\ \A m \in Notifiers : eligible[m] \subseteq Stale BY DEF AtInv
<1>3. n \in AtThreads /\ "wake" \in AtPCs BY AtThreadsFacts DEF AtPCs, AtNotifierPC
<1>4. AtMoves(n, "wake") /\ pc' \in [AtThreads -> AtPCs] BY <1>1, <1>2, <1>3, AtGotoMoves
<1>5. /\ pc'[n] = "wake" /\ (\A v \in Waiters : pc'[v] = pc[v])
      /\ (\A m \in Notifiers \ {n} : pc'[m] = pc[m]) BY <1>4, AtThreadsFacts DEF AtMoves
<1>6. seen' \in [AtThreads -> At!Word] /\ \A v \in Waiters : seen'[v] = seen[v]
  BY <1>1, <1>2, <1>3, AtLoadSees, AtThreadsFacts
<1>7. n \in Bumping /\ Bumping' = Bumping \ {n} BY <1>1, <1>5 DEF Bumping
<1>8. Cardinality(Bumping') = Cardinality(Bumping) - 1 BY <1>7, AtSets, PartAdds
<1>9. state.epoch \in Nat /\ made \in Nat /\ MaxWork \in Nat BY <1>2, AtFinite, AtWordType DEF AtTypes
<1>10. /\ state.epoch + 1 + Cardinality(Bumping') <= made /\ made <= MaxWork
       /\ state.epoch + 1 \in 0 .. MaxWork BY <1>2, <1>8, <1>9, AtSizes DEF AtEpochs
<1>11. state' \in At!Word /\ state'.epoch = state.epoch + 1 /\ state'.waiters = state.waiters
  BY <1>1, <1>2, <1>10, AtWordType DEF AtTypes
<1>12. /\ eligible'[n] = B /\ (\A m \in Notifiers \ {n} : eligible'[m] = eligible[m])
       /\ eligible' \in [Notifiers -> SUBSET Waiters] BY <1>1, <1>2 DEF AtTypes
<1>13. AtTypes' BY <1>1, <1>2, <1>4, <1>5, <1>6, <1>11, <1>12 DEF AtTypes, AtNotifierPC
<1>14. \A v \in Waiters : epoch[v] \in Nat /\ epoch[v] <= state.epoch BY <1>2 DEF AtTypes, AtEpochs
<1>15. \A v \in Waiters : epoch'[v] # state'.epoch BY <1>1, <1>9, <1>11, <1>14
<1>16. At!Announced' = At!Announced BY <1>5 DEF At!Announced
<1>17. Stale' = B /\ Fresh' = {} /\ Up \subseteq Up'
  <2>1. At!Asleep' = B BY <1>5, <1>15 DEF At!Asleep
  <2>2. B \subseteq At!Asleep BY DEF At!Asleep
  <2> QED BY <1>5, <1>15, <2>1, <2>2 DEF Stale, Fresh, Up
<1>18. \A m \in Notifiers : eligible'[m] \subseteq Stale' BY <1>2, <1>12, <1>17 DEF Stale
<1>19. AtEpochs'
  <2>1. \A v \in Waiters : epoch'[v] <= state'.epoch BY <1>1, <1>9, <1>11, <1>14
  <2> QED BY <1>1, <1>2, <1>5, <1>6, <1>10, <1>11, <2>1 DEF AtEpochs
<1>20. n \notin Covering /\ n \in Covering' BY <1>1, <1>5, <1>12, <1>17 DEF Covering
<1>21. Covered'
  <2> DEFINE b == Cardinality(Bumping)  c == Cardinality(Covering)  u == Cardinality(Up)
             cc == Cardinality(Covering')  uu == Cardinality(Up')
  <2>1. b \in Nat /\ c \in Nat /\ u \in Nat /\ cc \in Nat /\ uu \in Nat /\ work \in Nat
    BY <1>2, AtSizes DEF AtTypes
  <2>2. u <= uu BY <1>17, AtSets, PartGrows
  <2>3. CASE Fresh # {}
    <3>1. work <= b BY <1>2, <2>3 DEF Covered
    <3>2. cc >= 1
      <4>1. Cardinality(Covering' \ {n}) = cc - 1 BY <1>20, AtSets, PartAdds
      <4>2. Cardinality(Covering' \ {n}) \in Nat BY AtSets, PartSize
      <4> QED BY <2>1, <4>1, <4>2
    <3>3. work <= (b - 1) + cc + uu BY <2>1, <3>1, <3>2
    <3> QED BY <1>1, <1>8, <1>17, <3>3 DEF Covered
  <2>4. CASE Fresh = {} /\ Stale # {}
    <3>1. work <= b + c + u BY <1>2, <2>4 DEF Covered
    <3>2. Stale' = Stale
      <4>1. \A v \in B : epoch[v] # state.epoch BY <2>4 DEF Fresh, At!Asleep
      <4> QED BY <1>17, <4>1 DEF Stale
    <3>3. Covering \cup {n} \subseteq Covering' BY <1>1, <1>5, <1>12, <1>20, <3>2 DEF Covering
    <3>4. Cardinality(Covering \cup {n}) = c + 1 BY <1>20, AtSets, PartAdds
    <3>5. c + 1 <= cc BY <3>3, <3>4, AtSets, PartGrows
    <3>6. work <= (b - 1) + cc + uu BY <2>1, <2>2, <3>1, <3>5
    <3> QED BY <1>1, <1>8, <1>17, <3>6 DEF Covered
  <2>5. CASE Fresh = {} /\ Stale = {}
    <3>1. B = {} BY <2>5 DEF Fresh, Stale, At!Asleep
    <3> QED BY <1>17, <3>1 DEF Covered
  <2> QED BY <2>3, <2>4, <2>5
<1> QED BY <1>11, <1>13, <1>16, <1>18, <1>19, <1>21 DEF AtInv

LEMMA AtWakeInv == ASSUME AtInv, NEW n \in Notifiers, At!Wake(n) PROVE AtInv'
<1>1. pc[n] = "wake" /\ UNCHANGED <<state, epoch, seen, all, work, made>> BY DEF At!Wake
<1>2. PICK S \in SUBSET Waiters :
         /\ At!Woken(n, S)
         /\ pc' = [t \in DOMAIN pc |-> IF t \in S THEN "wait" ELSE IF t = n THEN "idle" ELSE pc[t]]
         /\ eligible' = [m \in Notifiers |-> IF m = n THEN {} ELSE eligible[m] \ S] BY DEF At!Wake
<1>3. AtTypes /\ AtEpochs /\ Covered /\ \A m \in Notifiers : eligible[m] \subseteq Stale BY DEF AtInv
<1>4. S \subseteq eligible[n] /\ S \subseteq Stale BY <1>2, <1>3 DEF At!Woken
<1>5. /\ pc' \in [AtThreads -> AtPCs] /\ pc'[n] = "idle" /\ (\A w \in S : pc'[w] = "wait")
      /\ (\A w \in Waiters \ S : pc'[w] = pc[w]) /\ \A m \in Notifiers \ {n} : pc'[m] = pc[m]
  <2>1. pc' = [t \in AtThreads |-> IF t \in S THEN "wait" ELSE IF t = n THEN "idle" ELSE pc[t]]
    BY <1>2, <1>3 DEF AtTypes
  <2>2. {"wait", "idle"} \subseteq AtPCs BY DEF AtPCs, AtWaiterPC, AtNotifierPC
  <2>3. pc' \in [AtThreads -> AtPCs] BY <1>3, <2>1, <2>2 DEF AtTypes
  <2> QED BY <2>1, <2>3, AtThreadsFacts
<1>6. \A w \in S : pc[w] = "blocked" /\ epoch[w] # state.epoch BY <1>4 DEF Stale
<1>7. /\ eligible' \in [Notifiers -> SUBSET Waiters] /\ eligible'[n] = {}
      /\ \A m \in Notifiers \ {n} : eligible'[m] = eligible[m] \ S BY <1>2, <1>3 DEF AtTypes
<1>8. AtTypes' BY <1>1, <1>3, <1>5, <1>7, AtWordType DEF AtTypes, At!Word, AtWaiterPC, AtNotifierPC
<1>9. At!Announced' = At!Announced
  <2>1. \A w \in Waiters : w \in At!Announced' <=> w \in At!Announced BY <1>5, <1>6 DEF At!Announced
  <2> QED BY <2>1, AtSets
<1>10. Stale' = Stale \ S BY <1>1, <1>5 DEF Stale
<1>11. Fresh' = Fresh /\ Up \cup S \subseteq Up' /\ S \cap Up = {}
  <2>1. \A v \in Waiters \ S : v \in At!Asleep' <=> v \in At!Asleep BY <1>1, <1>5 DEF At!Asleep
  <2>2. \A v \in S : v \in At!Asleep /\ v \notin At!Asleep' BY <1>1, <1>5, <1>6 DEF At!Asleep
  <2>3. \A v \in Waiters : v \in Fresh' <=> v \in Fresh BY <1>1, <1>6, <2>1, <2>2 DEF Fresh
  <2> QED BY <2>1, <2>2, <2>3, AtSets DEF Up
<1>12. \A m \in Notifiers : eligible'[m] \subseteq Stale' BY <1>3, <1>7, <1>10
<1>13. Bumping' = Bumping
  <2>1. \A m \in Notifiers : m \in Bumping' <=> m \in Bumping BY <1>1, <1>5 DEF Bumping
  <2> QED BY <2>1, AtSets
<1>14. AtEpochs'
  <2>1. \A v \in Waiters : pc'[v] \in {"wait", "blocked"} => pc[v] \in {"wait", "blocked"} BY <1>5, <1>6
  <2> QED BY <1>1, <1>3, <1>13, <2>1 DEF AtEpochs
<1>15. Covering \ {n} \subseteq Covering'
  <2> SUFFICES ASSUME NEW m \in Covering, m # n PROVE m \in Covering' OBVIOUS
  <2>1. m \in Notifiers /\ pc[m] = "wake" /\ Stale \subseteq eligible[m] BY DEF Covering
  <2>2. pc'[m] = "wake" /\ Stale' \subseteq eligible'[m] BY <1>5, <1>7, <1>10, <2>1
  <2> QED BY <2>1, <2>2 DEF Covering
<1>16. Covered'
  <2> DEFINE b == Cardinality(Bumping)  c == Cardinality(Covering)  u == Cardinality(Up)
             cc == Cardinality(Covering')  uu == Cardinality(Up')
  <2>1. b \in Nat /\ c \in Nat /\ u \in Nat /\ cc \in Nat /\ uu \in Nat /\ work \in Nat
    BY <1>3, AtSizes DEF AtTypes
  <2>2. Fresh' # {} => work' <= Cardinality(Bumping') BY <1>1, <1>3, <1>11, <1>13 DEF Covered
  <2>3. ASSUME Fresh' = {}, Stale' # {} PROVE work' <= Cardinality(Bumping') + cc + uu
    <3>1. work <= b + c + u BY <1>3, <1>10, <1>11, <2>3 DEF Covered
    <3>2. CASE n \notin Covering
      <4>1. Covering \subseteq Covering' /\ Up \subseteq Up' BY <1>11, <1>15, <3>2
      <4>2. c <= cc /\ u <= uu BY <4>1, AtSets, PartGrows
      <4>3. work <= b + cc + uu BY <2>1, <3>1, <4>2
      <4> QED BY <1>1, <1>13, <4>3
    <3>3. CASE n \in Covering
      <4>1. Stale = eligible[n] BY <1>3, <3>3 DEF Covering
      <4>2. ~all[n] /\ eligible[n] # {} BY <1>2, <1>10, <2>3, <4>1 DEF At!Woken
      <4>3. Cardinality(S) = 1
        <5>1. At!Cardinality(S) = 1 BY <1>2, <4>2 DEF At!Woken
        <5> QED BY <5>1, AtCardinality
      <4>4. S # {} BY <4>3, FS_EmptySet
      <4>5. PICK x \in S : TRUE BY <4>4
      <4>6. x \notin Up /\ Up \cup {x} \subseteq Up' BY <1>11, <4>5
      <4>7. Cardinality(Up \cup {x}) = u + 1 BY <4>6, AtSets, PartAdds
      <4>8. u + 1 <= uu BY <4>6, <4>7, AtSets, PartGrows
      <4>9. Cardinality(Covering \ {n}) = c - 1 BY <3>3, AtSets, PartAdds
      <4>10. c - 1 <= cc BY <1>15, <4>9, AtSets, PartGrows
      <4>11. work <= b + cc + uu BY <2>1, <3>1, <4>8, <4>10
      <4> QED BY <1>1, <1>13, <4>11
    <3> QED BY <3>2, <3>3
  <2> QED BY <2>2, <2>3 DEF Covered
<1> QED BY <1>1, <1>3, <1>8, <1>9, <1>12, <1>14, <1>16 DEF AtInv

LEMMA AtInitInv == At!Init => AtInv
<1> SUFFICES ASSUME At!Init PROVE AtInv OBVIOUS
<1>1. \A w \in Waiters : pc[w] = "out" BY DEF At!Init
<1>2. \A n \in Notifiers : pc[n] = "idle" BY AtThreadsFacts DEF At!Init
<1>3. At!NoWord \in At!Word BY AtWordType, AtFinite, AtSizes DEF At!NoWord
<1>4. pc \in [AtThreads -> AtPCs] BY DEF At!Init, AtThreads, AtPCs, AtWaiterPC, AtNotifierPC
<1>5. AtTypes
  BY <1>1, <1>2, <1>3, <1>4, AtFinite DEF At!Init, AtTypes, AtThreads, AtWaiterPC, AtNotifierPC
<1>6. At!Announced = {} /\ At!Asleep = {} BY <1>1 DEF At!Announced, At!Asleep
<1>7. Fresh = {} /\ Stale = {} BY <1>1, <1>6 DEF Fresh, Stale
<1>8. Bumping = {} BY <1>2 DEF Bumping
<1>9. Cardinality({}) = 0 BY FS_EmptySet
<1>10. AtEpochs BY <1>1, <1>8, <1>9, AtFinite DEF At!Init, At!NoWord, AtEpochs
<1> QED BY <1>5, <1>6, <1>7, <1>9, <1>10 DEF AtInv, Covered, At!Init, At!NoWord

LEMMA AtNextInv == AtInv /\ [At!Next]_(At!vars) => AtInv'
<1> SUFFICES ASSUME AtInv, [At!Next]_(At!vars) PROVE AtInv' OBVIOUS
<1>1. CASE UNCHANGED At!vars
  <2>1. UNCHANGED <<state, epoch, pc, seen, all, work, made, eligible>> BY <1>1 DEF At!vars
  <2>2. AtTypes' = AtTypes BY <2>1 DEF AtTypes
  <2>3. At!Announced' = At!Announced /\ Fresh' = Fresh /\ Stale' = Stale /\ Up' = Up /\ Bumping' = Bumping
    BY <2>1 DEF At!Announced, At!Asleep, Fresh, Stale, Up, Bumping
  <2>4. Covering' = Covering BY <2>1, <2>3 DEF Covering
  <2> QED BY <2>1, <2>2, <2>3, <2>4 DEF AtInv, AtEpochs, Covered
<1>2. ASSUME NEW w \in Waiters,
             \/ At!TakeWork(w) \/ At!PrepareWait(w) \/ At!Recheck(w) \/ At!CommitLoad(w)
             \/ At!Wait(w) \/ At!SpuriousWakeup(w) \/ At!Leave(w)
      PROVE  AtInv'
  BY <1>2, TakeWorkInv, AtPrepareWaitInv, RecheckInv, CommitLoadInv, AtWaitInv, AtSpuriousInv, AtLeaveInv
<1>3. ASSUME NEW n \in Notifiers,
             At!MakeWork(n) \/ At!NotifyLoad(n) \/ At!NotifySwap(n) \/ At!Wake(n)
      PROVE  AtInv'
  <2>1. CASE At!NotifyLoad(n) BY <2>1, LoadOrReturnInv DEF At!NotifyLoad
  <2>2. CASE At!NotifySwap(n) /\ state # seen[n] BY <2>2, LoadOrReturnInv DEF At!NotifySwap
  <2>3. CASE At!NotifySwap(n) /\ state = seen[n] BY <2>3, AtBumpInv
  <2> QED BY <1>3, <2>1, <2>2, <2>3, MakeWorkInv, AtWakeInv
<1> QED BY <1>1, <1>2, <1>3 DEF At!Next

LEMMA AtInvConsistent == AtInv => At!Consistent
<1> SUFFICES ASSUME AtInv PROVE At!Consistent OBVIOUS
<1>1. AtTypes /\ Covered /\ state.waiters = Cardinality(At!Announced)
      /\ \A n \in Notifiers : eligible[n] \subseteq Stale BY DEF AtInv
<1>2. \A n \in Notifiers : \A w \in eligible[n] : pc[w] = "blocked" /\ epoch[w] # state.epoch
  BY <1>1 DEF Stale
<1>3. ASSUME At!Asleep # {} PROVE work <= Cardinality(Up) + Cardinality(At!Notifying)
  <2> DEFINE b == Cardinality(Bumping)  c == Cardinality(Covering)  u == Cardinality(Up)
             k == Cardinality(At!Notifying)
  <2>0. At!Notifying \subseteq Notifiers BY DEF At!Notifying
  <2>1. b \in Nat /\ c \in Nat /\ u \in Nat /\ k \in Nat /\ work \in Nat
    BY <1>1, <2>0, AtSizes, PartSize DEF AtTypes
  <2>2. b + c <= k
    <3>1. Bumping \cap Covering = {} /\ Bumping \cup Covering \subseteq At!Notifying
      BY DEF Bumping, Covering, At!Notifying
    <3>2. IsFiniteSet(Bumping) /\ IsFiniteSet(Covering) /\ IsFiniteSet(At!Notifying)
      BY <2>0, AtSets, PartSize
    <3>3. Cardinality(Bumping \cap Covering) = 0 BY <3>1, FS_EmptySet
    <3>4. Cardinality(Bumping \cup Covering) = b + c - Cardinality(Bumping \cap Covering)
      BY <3>2, FS_Union
    <3>6. Cardinality(Bumping \cup Covering) = b + c BY <2>1, <3>3, <3>4
    <3>5. Cardinality(Bumping \cup Covering) <= k BY <3>1, <3>2, FS_Subset
    <3> QED BY <3>5, <3>6
  <2>3. Fresh # {} \/ Stale # {} BY <1>3 DEF Fresh, Stale, At!Asleep
  <2>4. CASE Fresh # {}
    <3>1. work <= b BY <1>1, <2>4 DEF Covered
    <3> QED BY <2>1, <2>2, <3>1
  <2>5. CASE Fresh = {} /\ Stale # {}
    <3>1. work <= b + c + u BY <1>1, <2>5 DEF Covered
    <3> QED BY <2>1, <2>2, <3>1
  <2> QED BY <2>3, <2>4, <2>5
<1> QED BY <1>1, <1>2, <1>3, AtCardinality DEF At!Consistent, AtTypes, Up

\* The C++20 notifier: nobody sleeps while there is more work than threads that are up
\* or notifications under way (notify_one, notify_all, commit_wait).
THEOREM WorkNotLost == At!Spec => []At!Consistent
<1>1. At!Init => AtInv BY AtInitInv
<1>2. AtInv /\ [At!Next]_(At!vars) => AtInv' BY AtNextInv
<1>3. AtInv => At!Consistent BY AtInvConsistent
<1> QED BY <1>1, <1>2, <1>3, PTL DEF At!Spec

----------------------------------------------------------------------------
(* The three notifiers together *)

MCInv ==
    /\ kind \in {"v2", "v1", "atomic"}
    /\ kind = "v2" => IInv
    /\ kind = "v1" => IInv1
    /\ kind = "atomic" => AtInv

LEMMA MCInitInv == MCInit => MCInv BY InitInv, InitInv1, AtInitInv DEF MCInit, MCInv

\* The notifier that is checked never changes, and each step is one of its own.
LEMMA MCStepIs ==
    ASSUME kind \in {"v2", "v1", "atomic"}, [MCNext]_mcVars
    PROVE  /\ kind' = kind
           /\ kind = "v2" => [Next]_vars
           /\ kind = "v1" => [V1!Next]_(V1!vars)
           /\ kind = "atomic" => [At!Next]_(At!vars)
<1>1. CASE UNCHANGED mcVars
  <2>1. UNCHANGED <<kind, state, next, epoch, wstate, pc, seen, below, all, cur, work, made, eligible>>
    BY <1>1 DEF mcVars
  <2> QED BY <2>1 DEF vars, V1!vars, At!vars
<1>2. CASE MCNext BY <1>2 DEF MCNext
<1> QED BY <1>1, <1>2

LEMMA MCNextInv == MCInv /\ [MCNext]_mcVars => MCInv'
<1> SUFFICES ASSUME MCInv, [MCNext]_mcVars PROVE MCInv' OBVIOUS
<1>1. kind \in {"v2", "v1", "atomic"} BY DEF MCInv
<1>2. /\ kind' = kind
      /\ kind = "v2" => [Next]_vars
      /\ kind = "v1" => [V1!Next]_(V1!vars)
      /\ kind = "atomic" => [At!Next]_(At!vars) BY <1>1, MCStepIs
<1>3. kind = "v2" => IInv' BY <1>2, NextInv DEF MCInv
<1>4. kind = "v1" => IInv1' BY <1>2, NextInv1 DEF MCInv
<1>5. kind = "atomic" => AtInv' BY <1>2, AtNextInv DEF MCInv
<1> QED BY <1>1, <1>2, <1>3, <1>4, <1>5 DEF MCInv

LEMMA MCInvConsistent == MCInv => NotifiersConsistent
<1> SUFFICES ASSUME MCInv PROVE NotifiersConsistent OBVIOUS
<1>1. CASE kind = "v2"
  <2>1. Consistent /\ SleeperHasOneWaker BY <1>1, InvConsistent DEF MCInv
  <2> QED BY <1>1, <2>1, Zenon DEF NotifiersConsistent
<1>2. CASE kind = "v1"
  <2>1. V1!Consistent /\ kind # "v2" BY <1>2, InvConsistent1 DEF MCInv
  <2> QED BY <1>2, <2>1, Zenon DEF NotifiersConsistent
<1>3. CASE kind = "atomic"
  <2>1. At!Consistent /\ kind # "v2" /\ kind # "v1" BY <1>3, AtInvConsistent DEF MCInv
  <2> QED BY <1>3, <2>1, Zenon DEF NotifiersConsistent
<1> QED BY <1>1, <1>2, <1>3 DEF MCInv

\* In each of the three notifiers the counters and lists agree with the waiters, a
\* sleeper that nobody can wake is on the stack, and no notification is lost.
THEOREM NotifiersAreConsistent == MCSpec => []NotifiersConsistent
<1>1. MCInit => MCInv BY MCInitInv
<1>2. MCInv /\ [MCNext]_mcVars => MCInv' BY MCNextInv
<1>3. MCInv => NotifiersConsistent BY MCInvConsistent
<1> QED BY <1>1, <1>2, <1>3, PTL DEF MCSpec

\* The second version implements the atomic event count, the first the ticket count.
THEOREM NotifiersImplementCounts == MCSpec => NotifiersImplement
<1>1. MCInit => MCInv /\ (kind = "v2" => EC!ECInit) /\ (kind = "v1" => V1!TC!TCInit)
  <2>1. kind = "v2" /\ MCInit => EC!ECInit BY InitRefines DEF MCInit
  <2>2. kind = "v1" /\ MCInit => V1!TC!TCInit BY InitRefines1 DEF MCInit
  <2> QED BY <2>1, <2>2, MCInitInv
<1>2. MCInv /\ [MCNext]_mcVars => MCInv' BY MCNextInv
<1>3. MCInv /\ MCInv' /\ [MCNext]_mcVars => [kind = "v2" => UNCHANGED EC!ecVars \/ EC!ECNext]_mcVars
  <2> SUFFICES ASSUME MCInv, MCInv', [MCNext]_mcVars, kind = "v2" PROVE UNCHANGED EC!ecVars \/ EC!ECNext
    OBVIOUS
  <2>1. kind' = kind /\ [Next]_vars BY MCStepIs
  <2>2. IInv /\ IInv' BY <2>1 DEF MCInv
  <2> QED BY <2>1, <2>2, StepRefines
<1>4. MCInv /\ MCInv' /\ [MCNext]_mcVars => [kind = "v1" => UNCHANGED V1!TC!tcVars \/ V1!TC!TCNext]_mcVars
  <2> SUFFICES ASSUME MCInv, MCInv', [MCNext]_mcVars, kind = "v1"
               PROVE  UNCHANGED V1!TC!tcVars \/ V1!TC!TCNext OBVIOUS
  <2>1. kind' = kind /\ [V1!Next]_(V1!vars) BY MCStepIs
  <2>2. IInv1 /\ IInv1' BY <2>1 DEF MCInv
  <2> QED BY <2>1, <2>2, StepRefines1
<1> QED BY <1>1, <1>2, <1>3, <1>4, PTL DEF MCSpec, NotifiersImplement
=============================================================================
