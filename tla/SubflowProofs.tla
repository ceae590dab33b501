--------------------------- MODULE SubflowProofs ----------------------------
(***************************************************************************)
(* Proofs of Subflow, for any number of workers and tasks, runs of the     *)
(* topology and calls of join: join counters are exact, a task is in one   *)
(* place, and the graph of a subflow is run once and as a whole.           *)
(*                                                                         *)
(* A place is a worker and a height in its stack of invocations.  What the *)
(* executor has in hand are the tasks that are queued, invoked somewhere,  *)
(* or left before their graph was done; the parent of such a task is in    *)
(* hand too, and waits.  So whatever a subflow clears, joins or runs again *)
(* has nothing in hand below it: its graph, and the graphs in that, can be *)
(* taken out of the forest as a whole.                                     *)
(***************************************************************************)
EXTENDS Subflow, FiniteSetTheorems, WellFoundedInduction, TLAPS

Nodes == Task \cup {NoTask}
Marks == {"JOINED", "RETAIN", "PREEMPTED"}
Flags == {"EXCEPTION", "CANCELLED", "ANCHORED"}
NodeType == [kind : {"none", "static", "subflow", "anchor"}, parent : Nodes, nstate : SUBSET Marks,
             join : Nat, estate : SUBSET Flags, eptr : BOOLEAN, ran : Nat, joins : Nat]
Places == {"begin", "work", "join", "raise", "store", "leave", "over", "finish", "count"}
FrameType == [node : Task, pc : Places, at : Nodes, again : BOOLEAN]

Typed ==
    /\ SubflowAssumption
    /\ node \in [Task -> NodeType]
    /\ topology \in [estate : SUBSET Flags, eptr : BOOLEAN]
    /\ scheduled \in [Task -> Nat]
    /\ stack \in [Worker -> Seq(FrameType)]
    /\ round \in Nat /\ threw \in BOOLEAN /\ reported \in BOOLEAN

\* The places of invocations: a worker, and how far above its first one the frame is.
Slots == UNION {{<<w, d>> : d \in 1 .. Len(stack[w])} : w \in Worker}
TopSlot(w) == <<w, Len(stack[w])>>
At(s) == stack[s[1]][Len(stack[s[1]]) + 1 - s[2]]
Above(s) == <<s[1], s[2] + 1>>
Below(s) == <<s[1], s[2] - 1>>

Preempted(t) == "PREEMPTED" \in node[t].nstate
Running1(t) == \E s \in Slots : At(s).node = t

\* What the executor has in hand.
Held(t) == scheduled[t] > 0 \/ Running1(t) \/ Preempted(t)
Flight(t) == {c \in Graph(t) : Held(c)}

Single == \A s, u \in Slots : At(s).node = At(u).node => s = u

\* Below the topmost frame there are joins, and callables under the anchor of their corun.
Stacked ==
    /\ \A s \in Slots : s # TopSlot(s[1]) =>
          \/ At(s).pc = "join"
          \/ At(s).pc = "work" /\ node[At(Above(s)).node].kind = "anchor"
    /\ \A s \in Slots : node[At(s).node].kind = "anchor" => s[2] > 1 /\ At(Below(s)).pc = "work"

\* A node that is not there is nowhere.
Forest ==
    /\ \A t \in Free : node[t] = Absent /\ scheduled[t] = 0
    /\ \A t \in Present : node[t].parent \in Present \cup {NoTask}
    /\ node[Root].kind = "subflow" /\ node[Root].parent = NoTask
    /\ \A t \in Present : node[t].kind = "anchor" =>
          node[t].parent = NoTask /\ scheduled[t] = 0 /\ ~Preempted(t)

Says(s) ==
    LET t == At(s).node IN
    /\ t \in Present /\ scheduled[t] = 0
    /\ Preempted(t) => At(s).pc = "begin"
    /\ node[t].kind = "anchor" => At(s).pc = "join"
    /\ At(s).pc = "count" => /\ At(s).at = node[t].parent /\ At(s).at # NoTask
                             /\ At(s).again <=> Preempted(At(s).at)
    /\ At(s).at \in Ancestors(t) \cup {NoTask}
    /\ At(s).pc = "store" => At(s).at # NoTask

\* A scheduled task has not started.
Queued(t) == scheduled[t] = 1 /\ ~Preempted(t) /\ ~Running1(t)

Awaits(t) == \/ \E s \in Slots : At(s).node = t /\ At(s).pc = "join"
             \/ Preempted(t) /\ ~Running1(t)

Placed ==
    /\ Single /\ Stacked /\ Forest
    /\ \A s \in Slots : Says(s)
    /\ \A t \in Present : scheduled[t] # 0 => Queued(t)
    /\ \A t \in Present : node[t].join = Cardinality(Flight(t))
    /\ \A t \in Present : Flight(t) # {} => Awaits(t)

IInv == Typed /\ Placed

\* A graph is run once.
Fresh(t) == node[t].ran = 0 \/ IsCancelled(t)
Done(t) == node[t].ran = 1 \/ IsCancelled(t)
NodeOnce(t) ==
    /\ node[t].ran <= 1
    /\ scheduled[t] # 0 => Fresh(t)
    /\ "JOINED" \in node[t].nstate => \A c \in Graph(t) : Done(c)
    /\ Preempted(t) => Done(t)
    /\ node[t].eptr => "CANCELLED" \in node[t].estate
FrameOnce(s) ==
    LET t == At(s).node IN
    /\ At(s).pc = "begin" /\ ~Preempted(t) => Fresh(t)
    /\ At(s).pc # "begin" /\ node[t].kind # "anchor" => Done(t)
    /\ At(s).pc \in {"work", "raise", "store", "leave"} /\ "JOINED" \notin node[t].nstate =>
          \A c \in Graph(t) : Fresh(c)
    /\ At(s).pc = "join" /\ node[t].kind = "subflow" =>
          "JOINED" \notin node[t].nstate /\ \A c \in Graph(t) : Held(c) \/ Done(c)
    /\ At(s).pc = "raise" => At(s).at = t \/ "CANCELLED" \in node[t].estate
    /\ At(s).pc = "store" => "CANCELLED" \in node[At(s).at].estate
Once == (\A t \in Present : NodeOnce(t)) /\ \A s \in Slots : FrameOnce(s)

-----------------------------------------------------------------------------
(* Stacks of invocations *)

\* The topmost frame.
LEMMA TopFrame ==
    ASSUME Typed, NEW w \in Worker, stack[w] # <<>>
    PROVE  /\ TopSlot(w) \in Slots /\ At(TopSlot(w)) = Top(w)
           /\ Top(w) \in FrameType /\ Top(w).node \in Task
<1>1. stack[w] \in Seq(FrameType) BY DEF Typed
<1>2. Len(stack[w]) \in Nat /\ Len(stack[w]) >= 1 /\ stack[w][1] \in FrameType BY <1>1
<1>3. TopSlot(w) \in Slots BY <1>2 DEF TopSlot, Slots
<1>4. At(TopSlot(w)) = stack[w][1] BY <1>2 DEF At, TopSlot
<1> QED BY <1>2, <1>3, <1>4 DEF Top, FrameType

\* Every place has a frame.
LEMMA SlotFrames ==
    ASSUME Typed, NEW s \in Slots
    PROVE  /\ At(s) \in FrameType /\ At(s).node \in Task
           /\ s[1] \in Worker /\ s[2] \in Nat /\ 1 <= s[2] /\ s[2] <= Len(stack[s[1]])
           /\ s = <<s[1], s[2]>>
<1>1. PICK w \in Worker : s \in {<<w, d>> : d \in 1 .. Len(stack[w])} BY DEF Slots
<1>2. PICK d \in 1 .. Len(stack[w]) : s = <<w, d>> BY <1>1
<1>3. stack[w] \in Seq(FrameType) /\ Len(stack[w]) \in Nat BY DEF Typed
<1>4. Len(stack[w]) + 1 - d \in 1 .. Len(stack[w]) BY <1>3
<1>5. At(s) = stack[w][Len(stack[w]) + 1 - d] BY <1>2 DEF At
<1>6. At(s) \in FrameType BY <1>3, <1>4, <1>5
<1> QED BY <1>2, <1>3, <1>6 DEF FrameType

\* What a change of one stack does to the places.
LEMMA SlotsOf ==
    ASSUME NEW w \in Worker, NEW s
    PROVE  s \in Slots /\ s[1] = w <=> \E d \in 1 .. Len(stack[w]) : s = <<w, d>> BY DEF Slots

\* Pushed: a place is added; changed: one has another frame; popped: one is taken away.
NewSlot(w) == <<w, Len(stack[w]) + 1>>

Pushed(w, f) ==
    /\ NewSlot(w) \notin Slots /\ Slots' = Slots \cup {NewSlot(w)}
    /\ TopSlot(w)' = NewSlot(w) /\ At(TopSlot(w))' = f
    /\ \A u \in Slots : At(u)' = At(u)
    /\ \A v \in Worker \ {w} : TopSlot(v)' = TopSlot(v)

Changed(w, f) ==
    /\ Slots' = Slots /\ At(TopSlot(w))' = f
    /\ \A u \in Slots \ {TopSlot(w)} : At(u)' = At(u)
    /\ \A v \in Worker : TopSlot(v)' = TopSlot(v)

Popped(w) ==
    /\ Slots' = Slots \ {TopSlot(w)}
    /\ \A u \in Slots' : At(u)' = At(u)
    /\ \A v \in Worker \ {w} : TopSlot(v)' = TopSlot(v)
    /\ TopSlot(w)' = <<w, Len(stack[w]) - 1>>

\* A new topmost frame adds one place and changes no other.
LEMMA PushSlots ==
    ASSUME Typed, NEW w \in Worker, NEW f \in FrameType, Push(w, f)
    PROVE  Pushed(w, f) /\ stack' \in [Worker -> Seq(FrameType)]
<1> DEFINE n == Len(stack[w])
<1>1. stack \in [Worker -> Seq(FrameType)] BY DEF Typed
<1>2. stack[w] \in Seq(FrameType) /\ n \in Nat BY <1>1
<1>3. stack' = [stack EXCEPT ![w] = <<f>> \o stack[w]] BY <1>1 DEF Push
<1>4. <<f>> \o stack[w] \in Seq(FrameType) /\ Len(<<f>> \o stack[w]) = n + 1
      /\ (<<f>> \o stack[w])[1] = f /\ \A i \in 1 .. n : (<<f>> \o stack[w])[i + 1] = stack[w][i]
  BY <1>2
<1>5. stack'[w] = <<f>> \o stack[w] /\ \A v \in Worker \ {w} : stack'[v] = stack[v] BY <1>1, <1>3
<1>6. stack' \in [Worker -> Seq(FrameType)] BY <1>1, <1>3, <1>4
<1>7. <<w, n + 1>> \notin Slots BY <1>2, SlotsOf
<1>8. ASSUME NEW u \in Slots PROVE u \in Slots' /\ At(u)' = At(u)
  <2>0. PICK v \in Worker : \E d \in 1 .. Len(stack[v]) : u = <<v, d>> BY DEF Slots
  <2>1. PICK d \in 1 .. Len(stack[v]) : u = <<v, d>> BY <2>0
  <2>2. CASE v = w
    <3>1. d \in 1 .. n + 1 /\ n + 1 - d \in 1 .. n /\ n + 1 + 1 - d = (n + 1 - d) + 1 BY <1>2, <2>1, <2>2
    <3>2. Len(stack'[w]) = n + 1 BY <1>4, <1>5
    <3>3. At(u)' = stack'[w][n + 1 + 1 - d] BY <2>1, <2>2, <3>2 DEF At
    <3>4. At(u) = stack[w][n + 1 - d] BY <2>1, <2>2 DEF At
    <3>5. u \in Slots' BY <2>1, <2>2, <3>1, <3>2 DEF Slots
    <3> QED BY <1>4, <1>5, <3>1, <3>3, <3>4, <3>5
  <2>3. CASE v # w BY <1>5, <2>1, <2>3 DEF At, Slots
  <2> QED BY <2>2, <2>3
<1>9. <<w, n + 1>> \in Slots'
  <2>1. Len(stack'[w]) = n + 1 BY <1>4, <1>5
  <2>2. n + 1 \in 1 .. n + 1 BY <1>2
  <2> QED BY <1>4, <1>5, <2>1, <2>2 DEF Slots
<1>10. ASSUME NEW u \in Slots' PROVE u \in Slots \cup {<<w, n + 1>>}
  <2>0. PICK v \in Worker : \E d \in 1 .. Len(stack'[v]) : u = <<v, d>> BY DEF Slots
  <2>1. PICK d \in 1 .. Len(stack'[v]) : u = <<v, d>> BY <2>0
  <2>2. CASE v = w
    <3>1. d \in 1 .. n \/ d = n + 1 BY <1>2, <1>4, <1>5, <2>1, <2>2
    <3> QED BY <2>1, <2>2, <3>1 DEF Slots
  <2>3. CASE v # w BY <1>5, <2>1, <2>3 DEF Slots
  <2> QED BY <2>2, <2>3
<1>11. TopSlot(w)' = <<w, n + 1>> /\ \A v \in Worker \ {w} : TopSlot(v)' = TopSlot(v)
  BY <1>4, <1>5 DEF TopSlot
<1>12. At(TopSlot(w))' = f
  <2>1. Len(stack'[w]) = n + 1 /\ stack'[w][1] = f BY <1>4, <1>5
  <2>2. n + 1 + 1 - (n + 1) = 1 BY <1>2
  <2>3. At(TopSlot(w))' = stack'[w][n + 1 + 1 - (n + 1)] BY <1>11, <2>1 DEF At
  <2> QED BY <2>1, <2>2, <2>3
<1> QED BY <1>6, <1>7, <1>8, <1>9, <1>10, <1>11, <1>12 DEF Pushed, NewSlot

\* A topmost frame that changes leaves all places, and what is at the others.
LEMMA BecomeSlots ==
    ASSUME Typed, NEW w \in Worker, stack[w] # <<>>, NEW f \in FrameType, Become(w, f)
    PROVE  Changed(w, f) /\ stack' \in [Worker -> Seq(FrameType)]
<1> DEFINE n == Len(stack[w])
<1>1. stack \in [Worker -> Seq(FrameType)] BY DEF Typed
<1>2. stack[w] \in Seq(FrameType) /\ n \in Nat /\ n >= 1 BY <1>1
<1>3. stack' = [stack EXCEPT ![w] = <<f>> \o Tail(stack[w])] BY <1>1 DEF Become
<1>4. <<f>> \o Tail(stack[w]) \in Seq(FrameType) /\ Len(<<f>> \o Tail(stack[w])) = n
      /\ (<<f>> \o Tail(stack[w]))[1] = f /\ \A i \in 2 .. n : (<<f>> \o Tail(stack[w]))[i] = stack[w][i]
  BY <1>2
<1>5. stack'[w] = <<f>> \o Tail(stack[w]) /\ \A v \in Worker \ {w} : stack'[v] = stack[v] BY <1>1, <1>3
<1>6. stack' \in [Worker -> Seq(FrameType)] BY <1>1, <1>3, <1>4
<1>7. \A v \in Worker : Len(stack'[v]) = Len(stack[v]) BY <1>4, <1>5
<1>8. Slots' = Slots BY <1>7 DEF Slots
<1>9. ASSUME NEW u \in Slots, u # TopSlot(w) PROVE At(u)' = At(u)
  <2>0. PICK v \in Worker : \E d \in 1 .. Len(stack[v]) : u = <<v, d>> BY DEF Slots
  <2>1. PICK d \in 1 .. Len(stack[v]) : u = <<v, d>> BY <2>0
  <2>2. CASE v = w
    <3>1. d # n BY <1>9, <2>1, <2>2 DEF TopSlot
    <3>2. n + 1 - d \in 2 .. n BY <1>2, <2>1, <2>2, <3>1
    <3>3. At(u)' = stack'[w][n + 1 - d] BY <1>7, <2>1, <2>2 DEF At
    <3>4. At(u) = stack[w][n + 1 - d] BY <2>1, <2>2 DEF At
    <3> QED BY <1>4, <1>5, <3>2, <3>3, <3>4
  <2>3. CASE v # w BY <1>5, <2>1, <2>3 DEF At
  <2> QED BY <2>2, <2>3
<1>10. At(TopSlot(w))' = f
  <2>1. n + 1 - n = 1 BY <1>2
  <2>2. TopSlot(w)' = <<w, n>> BY <1>7 DEF TopSlot
  <2>3. At(TopSlot(w))' = stack'[w][n + 1 - n] BY <1>7, <2>2 DEF At
  <2> QED BY <1>4, <1>5, <2>1, <2>3
<1>11. \A v \in Worker : TopSlot(v)' = TopSlot(v) BY <1>7 DEF TopSlot
<1> QED BY <1>6, <1>8, <1>9, <1>10, <1>11 DEF Changed

\* An invocation that ends takes its place with it.
LEMMA PopSlots ==
    ASSUME Typed, NEW w \in Worker, stack[w] # <<>>, Pop(w)
    PROVE  Popped(w) /\ stack' \in [Worker -> Seq(FrameType)]
<1> DEFINE n == Len(stack[w])
<1>1. stack \in [Worker -> Seq(FrameType)] BY DEF Typed
<1>2. stack[w] \in Seq(FrameType) /\ n \in Nat /\ n >= 1 BY <1>1
<1>3. stack' = [stack EXCEPT ![w] = Tail(stack[w])] BY <1>1 DEF Pop
<1>4. Tail(stack[w]) \in Seq(FrameType) /\ Len(Tail(stack[w])) = n - 1
      /\ \A i \in 1 .. n - 1 : Tail(stack[w])[i] = stack[w][i + 1] BY <1>2
<1>5. stack'[w] = Tail(stack[w]) /\ \A v \in Worker \ {w} : stack'[v] = stack[v] BY <1>1, <1>3
<1>6. stack' \in [Worker -> Seq(FrameType)] BY <1>1, <1>3, <1>4
<1>7. ASSUME NEW u \in Slots' PROVE u \in Slots \ {TopSlot(w)} /\ At(u)' = At(u)
  <2>0. PICK v \in Worker : \E d \in 1 .. Len(stack'[v]) : u = <<v, d>> BY <1>7 DEF Slots
  <2>1. PICK d \in 1 .. Len(stack'[v]) : u = <<v, d>> BY <2>0
  <2>2. CASE v = w
    <3>0. Len(stack'[v]) = n - 1 BY <1>4, <1>5, <2>2
    <3>1. d \in 1 .. n - 1 /\ d \in 1 .. n /\ d # n BY <1>2, <2>1, <3>0
    <3>2. n - 1 + 1 - d \in 1 .. n - 1 /\ (n - 1 + 1 - d) + 1 = n + 1 - d BY <1>2, <3>1
    <3>3. At(u)' = stack'[w][n - 1 + 1 - d] BY <1>4, <1>5, <2>1, <2>2 DEF At
    <3>4. At(u) = stack[w][n + 1 - d] BY <2>1, <2>2 DEF At
    <3>5. u \in Slots /\ u # TopSlot(w) BY <2>1, <2>2, <3>1 DEF Slots, TopSlot
    <3> QED BY <1>4, <1>5, <3>2, <3>3, <3>4, <3>5
  <2>3. CASE v # w BY <1>5, <2>1, <2>3 DEF At, Slots, TopSlot
  <2> QED BY <2>2, <2>3
<1>8. ASSUME NEW u \in Slots \ {TopSlot(w)} PROVE u \in Slots'
  <2>0. PICK v \in Worker : \E d \in 1 .. Len(stack[v]) : u = <<v, d>> BY DEF Slots
  <2>1. PICK d \in 1 .. Len(stack[v]) : u = <<v, d>> BY <2>0
  <2>2. CASE v = w
    <3>1. d # n BY <2>1, <2>2 DEF TopSlot
    <3>2. d \in 1 .. n - 1 /\ Len(stack'[w]) = n - 1 BY <1>2, <1>4, <1>5, <2>1, <2>2, <3>1
    <3> QED BY <2>1, <2>2, <3>2 DEF Slots
  <2>3. CASE v # w BY <1>5, <2>1, <2>3 DEF Slots
  <2> QED BY <2>2, <2>3
<1>9. TopSlot(w)' = <<w, n - 1>> /\ \A v \in Worker \ {w} : TopSlot(v)' = TopSlot(v)
  BY <1>4, <1>5 DEF TopSlot
<1> QED BY <1>6, <1>7, <1>8, <1>9 DEF Popped

\* Fallen: the topmost frame is taken away and the one below it changed.
Fallen(w, f) ==
    /\ Slots' = Slots \ {TopSlot(w)} /\ TopSlot(w)' = Below(TopSlot(w)) /\ TopSlot(w)' \in Slots'
    /\ At(TopSlot(w))' = f
    /\ \A u \in Slots' \ {TopSlot(w)'} : At(u)' = At(u)
    /\ \A v \in Worker \ {w} : TopSlot(v)' = TopSlot(v)

\* A corun that ends takes its place away, and what is below it goes on.
LEMMA FallSlots ==
    ASSUME Typed, NEW w \in Worker, Len(stack[w]) >= 2, NEW f \in FrameType,
           stack' = [stack EXCEPT ![w] = <<f>> \o SubSeq(@, 3, Len(@))]
    PROVE  Fallen(w, f) /\ stack' \in [Worker -> Seq(FrameType)]
<1> DEFINE n == Len(stack[w])
<1>1. stack \in [Worker -> Seq(FrameType)] BY DEF Typed
<1>2. stack[w] \in Seq(FrameType) /\ n \in Nat /\ n >= 2 BY <1>1
<1>4. PICK q : q = <<f>> \o SubSeq(stack[w], 3, n) OBVIOUS
<1>5. SubSeq(stack[w], 3, n) \in Seq(FrameType) /\ Len(SubSeq(stack[w], 3, n)) = n - 2
      /\ \A i \in 1 .. n - 2 : SubSeq(stack[w], 3, n)[i] = stack[w][i + 2] BY <1>2
<1>6. q \in Seq(FrameType) /\ Len(q) = n - 1 /\ q[1] = f /\ \A i \in 2 .. n - 1 : q[i] = stack[w][i + 1]
  BY <1>2, <1>4, <1>5
<1>7. stack' = [stack EXCEPT ![w] = q] BY <1>1, <1>4
<1>8. stack'[w] = q /\ \A v \in Worker \ {w} : stack'[v] = stack[v] BY <1>1, <1>7
<1>9. stack' \in [Worker -> Seq(FrameType)] BY <1>1, <1>6, <1>7
<1>10. TopSlot(w)' = <<w, n - 1>> /\ TopSlot(w) = <<w, n>> /\ \A v \in Worker \ {w} : TopSlot(v)' = TopSlot(v)
  BY <1>6, <1>8 DEF TopSlot
<1>11. ASSUME NEW u \in Slots' PROVE u \in Slots \ {TopSlot(w)} /\ (u # TopSlot(w)' => At(u)' = At(u))
  <2>0. PICK v \in Worker : \E d \in 1 .. Len(stack'[v]) : u = <<v, d>> BY DEF Slots
  <2>1. PICK d \in 1 .. Len(stack'[v]) : u = <<v, d>> BY <2>0
  <2>2. CASE v = w
    <3>0. Len(stack'[v]) = n - 1 BY <1>6, <1>8, <2>2
    <3>1. d \in 1 .. n - 1 /\ d \in 1 .. n /\ d # n BY <1>2, <2>1, <3>0
    <3>2. u \in Slots /\ u # TopSlot(w) BY <1>10, <2>1, <2>2, <3>1 DEF Slots
    <3>3. ASSUME d # n - 1 PROVE At(u)' = At(u)
      <4>1. n - 1 + 1 - d \in 2 .. n - 1 /\ (n - 1 + 1 - d) + 1 = n + 1 - d BY <1>2, <3>1, <3>3
      <4>2. At(u)' = q[n - 1 + 1 - d] BY <1>6, <1>8, <2>1, <2>2 DEF At
      <4>3. At(u) = stack[w][n + 1 - d] BY <2>1, <2>2 DEF At
      <4> QED BY <1>6, <4>1, <4>2, <4>3
    <3> QED BY <1>10, <2>1, <2>2, <3>2, <3>3
  <2>3. CASE v # w BY <1>8, <2>1, <2>3 DEF At, Slots, TopSlot
  <2> QED BY <2>2, <2>3
<1>12. ASSUME NEW u \in Slots \ {TopSlot(w)} PROVE u \in Slots'
  <2>0. PICK v \in Worker : \E d \in 1 .. Len(stack[v]) : u = <<v, d>> BY DEF Slots
  <2>1. PICK d \in 1 .. Len(stack[v]) : u = <<v, d>> BY <2>0
  <2>2. CASE v = w
    <3>1. d # n BY <1>10, <2>1, <2>2
    <3>2. d \in 1 .. n - 1 /\ Len(stack'[w]) = n - 1 BY <1>2, <1>6, <1>8, <2>1, <2>2, <3>1
    <3> QED BY <2>1, <2>2, <3>2 DEF Slots
  <2>3. CASE v # w BY <1>8, <2>1, <2>3 DEF Slots
  <2> QED BY <2>2, <2>3
<1>13. <<w, n - 1>> \in Slots'
  <2>1. n - 1 \in 1 .. n - 1 /\ Len(stack'[w]) = n - 1 BY <1>2, <1>6, <1>8
  <2> QED BY <2>1 DEF Slots
<1>14. At(TopSlot(w))' = f
  <2>1. n - 1 + 1 - (n - 1) = 1 BY <1>2
  <2>2. At(TopSlot(w))' = q[n - 1 + 1 - (n - 1)] BY <1>6, <1>8, <1>10 DEF At
  <2> QED BY <1>6, <2>1, <2>2
<1> QED BY <1>9, <1>10, <1>11, <1>12, <1>13, <1>14 DEF Fallen, Below

-----------------------------------------------------------------------------
(* Parents *)

\* What is assumed of the tasks; the root is one of them.
LEMMA ConstantFacts ==
    ASSUME SubflowAssumption
    PROVE  Task \subseteq Nat /\ IsFiniteSet(Task) /\ NoTask \notin Task /\ Root \in Task
<1>1. Task \subseteq Nat /\ Task # {} /\ NoTask \notin Task /\ IsFiniteSet(Task)
  BY DEF SubflowAssumption
<1>2. \E x \in Task : \A y \in Task : x <= y
  <2>1. IsWellFoundedOn({ss \in Nat \X Nat : ss[1] < ss[2]}, Nat) BY NatLessThanWellFounded DEF OpToRel
  <2>2. PICK R : R = {ss \in Nat \X Nat : ss[1] < ss[2]} OBVIOUS
  <2>3. IsWellFoundedOn(R, Nat) BY <2>1, <2>2
  <2>4. PICK x \in Task : \A y \in Task : ~ (<<y, x>> \in R) BY <1>1, <2>3, WFMin
  <2>5. ASSUME NEW y \in Task PROVE x <= y
    <3>1. x \in Nat /\ y \in Nat /\ ~ (<<y, x>> \in R) BY <1>1, <2>4
    <3>2. ~ (y < x) BY <2>2, <3>1
    <3> QED BY <3>1, <3>2
  <2> QED BY <2>5
<1>4. Root \in Task BY <1>2 DEF Root
<1> QED BY <1>1, <1>4

\* Sets that hold the parents of their members.
Closed(S) == S \subseteq Task /\ \A s \in S : node[s].parent \in S \cup {NoTask}

\* The same in every state of the invariant.
LEMMA TaskFacts ==
    ASSUME IInv
    PROVE  Task \subseteq Nat /\ IsFiniteSet(Task) /\ NoTask \notin Task /\ Root \in Task
BY ConstantFacts DEF IInv, Typed

\* The ancestors of a task are the least closed set that holds it.
LEMMA AncestorFacts ==
    ASSUME IInv, NEW t \in Task
    PROVE  /\ t \in Ancestors(t) /\ Ancestors(t) \subseteq Task
           /\ \A S : Closed(S) /\ t \in S => Ancestors(t) \subseteq S
           /\ \A a \in Ancestors(t) : node[a].parent \in Task => node[a].parent \in Ancestors(t)
           /\ \A a \in Ancestors(t) : Ancestors(a) \subseteq Ancestors(t)
<1>1. t \in Ancestors(t) /\ Ancestors(t) \subseteq Task BY DEF Ancestors
<1>2. \A S : Closed(S) /\ t \in S => Ancestors(t) \subseteq S BY DEF Closed, Ancestors
<1>3. ASSUME NEW a \in Ancestors(t), node[a].parent \in Task PROVE node[a].parent \in Ancestors(t)
  BY <1>3, TaskFacts DEF Ancestors
<1>4. ASSUME NEW a \in Ancestors(t) PROVE Ancestors(a) \subseteq Ancestors(t) BY <1>4 DEF Ancestors
<1> QED BY <1>1, <1>2, <1>3, <1>4

\* A task between others: its ancestors are itself and those of its parent.
LEMMA AncestorsStep ==
    ASSUME IInv, NEW t \in Task, NEW p \in Task, node[t].parent = p
    PROVE  Ancestors(t) = {t} \cup Ancestors(p)
<1>1. p \in Ancestors(t) BY AncestorFacts
<1>2. Ancestors(p) \subseteq Ancestors(t) BY <1>1, AncestorFacts
<1>3. ASSUME NEW a \in Ancestors(t), a # t, a \notin Ancestors(p) PROVE FALSE
  <2>1. PICK S \in SUBSET Task : p \in S /\ (\A s \in S : node[s].parent \in S \cup {NoTask}) /\ a \notin S
    BY <1>3 DEF Ancestors
  <2>2. PICK T \in SUBSET Task : T = S \cup {t} OBVIOUS
  <2>3. t \in T /\ \A s \in T : node[s].parent \in T \cup {NoTask} BY <2>1, <2>2
  <2> QED BY <1>3, <2>1, <2>2, <2>3 DEF Ancestors
<1> QED BY <1>1, <1>2, <1>3, AncestorFacts

\* A node without a parent has no other ancestor.
LEMMA AncestorsAlone ==
    ASSUME IInv, NEW t \in Task, node[t].parent = NoTask
    PROVE  Ancestors(t) = {t}
<1>1. Closed({t}) BY DEF Closed
<1> QED BY <1>1, AncestorFacts

\* Ancestors stay while their parents do.
LEMMA AncestorsKept ==
    ASSUME NEW S, Closed(S), NEW t \in S, \A s \in S : node'[s].parent = node[s].parent
    PROVE  Ancestors(t)' = Ancestors(t)
<1>1. S \in SUBSET Task /\ \A s \in S : node[s].parent \in S \cup {NoTask} BY DEF Closed
<1>2. ASSUME NEW a \in Ancestors(t) PROVE a \in Ancestors(t)'
  <2> SUFFICES ASSUME NEW T \in SUBSET Task, t \in T,
                      \A s \in T : node'[s].parent \in T \cup {NoTask}
               PROVE  a \in T BY <1>2 DEF Ancestors
  <2>1. PICK U \in SUBSET Task : U = S \cap T BY <1>1
  <2>2. t \in U /\ \A s \in U : node[s].parent \in U \cup {NoTask} BY <1>1, <2>1
  <2> QED BY <1>2, <2>1, <2>2 DEF Ancestors
<1>3. ASSUME NEW a \in Ancestors(t)' PROVE a \in Ancestors(t)
  <2> SUFFICES ASSUME NEW T \in SUBSET Task, t \in T,
                      \A s \in T : node[s].parent \in T \cup {NoTask}
               PROVE  a \in T BY <1>3 DEF Ancestors
  <2>1. PICK U \in SUBSET Task : U = S \cap T BY <1>1
  <2>2. t \in U /\ \A s \in U : node'[s].parent \in U \cup {NoTask} BY <1>1, <2>1
  <2> QED BY <1>3, <2>1, <2>2 DEF Ancestors
<1> QED BY <1>2, <1>3


-----------------------------------------------------------------------------
(* What the executor has in hand *)

\* The places above and below another one.
LEMMA AboveBelow ==
    ASSUME Typed, NEW s \in Slots
    PROVE  /\ s[1] \in Worker
           /\ s # TopSlot(s[1]) => /\ Above(s) \in Slots /\ Above(s)[1] = s[1]
                                   /\ Below(Above(s)) = s
           /\ s[2] > 1 => /\ Below(s) \in Slots /\ Below(s)[1] = s[1]
                          /\ Above(Below(s)) = s
                          /\ \A v \in Worker : Below(s) # TopSlot(v)
<1>1. /\ s[1] \in Worker /\ s[2] \in Nat /\ 1 <= s[2] /\ s[2] <= Len(stack[s[1]])
      /\ s = <<s[1], s[2]>> BY SlotFrames
<1>2. Len(stack[s[1]]) \in Nat BY <1>1 DEF Typed
<1>3. \A d : <<s[1], d>> \in Slots <=> d \in 1 .. Len(stack[s[1]]) BY <1>1 DEF Slots
<1>4. ASSUME s # TopSlot(s[1])
      PROVE  Above(s) \in Slots /\ Above(s)[1] = s[1] /\ Below(Above(s)) = s
  <2>1. s[2] # Len(stack[s[1]]) BY <1>1, <1>4 DEF TopSlot
  <2>2. s[2] + 1 \in 1 .. Len(stack[s[1]]) /\ s[2] + 1 - 1 = s[2] BY <1>1, <1>2, <2>1
  <2>3. Above(s) = <<s[1], s[2] + 1>> BY DEF Above
  <2>4. Above(s)[1] = s[1] /\ Above(s)[2] = s[2] + 1 BY <2>3
  <2>5. PICK a : a = Above(s) OBVIOUS
  <2>6. a[1] = s[1] /\ a[2] - 1 = s[2] BY <1>1, <2>4, <2>5
  <2>7. Below(a) = <<s[1], s[2]>> BY <2>6 DEF Below
  <2> QED BY <1>1, <1>3, <2>2, <2>3, <2>4, <2>5, <2>7
<1>5. ASSUME s[2] > 1
      PROVE  /\ Below(s) \in Slots /\ Below(s)[1] = s[1] /\ Above(Below(s)) = s
             /\ \A v \in Worker : Below(s) # TopSlot(v)
  <2>1. s[2] - 1 \in 1 .. Len(stack[s[1]]) /\ s[2] - 1 + 1 = s[2] /\ s[2] - 1 # Len(stack[s[1]])
    BY <1>1, <1>2, <1>5
  <2>2. Below(s) = <<s[1], s[2] - 1>> BY DEF Below
  <2>3. Above(Below(s)) = <<s[1], s[2] - 1 + 1>> BY <2>2 DEF Above
  <2> QED BY <1>1, <1>3, <2>1, <2>2, <2>3 DEF TopSlot
<1> QED BY <1>1, <1>4, <1>5

\* Graphs are finite sets.
LEMMA GraphFinite ==
    ASSUME IInv, NEW t
    PROVE  IsFiniteSet(Graph(t)) /\ IsFiniteSet(Flight(t)) /\ Flight(t) \subseteq Graph(t)
<1>1. Graph(t) \subseteq Task /\ Flight(t) \subseteq Graph(t) BY DEF Graph, Present, Flight
<1> QED BY <1>1, TaskFacts, FS_Subset

\* Parents of what is in hand are, and a task waits for what is in flight below it.
LEMMA HeldFacts ==
    ASSUME IInv
    PROVE  /\ \A t \in Present : Held(t) /\ node[t].parent # NoTask =>
                node[t].parent \in Present /\ Held(node[t].parent) /\ t \in Flight(node[t].parent)
           /\ \A s \in Slots : At(s).node \in Present /\ Held(At(s).node) /\ scheduled[At(s).node] = 0
           /\ \A s \in Slots : At(s).pc # "join" => Flight(At(s).node) = {}
           /\ \A t \in Task : scheduled[t] # 0 =>
                t \in Present /\ Held(t) /\ Queued(t) /\ Flight(t) = {}
<1>1. ASSUME NEW t \in Present, Held(t), node[t].parent # NoTask
      PROVE  node[t].parent \in Present /\ Held(node[t].parent) /\ t \in Flight(node[t].parent)
  <2>1. node[t].parent \in Present BY <1>1 DEF IInv, Placed, Forest
  <2>2. t \in Flight(node[t].parent) BY <1>1 DEF Flight, Graph
  <2>3. Awaits(node[t].parent) BY <2>1, <2>2 DEF IInv, Placed
  <2> QED BY <2>1, <2>2, <2>3 DEF Awaits, Held, Running1
<1>2. ASSUME NEW s \in Slots
      PROVE  At(s).node \in Present /\ Held(At(s).node) /\ scheduled[At(s).node] = 0
  BY DEF IInv, Placed, Says, Held, Running1
<1>3. ASSUME NEW s \in Slots, At(s).pc # "join" PROVE Flight(At(s).node) = {}
  <2>1. At(s).node \in Present BY <1>2
  <2>2. ~ Awaits(At(s).node)
    <3>1. \A u \in Slots : At(u).node = At(s).node => u = s BY DEF IInv, Placed, Single
    <3> QED BY <1>3, <3>1 DEF Awaits, Running1
  <2> QED BY <2>1, <2>2 DEF IInv, Placed
<1>4. ASSUME NEW t \in Task, scheduled[t] # 0
      PROVE  t \in Present /\ Held(t) /\ Queued(t) /\ Flight(t) = {}
  <2>1. t \in Present BY <1>4 DEF IInv, Placed, Forest, Free
  <2>2. Queued(t) BY <1>4, <2>1 DEF IInv, Placed
  <2>3. Held(t) BY <2>2 DEF Queued, Held
  <2>4. ~ Awaits(t) BY <2>2 DEF Queued, Awaits, Running1
  <2> QED BY <2>1, <2>2, <2>3, <2>4 DEF IInv, Placed
<1> QED BY <1>1, <1>2, <1>3, <1>4

\* All ancestors of what is in hand are in hand.
LEMMA HeldClosed ==
    ASSUME IInv
    PROVE  /\ Closed({t \in Present : Held(t)})
           /\ \A t \in Present : Held(t) => \A a \in Ancestors(t) : a \in Present /\ Held(a)
<1>1. Closed({t \in Present : Held(t)})
  <2>1. {t \in Present : Held(t)} \subseteq Task BY DEF Present
  <2>2. ASSUME NEW t \in Present, Held(t)
        PROVE  node[t].parent \in {u \in Present : Held(u)} \cup {NoTask} BY <2>2, HeldFacts
  <2> QED BY <2>1, <2>2 DEF Closed
<1>2. ASSUME NEW t \in Present, Held(t), NEW a \in Ancestors(t) PROVE a \in Present /\ Held(a)
  <2>1. t \in Task BY DEF Present
  <2>2. Ancestors(t) \subseteq {u \in Present : Held(u)} BY <1>1, <1>2, <2>1, AncestorFacts
  <2> QED BY <2>2
<1> QED BY <1>1, <1>2

\* Nothing is in hand below a task that waits for nothing.
LEMMA NothingBelow ==
    ASSUME IInv, NEW t \in Present, Flight(t) = {}
    PROVE  /\ \A d \in Descendants(t) : d \in Present /\ ~Held(d) /\ d # Root /\ d # t
           /\ Held(t) => Closed(Present \ Descendants(t))
           /\ Graph(t) \ {t} \subseteq Descendants(t)
<1>0. t \in Task /\ Present \subseteq Task BY DEF Present
<1>1. ASSUME NEW d \in Descendants(t) PROVE d \in Present /\ ~Held(d) /\ d # Root /\ d # t
  <2>1. d \in Present /\ d # t /\ t \in Ancestors(d) /\ d \in Task BY <1>0 DEF Descendants
  <2>2. d # Root
    <3>1. node[Root].parent = NoTask BY DEF IInv, Placed, Forest
    <3>2. Ancestors(Root) = {Root} BY <3>1, TaskFacts, AncestorsAlone
    <3> QED BY <2>1, <3>2
  <2>3. ASSUME Held(d) PROVE FALSE
    <3>1. PICK S : S = {u \in Present : Held(u)} \ {t} OBVIOUS
    <3>2. S \subseteq Task BY <1>0, <3>1
    <3>3. ASSUME NEW u \in S PROVE node[u].parent \in S \cup {NoTask}
      <4>1. u \in Present /\ Held(u) BY <3>1
      <4>2. CASE node[u].parent # NoTask
        <5>1. /\ node[u].parent \in Present /\ Held(node[u].parent)
              /\ u \in Flight(node[u].parent) BY <4>1, <4>2, HeldFacts
        <5> QED BY <3>1, <5>1
      <4> QED BY <4>2
    <3>4. Ancestors(d) \subseteq S BY <2>1, <2>3, <3>1, <3>2, <3>3, AncestorFacts DEF Closed
    <3> QED BY <2>1, <3>1, <3>4
  <2> QED BY <2>1, <2>2, <2>3
<1>2. ASSUME Held(t), NEW u \in Present \ Descendants(t)
      PROVE  node[u].parent \in (Present \ Descendants(t)) \cup {NoTask}
  <2>1. node[u].parent \in Present \cup {NoTask} BY DEF IInv, Placed, Forest
  <2>2. ASSUME node[u].parent \in Descendants(t) PROVE FALSE
    <3>1. CASE u = t
      <4>1. node[t].parent # NoTask BY <2>2, <3>1, <1>0, TaskFacts DEF Descendants
      <4>2. Held(node[t].parent) BY <1>2, <4>1, HeldFacts
      <4> QED BY <1>1, <2>2, <3>1, <4>2
    <3>2. CASE u # t
      <4>1. u \in Task /\ node[u].parent \in Task BY <1>0, <2>2 DEF Descendants
      <4>2. t \in Ancestors(node[u].parent) BY <2>2 DEF Descendants
      <4>3. t \in Ancestors(u) BY <4>1, <4>2, AncestorsStep
      <4> QED BY <3>2, <4>3 DEF Descendants
    <3> QED BY <3>1, <3>2
  <2> QED BY <2>1, <2>2
<1>3. ASSUME NEW c \in Graph(t), c # t PROVE c \in Descendants(t)
  <2>1. c \in Present /\ node[c].parent = t /\ c \in Task BY <1>0 DEF Graph
  <2>2. t \in Ancestors(c) BY <1>0, <2>1, AncestorsStep, AncestorFacts
  <2> QED BY <1>3, <2>1, <2>2 DEF Descendants
<1>4. Held(t) => Closed(Present \ Descendants(t)) BY <1>0, <1>2 DEF Closed
<1> QED BY <1>1, <1>3, <1>4

\* The ancestors of what is in hand stay while its parents do.
LEMMA AncestorsHeld ==
    ASSUME IInv, \A t \in Present : Held(t) => node'[t].parent = node[t].parent
    PROVE  \A t \in Present : Held(t) => Ancestors(t)' = Ancestors(t)
<1>1. PICK S : S = {t \in Present : Held(t)} OBVIOUS
<1>2. Closed(S) BY <1>1, HeldClosed
<1>3. \A s \in S : node'[s].parent = node[s].parent BY <1>1
<1>4. \A t \in S : Ancestors(t)' = Ancestors(t) BY <1>2, <1>3, AncestorsKept
<1> QED BY <1>1, <1>4

\* A frame that stays, of a task that stays, says the same.
LEMMA SaysKept ==
    ASSUME IInv, NEW s \in Slots, At(s)' = At(s), NEW t, t = At(s).node,
           node'[t].kind = node[t].kind, node'[t].parent = node[t].parent,
           scheduled'[t] = 0, Preempted(t)' <=> Preempted(t),
           At(s).pc = "count" => (Preempted(At(s).at)' <=> Preempted(At(s).at)),
           Ancestors(t)' = Ancestors(t)
    PROVE  Says(s)'
<1>1. Says(s) BY DEF IInv, Placed
<1>2. t \in Present' BY <1>1 DEF Says, Present
<1> QED BY <1>1, <1>2 DEF Says


-----------------------------------------------------------------------------
(* Steps and the order of a stack *)

LEMMA StackedChanged ==
    ASSUME IInv, NEW w \in Worker, stack[w] # <<>>, NEW f, Changed(w, f),
           \A s \in Slots \ {TopSlot(w)} : node'[At(s).node].kind = node[At(s).node].kind,
           node'[f.node].kind = "anchor" <=> node[Top(w).node].kind = "anchor"
    PROVE  Stacked'
<1>0. Typed /\ Stacked BY DEF IInv, Placed
<1>1. TopSlot(w) \in Slots /\ At(TopSlot(w)) = Top(w) BY <1>0, TopFrame
<1>2. /\ Slots' = Slots /\ At(TopSlot(w))' = f
      /\ \A u \in Slots \ {TopSlot(w)} : At(u)' = At(u)
      /\ \A v \in Worker : TopSlot(v)' = TopSlot(v) BY DEF Changed
<1>3. \A u \in Slots : node'[At(u)'.node].kind = "anchor" <=> node[At(u).node].kind = "anchor"
  BY <1>1, <1>2
<1>4. ASSUME NEW s \in Slots', s # TopSlot(s[1])'
      PROVE  \/ At(s)'.pc = "join"
             \/ At(s)'.pc = "work" /\ node'[At(Above(s))'.node].kind = "anchor"
  <2>1. s \in Slots /\ s[1] \in Worker BY <1>0, <1>2, AboveBelow
  <2>2. s # TopSlot(s[1]) BY <1>2, <1>4, <2>1
  <2>3. s # TopSlot(w) BY <2>2 DEF TopSlot
  <2>4. Above(s) \in Slots BY <1>0, <2>1, <2>2, AboveBelow
  <2> QED BY <1>0, <1>2, <1>3, <2>1, <2>2, <2>3, <2>4 DEF Stacked
<1>5. ASSUME NEW s \in Slots', node'[At(s)'.node].kind = "anchor"
      PROVE  s[2] > 1 /\ At(Below(s))'.pc = "work"
  <2>1. s[2] > 1 /\ At(Below(s)).pc = "work" /\ s \in Slots BY <1>0, <1>2, <1>3, <1>5 DEF Stacked
  <2>2. Below(s) \in Slots /\ Below(s) # TopSlot(w) BY <1>0, <2>1, AboveBelow
  <2> QED BY <1>2, <2>1, <2>2
<1> QED BY <1>4, <1>5 DEF Stacked

\* The order of a stack when its topmost invocation ends,
LEMMA StackedPopped ==
    ASSUME IInv, NEW w \in Worker, stack[w] # <<>>, Popped(w),
           \A s \in Slots \ {TopSlot(w)} : node'[At(s).node].kind = node[At(s).node].kind
    PROVE  Stacked'
<1>0. Typed /\ Stacked BY DEF IInv, Placed
<1>2. /\ Slots' = Slots \ {TopSlot(w)}
      /\ \A u \in Slots' : At(u)' = At(u)
      /\ \A v \in Worker \ {w} : TopSlot(v)' = TopSlot(v)
      /\ TopSlot(w)' = <<w, Len(stack[w]) - 1>> BY DEF Popped
<1>3. TopSlot(w)' = Below(TopSlot(w)) BY <1>2 DEF Below, TopSlot
<1>4. ASSUME NEW s \in Slots', s # TopSlot(s[1])'
      PROVE  \/ At(s)'.pc = "join"
             \/ At(s)'.pc = "work" /\ node'[At(Above(s))'.node].kind = "anchor"
  <2>1. s \in Slots /\ s[1] \in Worker /\ s # TopSlot(w) BY <1>0, <1>2, AboveBelow
  <2>2. s # TopSlot(s[1]) BY <1>2, <1>4, <2>1
  <2>3. Above(s) \in Slots /\ Above(s)[1] = s[1] /\ Below(Above(s)) = s BY <1>0, <2>1, <2>2, AboveBelow
  <2>4. ASSUME Above(s) = TopSlot(w) PROVE FALSE
    <3>1. s[1] = w BY <2>3, <2>4 DEF TopSlot
    <3> QED BY <1>3, <1>4, <2>3, <2>4, <3>1
  <2>5. At(s)' = At(s) /\ At(Above(s))' = At(Above(s)) /\ Above(s) \in Slots \ {TopSlot(w)}
    BY <1>2, <2>3, <2>4
  <2> QED BY <1>0, <2>1, <2>2, <2>5 DEF Stacked
<1>5. ASSUME NEW s \in Slots', node'[At(s)'.node].kind = "anchor"
      PROVE  s[2] > 1 /\ At(Below(s))'.pc = "work"
  <2>0. s \in Slots \ {TopSlot(w)} /\ At(s)' = At(s) BY <1>2
  <2>1. s[2] > 1 /\ At(Below(s)).pc = "work" BY <1>0, <1>5, <2>0 DEF Stacked
  <2>2. Below(s) \in Slots /\ Below(s) # TopSlot(w) BY <1>0, <2>0, <2>1, AboveBelow
  <2> QED BY <1>2, <2>1, <2>2
<1> QED BY <1>4, <1>5 DEF Stacked

\* when another one is on top,
LEMMA StackedPushed ==
    ASSUME IInv, NEW w \in Worker, NEW f, Pushed(w, f),
           \A s \in Slots : node'[At(s).node].kind = node[At(s).node].kind,
           stack[w] # <<>> => \/ Top(w).pc = "join"
                              \/ Top(w).pc = "work" /\ node'[f.node].kind = "anchor",
           node'[f.node].kind = "anchor" => stack[w] # <<>> /\ Top(w).pc = "work"
    PROVE  Stacked'
<1>0. Typed /\ Stacked BY DEF IInv, Placed
<1>k. PICK k : k = NewSlot(w) OBVIOUS
<1>1. /\ k \notin Slots /\ Slots' = Slots \cup {k}
      /\ TopSlot(w)' = k /\ At(k)' = f
      /\ \A u \in Slots : At(u)' = At(u)
      /\ \A v \in Worker \ {w} : TopSlot(v)' = TopSlot(v) BY <1>k DEF Pushed
<1>2. Len(stack[w]) \in Nat /\ (Len(stack[w]) > 0 => stack[w] # <<>>) /\ (stack[w] # <<>> => Len(stack[w]) > 0)
  <2>1. stack[w] \in Seq(FrameType) BY <1>0 DEF Typed
  <2> QED BY <2>1
<1>3. ASSUME stack[w] # <<>> PROVE TopSlot(w) \in Slots /\ At(TopSlot(w)) = Top(w) /\ Above(TopSlot(w)) = k
  <2>1. TopSlot(w) \in Slots /\ At(TopSlot(w)) = Top(w) BY <1>0, <1>3, TopFrame
  <2>2. Above(TopSlot(w)) = k BY <1>k DEF Above, TopSlot, NewSlot
  <2> QED BY <2>1, <2>2
<1>4. ASSUME NEW s \in Slots', s # TopSlot(s[1])'
      PROVE  \/ At(s)'.pc = "join"
             \/ At(s)'.pc = "work" /\ node'[At(Above(s))'.node].kind = "anchor"
  <2>1. s # k
    <3>1. ASSUME s = k PROVE FALSE
      <4>1. s[1] = w BY <1>k, <3>1 DEF NewSlot
      <4> QED BY <1>1, <1>4, <3>1, <4>1
    <3> QED BY <3>1
  <2>2. s \in Slots /\ At(s)' = At(s) /\ s[1] \in Worker BY <1>0, <1>1, <2>1, AboveBelow
  <2>3. CASE s = TopSlot(w)
    <3>1. stack[w] # <<>>
      <4>1. s[1] = w /\ s[2] = Len(stack[w]) BY <2>3 DEF TopSlot
      <4>2. 1 <= s[2] BY <1>0, <2>2, SlotFrames
      <4> QED BY <1>2, <4>1, <4>2
    <3> QED BY <1>1, <1>3, <2>2, <2>3, <3>1
  <2>4. CASE s # TopSlot(w)
    <3>1. s # TopSlot(s[1]) BY <1>1, <1>4, <2>2, <2>4
    <3>2. Above(s) \in Slots BY <1>0, <2>2, <3>1, AboveBelow
    <3> QED BY <1>0, <1>1, <2>2, <3>1, <3>2 DEF Stacked
  <2> QED BY <2>3, <2>4
<1>5. ASSUME NEW s \in Slots', node'[At(s)'.node].kind = "anchor"
      PROVE  s[2] > 1 /\ At(Below(s))'.pc = "work"
  <2>1. CASE s = k
    <3>1. stack[w] # <<>> /\ Top(w).pc = "work" BY <1>1, <1>5, <2>1
    <3>2. PICK n : n = Len(stack[w]) OBVIOUS
    <3>3. s = <<w, n + 1>> BY <1>k, <2>1, <3>2 DEF NewSlot
    <3>4. s[2] = n + 1 /\ n \in Nat /\ n > 0 BY <1>2, <3>1, <3>2, <3>3
    <3>5. s[1] = w /\ s[2] - 1 = n /\ s[2] > 1 BY <3>3, <3>4
    <3>6. Below(s) = TopSlot(w) BY <3>2, <3>5 DEF Below, TopSlot
    <3> QED BY <1>1, <1>3, <3>1, <3>5, <3>6
  <2>2. CASE s # k
    <3>1. s \in Slots /\ At(s)' = At(s) BY <1>1, <2>2
    <3>2. s[2] > 1 /\ At(Below(s)).pc = "work" BY <1>0, <1>5, <3>1 DEF Stacked
    <3>3. Below(s) \in Slots BY <1>0, <3>1, <3>2, AboveBelow
    <3> QED BY <1>1, <3>2, <3>3
  <2> QED BY <2>1, <2>2
<1> QED BY <1>4, <1>5 DEF Stacked

\* and when a corun ends.
LEMMA StackedFallen ==
    ASSUME IInv, NEW w \in Worker, NEW f, Fallen(w, f), f.node = At(Below(TopSlot(w))).node,
           TopSlot(w) \in Slots,
           \A s \in Slots \ {TopSlot(w)} : node'[At(s).node].kind = node[At(s).node].kind
    PROVE  Stacked'
<1>0. Typed /\ Stacked BY DEF IInv, Placed
<1>1. PICK b : b = Below(TopSlot(w)) OBVIOUS
<1>2. /\ Slots' = Slots \ {TopSlot(w)} /\ TopSlot(w)' = b /\ b \in Slots' /\ At(b)' = f
      /\ \A u \in Slots' \ {b} : At(u)' = At(u)
      /\ \A v \in Worker \ {w} : TopSlot(v)' = TopSlot(v) BY <1>1 DEF Fallen
<1>3. \A u \in Slots' : At(u)'.node = At(u).node /\ node'[At(u)'.node].kind = node[At(u).node].kind
  BY <1>1, <1>2
<1>4. ASSUME NEW s \in Slots', s # TopSlot(s[1])'
      PROVE  \/ At(s)'.pc = "join"
             \/ At(s)'.pc = "work" /\ node'[At(Above(s))'.node].kind = "anchor"
  <2>1. s \in Slots /\ s[1] \in Worker /\ s # TopSlot(w) BY <1>0, <1>2, AboveBelow
  <2>2. s # TopSlot(s[1]) BY <1>2, <1>4, <2>1
  <2>3. Above(s) \in Slots /\ Above(s)[1] = s[1] /\ Below(Above(s)) = s BY <1>0, <2>1, <2>2, AboveBelow
  <2>4. ASSUME s = b PROVE FALSE
    <3>1. s[1] = w BY <1>1, <2>4 DEF TopSlot, Below
    <3> QED BY <1>2, <1>4, <2>4, <3>1
  <2>5. ASSUME Above(s) = TopSlot(w) PROVE FALSE BY <1>1, <2>3, <2>4, <2>5
  <2>6. At(s)' = At(s) /\ Above(s) \in Slots' BY <1>2, <2>1, <2>3, <2>4, <2>5
  <2> QED BY <1>0, <1>3, <2>1, <2>2, <2>6 DEF Stacked
<1>5. ASSUME NEW s \in Slots', node'[At(s)'.node].kind = "anchor"
      PROVE  s[2] > 1 /\ At(Below(s))'.pc = "work"
  <2>0. s \in Slots \ {TopSlot(w)} /\ node[At(s).node].kind = "anchor" BY <1>2, <1>3, <1>5
  <2>1. s[2] > 1 /\ At(Below(s)).pc = "work" BY <1>0, <2>0 DEF Stacked
  <2>2. Below(s) \in Slots /\ Above(Below(s)) = s /\ Below(s) # TopSlot(w) BY <1>0, <2>0, <2>1, AboveBelow
  <2>3. ASSUME Below(s) = b PROVE FALSE
    <3>1. Len(stack[w]) \in Nat BY <1>0 DEF Typed
    <3>2. b = <<w, Len(stack[w]) - 1>> BY <1>1 DEF Below, TopSlot
    <3>3. s = <<b[1], b[2] + 1>> BY <2>2, <2>3 DEF Above
    <3>4. b[1] = w /\ b[2] + 1 = Len(stack[w]) BY <3>1, <3>2
    <3>5. s = TopSlot(w) BY <3>3, <3>4 DEF TopSlot
    <3> QED BY <2>0, <3>5
  <2> QED BY <1>2, <2>1, <2>2, <2>3
<1> QED BY <1>4, <1>5 DEF Stacked


-----------------------------------------------------------------------------
(* Steps and nodes *)

\* Nodes may go: neither the outermost task nor the parent of one that stays.
Gone(G) == G \subseteq Present /\ Root \notin G /\ Closed(Present \ G)

\* The nodes G go and the others keep their place in the forest, and whether they are
\* preempted, t perhaps not.
Shape(t, G) ==
    /\ \A u \in Task \ G : node'[u].kind = node[u].kind /\ node'[u].parent = node[u].parent
    /\ \A u \in Task \ (G \cup {t}) : Preempted(u)' <=> Preempted(u)
    /\ \A u \in Free : node'[u] = node[u]
    /\ \A u \in G : node'[u] = Absent

\* Which nodes there are when one is changed and others go.
LEMMA ShapePresent ==
    ASSUME NEW t, NEW G, Gone(G), Shape(t, G)
    PROVE  Present' = Present \ G /\ Free' = Free \cup G /\ G \subseteq Present /\ Present \subseteq Task
<1>1. G \subseteq Present /\ Present \subseteq Task BY DEF Gone, Present
<1>2. ASSUME NEW u \in Task PROVE u \in Present' <=> u \in Present \ G
  <2>1. CASE u \in G
    <3>1. node'[u].kind = "none" BY <2>1 DEF Shape, Absent
    <3> QED BY <2>1, <3>1 DEF Present
  <2>2. CASE u \notin G
    <3>1. node'[u].kind = node[u].kind BY <2>2 DEF Shape
    <3> QED BY <2>2, <3>1 DEF Present
  <2> QED BY <2>1, <2>2
<1>3. Present' \subseteq Task BY DEF Present
<1>4. Present' = Present \ G BY <1>1, <1>2, <1>3
<1> QED BY <1>1, <1>4 DEF Free

\* Parents when a node is changed and what is below it may go.
LEMMA ForestKept ==
    ASSUME IInv, NEW t \in Task, NEW G, Gone(G), Shape(t, G),
           Preempted(t)' => Preempted(t) \/ (t \in Present \ G /\ node[t].kind # "anchor"),
           \A u \in G : scheduled'[u] = 0,
           \A u \in Task : scheduled'[u] # 0 => scheduled[u] # 0 \/ (u \in Present /\ node[u].kind # "anchor")
    PROVE  Forest'
<1>1. Present' = Present \ G /\ Free' = Free \cup G /\ G \subseteq Present /\ Present \subseteq Task
  BY ShapePresent
<1>2. Forest BY DEF IInv, Placed
<1>3. ASSUME NEW u \in Free' PROVE node'[u] = Absent /\ scheduled'[u] = 0
  <2>1. CASE u \in G BY <2>1 DEF Shape
  <2>2. CASE u \in Free
    <3>1. node'[u] = node[u] /\ node[u] = Absent /\ scheduled[u] = 0 BY <1>2, <2>2 DEF Shape, Forest
    <3>2. u \in Task /\ u \notin Present BY <2>2 DEF Free
    <3> QED BY <3>1, <3>2
  <2> QED BY <1>1, <2>1, <2>2
<1>4. ASSUME NEW u \in Present' PROVE node'[u].parent \in Present' \cup {NoTask}
  <2>1. u \in Present \ G /\ u \in Task BY <1>1
  <2>2. node'[u].parent = node[u].parent BY <2>1 DEF Shape
  <2>3. node[u].parent \in (Present \ G) \cup {NoTask} BY <2>1 DEF Gone, Closed
  <2> QED BY <1>1, <2>2, <2>3
<1>5. node'[Root].kind = "subflow" /\ node'[Root].parent = NoTask
  BY <1>2, TaskFacts DEF Gone, Shape, Forest
<1>6. ASSUME NEW u \in Present', node'[u].kind = "anchor"
      PROVE  node'[u].parent = NoTask /\ scheduled'[u] = 0 /\ ~Preempted(u)'
  <2>1. u \in Present \ G /\ u \in Task BY <1>1
  <2>2. node[u].kind = "anchor" /\ node'[u].parent = node[u].parent BY <1>6, <2>1 DEF Shape
  <2>3. node[u].parent = NoTask /\ scheduled[u] = 0 /\ ~Preempted(u) BY <1>2, <2>1, <2>2 DEF Forest
  <2>4. ~Preempted(u)' BY <2>1, <2>2, <2>3 DEF Shape
  <2> QED BY <2>1, <2>2, <2>3, <2>4
<1> QED BY <1>3, <1>4, <1>5, <1>6 DEF Forest

\* A worker goes on inside of an invocation that waits for nothing.
LEMMA LocalPlaced ==
    ASSUME IInv, NEW w \in Worker, stack[w] # <<>>, NEW f \in FrameType, Become(w, f),
           NEW t, t = Top(w).node, f.node = t, f.pc # "join", UNCHANGED scheduled,
           node[t].kind # "anchor", Flight(t) = {},
           NEW G, Gone(G), Shape(t, G), \A u \in G : ~Held(u),
           \A u \in Task \ G : node'[u].join = node[u].join,
           Preempted(t)' => Preempted(t) /\ f.pc = "begin",
           f.pc = "count" => f.at = node[t].parent /\ f.at # NoTask /\ (f.again <=> Preempted(f.at)),
           f.at \in Ancestors(t) \cup {NoTask},
           f.pc = "store" => f.at # NoTask
    PROVE  Placed' /\ stack' \in [Worker -> Seq(FrameType)]
<1>0. Typed /\ Placed BY DEF IInv
<1>1. Changed(w, f) /\ stack' \in [Worker -> Seq(FrameType)] BY <1>0, BecomeSlots
<1>2. TopSlot(w) \in Slots /\ At(TopSlot(w)) = Top(w) /\ Top(w).node \in Task BY <1>0, TopFrame
<1>3. PICK top : top = TopSlot(w) OBVIOUS
<1>4. /\ Slots' = Slots /\ top \in Slots /\ At(top) = Top(w) /\ At(top)' = f
      /\ \A u \in Slots \ {top} : At(u)' = At(u) BY <1>1, <1>2, <1>3 DEF Changed
<1>5. \A s \in Slots : At(s)'.node = At(s).node BY <1>4
<1>6. t \in Task /\ t \in Present /\ Held(t) /\ scheduled[t] = 0 BY <1>4, HeldFacts DEF Present
<1>7. t \notin G BY <1>6
<1>8. Present' = Present \ G /\ Free' = Free \cup G /\ G \subseteq Present /\ Present \subseteq Task
  BY ShapePresent
<1>9. \A u \in Task : Running1(u)' <=> Running1(u) BY <1>4, <1>5 DEF Running1
<1>10. ASSUME NEW u \in Task \ G PROVE Held(u)' <=> Held(u)
  <2>1. CASE u = t
    <3>1. Running1(t) BY <1>4 DEF Running1
    <3> QED BY <1>6, <1>9, <2>1, <3>1 DEF Held
  <2>2. CASE u # t
    <3>1. Preempted(u)' <=> Preempted(u) BY <2>2 DEF Shape
    <3> QED BY <1>9, <3>1 DEF Held
  <2> QED BY <2>1, <2>2
<1>11. ASSUME NEW u \in Task \ G PROVE Flight(u)' = Flight(u)
  <2>1. ASSUME NEW c \in Flight(u) PROVE c \in Flight(u)'
    <3>1. c \in Present /\ node[c].parent = u /\ Held(c) BY DEF Flight, Graph
    <3>2. c \in Task \ G BY <1>8, <3>1
    <3>3. node'[c].parent = u BY <3>1, <3>2 DEF Shape
    <3> QED BY <1>8, <1>10, <3>1, <3>2, <3>3 DEF Flight, Graph
  <2>2. ASSUME NEW c \in Flight(u)' PROVE c \in Flight(u)
    <3>1. c \in Present' /\ node'[c].parent = u /\ Held(c)' BY DEF Flight, Graph
    <3>2. c \in Task \ G /\ c \in Present BY <1>8, <3>1
    <3>3. node[c].parent = u BY <3>1, <3>2 DEF Shape
    <3> QED BY <1>10, <3>1, <3>2, <3>3 DEF Flight, Graph
  <2> QED BY <2>1, <2>2
<1>12. \A u \in Present : Held(u) => Ancestors(u)' = Ancestors(u)
  <2>1. \A u \in Present : Held(u) => node'[u].parent = node[u].parent BY <1>8 DEF Shape
  <2> QED BY <2>1, AncestorsHeld
<1>13. Single' BY <1>0, <1>4, <1>5 DEF Placed, Single
<1>14. \A s \in Slots : node'[At(s).node].kind = node[At(s).node].kind
  <2>1. \A s \in Slots : At(s).node \in Task \ G BY <1>8, HeldFacts
  <2> QED BY <2>1 DEF Shape
<1>15. Stacked'
  <2>1. node'[f.node].kind = "anchor" <=> node[Top(w).node].kind = "anchor" BY <1>4, <1>14
  <2> QED BY <1>1, <1>14, <2>1, StackedChanged
<1>16. Forest'
  <2>1. \A u \in G : scheduled'[u] = 0
    <3>1. \A u \in G : scheduled[u] = 0 BY <1>0, <1>8 DEF Held, Typed
    <3> QED BY <3>1
  <2> QED BY <1>6, <2>1, ForestKept
<1>17. ASSUME NEW s \in Slots' PROVE Says(s)'
  <2>1. CASE s = top
    <3>1. Says(top) BY <1>0, <1>4 DEF Placed
    <3>2. t \in Present' BY <1>6, <1>7, <1>8
    <3>3. node'[t].kind = node[t].kind /\ node'[t].parent = node[t].parent BY <1>6, <1>7 DEF Shape
    <3>4. scheduled'[t] = 0 BY <1>6
    <3>5. f.pc = "count" => (f.again <=> Preempted(f.at)')
      <4>1. SUFFICES ASSUME f.pc = "count" PROVE f.again <=> Preempted(f.at)' OBVIOUS
      <4>2. f.at \in Present /\ Held(f.at) /\ t \in Flight(f.at) BY <1>6, <4>1, HeldFacts
      <4>3. f.at # t /\ f.at \in Task \ G BY <1>8, <4>2
      <4>4. Preempted(f.at)' <=> Preempted(f.at) BY <4>3 DEF Shape
      <4> QED BY <4>1, <4>4
    <3>6. Ancestors(t)' = Ancestors(t) BY <1>6, <1>12
    <3> QED BY <1>4, <2>1, <3>2, <3>3, <3>4, <3>5, <3>6 DEF Says
  <2>2. CASE s # top
    <3>1. s \in Slots /\ At(s)' = At(s) BY <1>4, <2>2
    <3>2. PICK u : u = At(s).node OBVIOUS
    <3>3. u \in Present /\ Held(u) /\ scheduled[u] = 0 /\ u \in Task \ G BY <1>8, <3>1, <3>2, HeldFacts
    <3>4. u # t BY <1>0, <1>4, <2>2, <3>1, <3>2 DEF Placed, Single
    <3>5. node'[u].kind = node[u].kind /\ node'[u].parent = node[u].parent
          /\ (Preempted(u)' <=> Preempted(u)) BY <3>3, <3>4 DEF Shape
    <3>6. ASSUME At(s).pc = "count" PROVE Preempted(At(s).at)' <=> Preempted(At(s).at)
      <4>1. Says(s) BY <1>0, <3>1 DEF Placed
      <4>2. At(s).at = node[u].parent /\ node[u].parent # NoTask BY <3>2, <3>6, <4>1 DEF Says
      <4>3. At(s).at \in Present /\ Held(At(s).at) /\ u \in Flight(At(s).at) BY <3>3, <4>2, HeldFacts
      <4>4. At(s).at # t /\ At(s).at \in Task \ G BY <1>8, <4>3
      <4> QED BY <3>1, <4>4 DEF Shape
    <3>7. Ancestors(u)' = Ancestors(u) BY <1>12, <3>3
    <3> QED BY <3>1, <3>2, <3>3, <3>5, <3>6, <3>7, SaysKept
  <2> QED BY <2>1, <2>2
<1>18. ASSUME NEW u \in Present', scheduled'[u] # 0 PROVE Queued(u)'
  <2>1. u \in Task \ G /\ u \in Present /\ scheduled[u] # 0 BY <1>8, <1>18
  <2>2. Queued(u) /\ u # t BY <1>6, <2>1, HeldFacts
  <2>3. Preempted(u)' <=> Preempted(u) BY <2>1, <2>2 DEF Shape
  <2> QED BY <1>9, <2>1, <2>2, <2>3 DEF Queued
<1>19. ASSUME NEW u \in Present' PROVE node'[u].join = Cardinality(Flight(u)')
  <2>1. u \in Task \ G /\ u \in Present BY <1>8
  <2>2. node[u].join = Cardinality(Flight(u)) BY <1>0, <2>1 DEF Placed
  <2> QED BY <1>11, <2>1, <2>2
<1>20. ASSUME NEW u \in Present', Flight(u)' # {} PROVE Awaits(u)'
  <2>1. u \in Task \ G /\ u \in Present /\ Flight(u) # {} BY <1>8, <1>11, <1>20
  <2>2. u # t /\ Awaits(u) BY <1>0, <2>1 DEF Placed
  <2>3. Preempted(u)' <=> Preempted(u) BY <2>1, <2>2 DEF Shape
  <2>4. ASSUME NEW s \in Slots, At(s).node = u PROVE At(s)' = At(s) /\ s \in Slots'
    BY <1>4, <2>2, <2>4
  <2> QED BY <1>9, <2>1, <2>2, <2>3, <2>4 DEF Awaits
<1> QED BY <1>1, <1>13, <1>15, <1>16, <1>17, <1>18, <1>19, <1>20 DEF Placed


\* What an invocation knows of its task t.
Invocation(w, t) ==
    /\ Top(w) \in FrameType /\ TopSlot(w) \in Slots /\ At(TopSlot(w)) = Top(w)
    /\ t \in Task /\ t \in Present /\ Held(t) /\ scheduled[t] = 0 /\ node[t] \in NodeType
    /\ Preempted(t) => Top(w).pc = "begin"
    /\ node[t].kind = "anchor" => Top(w).pc = "join"
    /\ Top(w).pc # "join" => Flight(t) = {}

\* The node that it names beside its own.
Names(w, t) ==
    /\ Top(w).at \in Ancestors(t) \cup {NoTask}
    /\ Top(w).pc = "store" => Top(w).at # NoTask
    /\ Top(w).pc = "count" => /\ Top(w).at = node[t].parent /\ Top(w).at # NoTask
                              /\ Top(w).again <=> Preempted(Top(w).at)

LEMMA RunningFacts ==
    ASSUME IInv, NEW w \in Worker, stack[w] # <<>>
    PROVE  Invocation(w, Top(w).node) /\ Names(w, Top(w).node)
<1>0. Typed /\ Placed BY DEF IInv
<1>1. PICK t : t = Top(w).node OBVIOUS
<1>2. TopSlot(w) \in Slots /\ At(TopSlot(w)) = Top(w) /\ Top(w) \in FrameType BY <1>0, TopFrame
<1>3. Says(TopSlot(w)) BY <1>0, <1>2 DEF Placed
<1>4. t \in Present /\ Held(t) /\ scheduled[t] = 0 /\ (Top(w).pc # "join" => Flight(t) = {})
  BY <1>1, <1>2, HeldFacts
<1>5. t \in Task /\ node[t] \in NodeType BY <1>0, <1>4 DEF Present, Typed
<1>6. Names(w, t) BY <1>1, <1>2, <1>3 DEF Says, Names
<1>7. Invocation(w, t) BY <1>1, <1>2, <1>3, <1>4, <1>5 DEF Says, Invocation
<1> QED BY <1>1, <1>6, <1>7

\* A step that changes no node.
LEMMA NoNode ==
    ASSUME IInv, UNCHANGED node, NEW t
    PROVE  Shape(t, {}) /\ Gone({}) /\ node' \in [Task -> NodeType]
           /\ (\A u \in Task : node'[u].join = node[u].join) /\ (Preempted(t)' <=> Preempted(t))
<1>1. Gone({}) BY DEF Gone, Closed, IInv, Placed, Forest, Present
<1>2. Shape(t, {}) BY DEF Shape, Preempted
<1> QED BY <1>1, <1>2 DEF IInv, Typed, Preempted

\* Other members of one node change.
LEMMA OneNode ==
    ASSUME IInv, NEW t \in Task, NEW a \in Present, NEW r \in NodeType, node' = [node EXCEPT ![a] = r],
           r.kind = node[a].kind, r.parent = node[a].parent, r.join = node[a].join,
           a # t => ("PREEMPTED" \in r.nstate <=> "PREEMPTED" \in node[a].nstate)
    PROVE  /\ Shape(t, {}) /\ Gone({}) /\ node' \in [Task -> NodeType]
           /\ node'[a] = r /\ \A u \in Task \ {a} : node'[u] = node[u]
           /\ \A u \in Task : node'[u].join = node[u].join
<1>1. node \in [Task -> NodeType] /\ a \in Task BY DEF IInv, Typed, Present
<1>2. node' \in [Task -> NodeType] /\ node'[a] = r /\ \A u \in Task \ {a} : node'[u] = node[u] BY <1>1
<1>3. Gone({}) BY DEF Gone, Closed, IInv, Placed, Forest, Present
<1>4. \A u \in Task : node'[u].kind = node[u].kind /\ node'[u].parent = node[u].parent
                      /\ node'[u].join = node[u].join BY <1>2
<1>5. \A u \in Task \ {t} : Preempted(u)' <=> Preempted(u) BY <1>2 DEF Preempted
<1>6. \A u \in Free : node'[u] = node[u] BY <1>2 DEF Free
<1> QED BY <1>2, <1>3, <1>4, <1>5, <1>6 DEF Shape

\* A task's graph is cleared.
LEMMA ClearedNodes ==
    ASSUME IInv, NEW t \in Present, Held(t), Flight(t) = {}, NEW r \in NodeType, NEW n, n = [node EXCEPT ![t] = r],
           r.kind = node[t].kind, r.parent = node[t].parent, r.join = node[t].join,
           node' = Cleared(n, t)
    PROVE  /\ Shape(t, Descendants(t)) /\ Gone(Descendants(t)) /\ node' \in [Task -> NodeType]
           /\ node'[t] = r /\ t \notin Descendants(t)
           /\ \A u \in Task \ (Descendants(t) \cup {t}) : node'[u] = node[u]
           /\ \A u \in Task \ Descendants(t) : node'[u].join = node[u].join
           /\ \A u \in Descendants(t) : ~Held(u)
<1>1. node \in [Task -> NodeType] /\ t \in Task /\ Present \subseteq Task BY DEF IInv, Typed, Present
<1>2. PICK G : G = Descendants(t) OBVIOUS
<1>3. /\ \A d \in G : d \in Present /\ ~Held(d) /\ d # Root /\ d # t
      /\ Closed(Present \ G) BY <1>2, NothingBelow
<1>4. Gone(G) BY <1>3 DEF Gone
<1>5. Absent \in NodeType
  <2>1. "none" \in {"none", "static", "subflow", "anchor"} /\ NoTask \in Nodes /\ 0 \in Nat /\ FALSE \in BOOLEAN
    BY DEF Nodes
  <2> QED BY <2>1 DEF Absent, NodeType
<1>6. node' = [s \in Task |-> IF s \in G THEN Absent ELSE n[s]] BY <1>2 DEF Cleared
<1>7. n \in [Task -> NodeType] /\ n[t] = r /\ \A u \in Task \ {t} : n[u] = node[u] BY <1>1
<1>8. node' \in [Task -> NodeType] BY <1>5, <1>6, <1>7
<1>9. \A u \in G : node'[u] = Absent BY <1>1, <1>3, <1>6
<1>10. node'[t] = r /\ \A u \in Task \ (G \cup {t}) : node'[u] = node[u] BY <1>1, <1>3, <1>6, <1>7
<1>11. \A u \in Task \ G : node'[u].kind = node[u].kind /\ node'[u].parent = node[u].parent
                           /\ node'[u].join = node[u].join BY <1>10
<1>12. \A u \in Task \ (G \cup {t}) : Preempted(u)' <=> Preempted(u) BY <1>10 DEF Preempted
<1>13. \A u \in Free : node'[u] = node[u] BY <1>1, <1>3, <1>10 DEF Free
<1>14. Shape(t, G) BY <1>9, <1>11, <1>12, <1>13 DEF Shape
<1> QED BY <1>2, <1>3, <1>4, <1>8, <1>10, <1>11, <1>14

\* No node goes.
LEMMA Continues ==
    ASSUME IInv, NEW w \in Worker, NEW x, Running(w, x), NEW f \in FrameType, Become(w, f),
           NEW t, t = Top(w).node, f.node = t, f.pc # "join", UNCHANGED scheduled,
           node[t].kind # "anchor", Flight(t) = {},
           Shape(t, {}), Gone({}), \A u \in Task : node'[u].join = node[u].join,
           ~Preempted(t)',
           f.pc = "count" => f.at = node[t].parent /\ f.at # NoTask /\ (f.again <=> Preempted(f.at)),
           f.at \in Ancestors(t) \cup {NoTask},
           f.pc = "store" => f.at # NoTask
    PROVE  Placed' /\ stack' \in [Worker -> Seq(FrameType)]
<1>1. stack[w] # <<>> BY DEF Running
<1>2. \A u \in {} : ~Held(u) OBVIOUS
<1>3. \A u \in Task \ {} : node'[u].join = node[u].join OBVIOUS
<1> QED BY <1>1, <1>2, <1>3, LocalPlaced

\* Only the place in the code changes.
LEMMA GoesOn ==
    ASSUME IInv, NEW w \in Worker, NEW x, Running(w, x), NEW y \in Places \ {"join", "count", "store"},
           Goto(w, y), NEW t, t = Top(w).node, UNCHANGED scheduled,
           node[t].kind # "anchor", Flight(t) = {},
           Shape(t, {}), Gone({}), \A u \in Task : node'[u].join = node[u].join, ~Preempted(t)'
    PROVE  Placed' /\ stack' \in [Worker -> Seq(FrameType)]
<1>1. Top(w) \in FrameType /\ Top(w).at \in Ancestors(t) \cup {NoTask}
  BY RunningFacts DEF Running, Invocation, Names
<1>2. PICK f : f = [Top(w) EXCEPT !.pc = y] OBVIOUS
<1>3. f \in FrameType /\ f.node = t /\ f.pc = y /\ f.at = Top(w).at BY <1>1, <1>2 DEF FrameType
<1>4. Become(w, f) BY <1>2 DEF Goto
<1> QED BY <1>1, <1>3, <1>4, Continues


-----------------------------------------------------------------------------
(* The steps of one invocation *)

LEMMA SkipPlaced == ASSUME IInv, NEW w \in Worker, Skip(w) PROVE IInv'
<1>1. PICK t : t = Top(w).node OBVIOUS
<1>2. Running(w, "begin") /\ ~Preempted(t) /\ Goto(w, "finish") /\ UNCHANGED <<node, topology, scheduled, round, threw, reported>>
  BY <1>1 DEF Skip, Preempted
<1>3. node[t].kind # "anchor" /\ Flight(t) = {} BY <1>1, <1>2, RunningFacts DEF Running, Invocation
<1>4. "finish" \in Places \ {"join", "count", "store"} BY DEF Places
<1>5. /\ Shape(t, {}) /\ Gone({}) /\ node' \in [Task -> NodeType]
      /\ \A u \in Task : node'[u].join = node[u].join
      /\ ~Preempted(t)' BY <1>2, NoNode
<1>6. Placed' /\ stack' \in [Worker -> Seq(FrameType)] BY <1>1, <1>2, <1>3, <1>4, <1>5, GoesOn
<1> QED BY <1>2, <1>5, <1>6 DEF IInv, Typed

\* A callable returns: its frame alone changes.
LEMMA ReturnPlaced == ASSUME IInv, NEW w \in Worker, Return(w) PROVE IInv'
<1>1. PICK t : t = Top(w).node OBVIOUS
<1>2. Running(w, "work") /\ Goto(w, "leave") /\ UNCHANGED <<node, topology, scheduled, round, threw, reported>>
  BY DEF Return
<1>3. node[t].kind # "anchor" /\ Flight(t) = {} /\ ~Preempted(t)
  BY <1>1, <1>2, RunningFacts DEF Running, Invocation
<1>4. "leave" \in Places \ {"join", "count", "store"} BY DEF Places
<1>5. /\ Shape(t, {}) /\ Gone({}) /\ node' \in [Task -> NodeType]
      /\ \A u \in Task : node'[u].join = node[u].join
      /\ ~Preempted(t)' BY <1>2, <1>3, NoNode
<1>6. Placed' /\ stack' \in [Worker -> Seq(FrameType)] BY <1>1, <1>2, <1>3, <1>4, <1>5, GoesOn
<1> QED BY <1>2, <1>5, <1>6 DEF IInv, Typed

\* A task without a subflow is left.
LEMMA LeavePlaced == ASSUME IInv, NEW w \in Worker, Leave(w) PROVE IInv'
<1>1. PICK t : t = Top(w).node OBVIOUS
<1>2. /\ Running(w, "leave") /\ UNCHANGED <<node, topology, scheduled, round, threw, reported>>
      /\ \E y \in {"finish", "over"} : Goto(w, y) BY DEF Leave
<1>3. node[t].kind # "anchor" /\ Flight(t) = {} /\ ~Preempted(t)
  BY <1>1, <1>2, RunningFacts DEF Running, Invocation
<1>4. PICK y \in {"finish", "over"} : Goto(w, y) BY <1>2
<1>5. y \in Places \ {"join", "count", "store"} BY <1>4 DEF Places
<1>6. /\ Shape(t, {}) /\ Gone({}) /\ node' \in [Task -> NodeType]
      /\ \A u \in Task : node'[u].join = node[u].join
      /\ ~Preempted(t)' BY <1>2, <1>3, NoNode
<1>7. Placed' /\ stack' \in [Worker -> Seq(FrameType)] BY <1>1, <1>2, <1>3, <1>4, <1>5, <1>6, GoesOn
<1> QED BY <1>2, <1>6, <1>7 DEF IInv, Typed

\* A subflow that was left before its graph is entered again.
LEMMA ResumePlaced == ASSUME IInv, NEW w \in Worker, Resume(w) PROVE IInv'
<1>1. PICK t : t = Top(w).node OBVIOUS
<1>2. /\ Running(w, "begin") /\ Preempted(t) /\ Goto(w, "over") /\ UNCHANGED <<topology, scheduled, round, threw, reported>>
      /\ node' = [node EXCEPT ![t].nstate = @ \ {"PREEMPTED"}] BY <1>1 DEF Resume, Preempted
<1>3. /\ node[t].kind # "anchor" /\ Flight(t) = {} /\ t \in Task /\ t \in Present
      /\ node[t] \in NodeType BY <1>1, <1>2, RunningFacts DEF Running, Invocation
<1>4. "over" \in Places \ {"join", "count", "store"} BY DEF Places
<1>5. PICK r : r = [node[t] EXCEPT !.nstate = @ \ {"PREEMPTED"}] OBVIOUS
<1>6. /\ r \in NodeType /\ r.kind = node[t].kind /\ r.parent = node[t].parent /\ r.join = node[t].join
      /\ r.nstate = node[t].nstate \ {"PREEMPTED"} BY <1>3, <1>5 DEF NodeType
<1>7. node' = [node EXCEPT ![t] = r] BY <1>2, <1>5
<1>8. /\ Shape(t, {}) /\ Gone({}) /\ node' \in [Task -> NodeType]
      /\ \A u \in Task : node'[u].join = node[u].join
      /\ node'[t] = r BY <1>3, <1>6, <1>7, OneNode
<1>9. ~Preempted(t)' BY <1>6, <1>8 DEF Preempted
<1>10. Placed' /\ stack' \in [Worker -> Seq(FrameType)] BY <1>1, <1>2, <1>3, <1>4, <1>8, <1>9, GoesOn
<1> QED BY <1>2, <1>8, <1>10 DEF IInv, Typed

\* A callable throws.
LEMMA ThrowPlaced == ASSUME IInv, NEW w \in Worker, Throw(w) PROVE IInv'
<1>1. PICK t : t = Top(w).node OBVIOUS
<1>2. PICK f : f = [Top(w) EXCEPT !.pc = "raise", !.at = t] OBVIOUS
<1>3. Running(w, "work") /\ Become(w, f) /\ threw' = TRUE /\ UNCHANGED <<node, topology, scheduled, round, reported>>
  BY <1>1, <1>2 DEF Throw
<1>4. /\ node[t].kind # "anchor" /\ Flight(t) = {} /\ t \in Task /\ ~Preempted(t)
      /\ Top(w) \in FrameType BY <1>1, <1>3, RunningFacts DEF Running, Invocation
<1>5. f \in FrameType /\ f.node = t /\ f.pc = "raise" /\ f.at = t
  BY <1>1, <1>2, <1>4 DEF FrameType, Places, Nodes
<1>6. f.at \in Ancestors(t) BY <1>4, <1>5, AncestorFacts
<1>7. /\ Shape(t, {}) /\ Gone({}) /\ node' \in [Task -> NodeType]
      /\ \A u \in Task : node'[u].join = node[u].join
      /\ ~Preempted(t)' BY <1>3, <1>4, NoNode
<1>8. Placed' /\ stack' \in [Worker -> Seq(FrameType)] BY <1>1, <1>3, <1>4, <1>5, <1>6, <1>7, Continues
<1> QED BY <1>3, <1>7, <1>8 DEF IInv, Typed

\* An exception arrives at the topology.
LEMMA RaiseTopologyPlaced == ASSUME IInv, NEW w \in Worker, RaiseTopology(w) PROVE IInv'
<1>1. PICK t : t = Top(w).node OBVIOUS
<1>2. PICK y : y = IF "EXCEPTION" \notin topology.estate THEN "leave" ELSE "store" OBVIOUS
<1>3. PICK f : f = [Top(w) EXCEPT !.pc = y, !.at = t] OBVIOUS
<1>4. /\ Running(w, "raise") /\ Become(w, f) /\ UNCHANGED <<node, scheduled, round, threw, reported>>
      /\ topology' = [estate |-> topology.estate \cup Failed,
                      eptr |-> topology.eptr \/ "EXCEPTION" \notin topology.estate]
  BY <1>1, <1>2, <1>3 DEF RaiseTopology
<1>5. /\ node[t].kind # "anchor" /\ Flight(t) = {} /\ t \in Task /\ ~Preempted(t)
      /\ Top(w) \in FrameType BY <1>1, <1>4, RunningFacts DEF Running, Invocation
<1>6. f \in FrameType /\ f.node = t /\ f.pc = y /\ f.at = t /\ y \in {"leave", "store"}
  BY <1>1, <1>2, <1>3, <1>5 DEF FrameType, Places, Nodes
<1>7. f.at \in Ancestors(t) /\ f.at # NoTask BY <1>5, <1>6, AncestorFacts, TaskFacts
<1>8. /\ Shape(t, {}) /\ Gone({}) /\ node' \in [Task -> NodeType]
      /\ \A u \in Task : node'[u].join = node[u].join
      /\ ~Preempted(t)' BY <1>4, <1>5, NoNode
<1>9. Placed' /\ stack' \in [Worker -> Seq(FrameType)] BY <1>1, <1>4, <1>5, <1>6, <1>7, <1>8, Continues
<1>10. topology' \in [estate : SUBSET Flags, eptr : BOOLEAN]
  <2>1. topology.estate \in SUBSET Flags /\ topology.eptr \in BOOLEAN BY DEF IInv, Typed
  <2>2. topology.estate \cup Failed \in SUBSET Flags BY <2>1 DEF Failed, Flags
  <2>3. (topology.eptr \/ "EXCEPTION" \notin topology.estate) \in BOOLEAN OBVIOUS
  <2> QED BY <1>4, <2>2, <2>3
<1> QED BY <1>4, <1>8, <1>9, <1>10 DEF IInv, Typed

\* An exception goes on to the parent, which is an ancestor too,
LEMMA RaisePassPlaced == ASSUME IInv, NEW w \in Worker, RaisePass(w) PROVE IInv'
<1>1. PICK t : t = Top(w).node OBVIOUS
<1>2. PICK a : a = Top(w).at OBVIOUS
<1>3. PICK f : f = [Top(w) EXCEPT !.at = node[a].parent] OBVIOUS
<1>4. /\ Running(w, "raise") /\ a # NoTask /\ Become(w, f) /\ UNCHANGED <<topology, scheduled, round, threw, reported>>
      /\ node' = [node EXCEPT ![a].estate = @ \cup Failed] BY <1>2, <1>3 DEF RaisePass
<1>5. /\ node[t].kind # "anchor" /\ Flight(t) = {} /\ t \in Task /\ t \in Present /\ Held(t) /\ ~Preempted(t)
      /\ Top(w) \in FrameType /\ Top(w).pc = "raise" /\ a \in Ancestors(t)
  BY <1>1, <1>2, <1>4, RunningFacts DEF Running, Invocation, Names
<1>6. a \in Present /\ a \in Task BY <1>5, HeldClosed DEF Present
<1>7. node[a] \in NodeType /\ node[a].parent \in Nodes /\ node[a].estate \in SUBSET Flags
  <2>1. node[a] \in NodeType BY <1>6 DEF IInv, Typed
  <2> QED BY <2>1 DEF NodeType
<1>8. f \in FrameType /\ f.node = t /\ f.pc = "raise" /\ f.at = node[a].parent
  BY <1>1, <1>3, <1>5, <1>7 DEF FrameType
<1>9. f.at \in Ancestors(t) \cup {NoTask} BY <1>5, <1>7, <1>8, AncestorFacts DEF Nodes
<1>10. PICK r : r = [node[a] EXCEPT !.estate = @ \cup Failed] OBVIOUS
<1>11. /\ r \in NodeType /\ r.kind = node[a].kind /\ r.parent = node[a].parent /\ r.join = node[a].join
       /\ r.nstate = node[a].nstate
  <2>1. node[a].estate \cup Failed \in SUBSET Flags BY <1>7 DEF Failed, Flags
  <2> QED BY <1>7, <1>10, <2>1 DEF NodeType
<1>12. node' = [node EXCEPT ![a] = r] BY <1>4, <1>10
<1>13. /\ Shape(t, {}) /\ Gone({}) /\ node' \in [Task -> NodeType]
       /\ \A u \in Task : node'[u].join = node[u].join
       /\ node'[a] = r /\ \A u \in Task \ {a} : node'[u] = node[u]
  BY <1>5, <1>6, <1>11, <1>12, OneNode
<1>14. ~Preempted(t)' BY <1>5, <1>11, <1>13 DEF Preempted
<1>15. Placed' /\ stack' \in [Worker -> Seq(FrameType)] BY <1>1, <1>4, <1>5, <1>8, <1>9, <1>13, <1>14, Continues
<1> QED BY <1>4, <1>13, <1>15 DEF IInv, Typed

\* or stops at a join or a corun.
LEMMA RaiseAnchorPlaced == ASSUME IInv, NEW w \in Worker, RaiseAnchor(w) PROVE IInv'
<1>1. PICK t : t = Top(w).node OBVIOUS
<1>2. PICK a : a = Top(w).at OBVIOUS
<1>3. PICK b : b = IF "EXCEPTION" \in node[a].estate THEN t ELSE a OBVIOUS
<1>0. PICK f : f = [Top(w) EXCEPT !.pc = "store", !.at = b] OBVIOUS
<1>4. /\ Running(w, "raise") /\ a # NoTask /\ Become(w, f) /\ UNCHANGED <<topology, scheduled, round, threw, reported>>
      /\ node' = [node EXCEPT ![a].estate = @ \cup Failed] BY <1>0, <1>1, <1>2, <1>3 DEF RaiseAnchor
<1>5. /\ node[t].kind # "anchor" /\ Flight(t) = {} /\ t \in Task /\ t \in Present /\ Held(t) /\ ~Preempted(t)
      /\ Top(w) \in FrameType /\ Top(w).pc = "raise" /\ a \in Ancestors(t)
  BY <1>1, <1>2, <1>4, RunningFacts DEF Running, Invocation, Names
<1>6. a \in Present /\ a \in Task BY <1>5, HeldClosed DEF Present
<1>7. node[a] \in NodeType /\ node[a].estate \in SUBSET Flags
  <2>1. node[a] \in NodeType BY <1>6 DEF IInv, Typed
  <2> QED BY <2>1 DEF NodeType
<1>8. b \in Ancestors(t) /\ b \in Task /\ b # NoTask BY <1>3, <1>5, <1>6, AncestorFacts, TaskFacts
<1>9. f \in FrameType /\ f.node = t /\ f.pc = "store" /\ f.at = b
  BY <1>0, <1>1, <1>5, <1>8 DEF FrameType, Places, Nodes
<1>10. PICK r : r = [node[a] EXCEPT !.estate = @ \cup Failed] OBVIOUS
<1>11. /\ r \in NodeType /\ r.kind = node[a].kind /\ r.parent = node[a].parent /\ r.join = node[a].join
       /\ r.nstate = node[a].nstate
  <2>1. node[a].estate \cup Failed \in SUBSET Flags BY <1>7 DEF Failed, Flags
  <2> QED BY <1>7, <1>10, <2>1 DEF NodeType
<1>12. node' = [node EXCEPT ![a] = r] BY <1>4, <1>10
<1>13. /\ Shape(t, {}) /\ Gone({}) /\ node' \in [Task -> NodeType]
       /\ \A u \in Task : node'[u].join = node[u].join
       /\ node'[a] = r /\ \A u \in Task \ {a} : node'[u] = node[u]
  BY <1>5, <1>6, <1>11, <1>12, OneNode
<1>14. ~Preempted(t)' BY <1>5, <1>11, <1>13 DEF Preempted
<1>15. Placed' /\ stack' \in [Worker -> Seq(FrameType)] BY <1>1, <1>4, <1>5, <1>8, <1>9, <1>13, <1>14, Continues
<1> QED BY <1>4, <1>13, <1>15 DEF IInv, Typed

\* The first exception is kept by the node it stopped at.
LEMMA StorePlaced == ASSUME IInv, NEW w \in Worker, Store(w) PROVE IInv'
<1>1. PICK t : t = Top(w).node OBVIOUS
<1>2. PICK a : a = Top(w).at OBVIOUS
<1>4. /\ Running(w, "store") /\ Goto(w, "leave") /\ UNCHANGED <<topology, scheduled, round, threw, reported>>
      /\ node' = [node EXCEPT ![a].eptr = TRUE] BY <1>2 DEF Store
<1>5. /\ node[t].kind # "anchor" /\ Flight(t) = {} /\ t \in Task /\ t \in Present /\ Held(t) /\ ~Preempted(t)
      /\ a \in Ancestors(t) BY <1>1, <1>2, <1>4, RunningFacts DEF Running, Invocation, Names
<1>6. a \in Present /\ a \in Task BY <1>5, HeldClosed DEF Present
<1>7. node[a] \in NodeType BY <1>6 DEF IInv, Typed
<1>8. "leave" \in Places \ {"join", "count", "store"} BY DEF Places
<1>10. PICK r : r = [node[a] EXCEPT !.eptr = TRUE] OBVIOUS
<1>11. /\ r \in NodeType /\ r.kind = node[a].kind /\ r.parent = node[a].parent /\ r.join = node[a].join
       /\ r.nstate = node[a].nstate BY <1>7, <1>10 DEF NodeType
<1>12. node' = [node EXCEPT ![a] = r] BY <1>4, <1>10
<1>13. /\ Shape(t, {}) /\ Gone({}) /\ node' \in [Task -> NodeType]
       /\ \A u \in Task : node'[u].join = node[u].join
       /\ node'[a] = r /\ \A u \in Task \ {a} : node'[u] = node[u]
  BY <1>5, <1>6, <1>11, <1>12, OneNode
<1>14. ~Preempted(t)' BY <1>5, <1>11, <1>13 DEF Preempted
<1>15. Placed' /\ stack' \in [Worker -> Seq(FrameType)] BY <1>1, <1>4, <1>5, <1>8, <1>13, <1>14, GoesOn
<1> QED BY <1>4, <1>13, <1>15 DEF IInv, Typed

\* A task that ends looks at its parent, which is in hand since the task is.
LEMMA ReadParentPlaced == ASSUME IInv, NEW w \in Worker, ReadParent(w) PROVE IInv'
<1>1. PICK t : t = Top(w).node OBVIOUS
<1>2. PICK p : p = node[t].parent OBVIOUS
<1>3. PICK again : again = ("PREEMPTED" \in node[p].nstate) OBVIOUS
<1>4. PICK f : f = [Top(w) EXCEPT !.pc = "count", !.at = p, !.again = again] OBVIOUS
<1>5. Running(w, "finish") /\ p # NoTask /\ Become(w, f) /\ UNCHANGED <<node, topology, scheduled, round, threw, reported>>
  BY <1>1, <1>2, <1>3, <1>4 DEF ReadParent
<1>6. /\ node[t].kind # "anchor" /\ Flight(t) = {} /\ t \in Task /\ t \in Present /\ Held(t) /\ ~Preempted(t)
      /\ Top(w) \in FrameType BY <1>1, <1>5, RunningFacts DEF Running, Invocation
<1>7. p \in Present /\ p \in Task BY <1>2, <1>5, <1>6, HeldFacts DEF Present
<1>8. p \in Ancestors(t) BY <1>2, <1>6, <1>7, AncestorFacts
<1>9. again \in BOOLEAN BY <1>3
<1>10. f \in FrameType /\ f.node = t /\ f.pc = "count" /\ f.at = p /\ f.again = again
  BY <1>1, <1>4, <1>6, <1>7, <1>9 DEF FrameType, Places, Nodes
<1>11. f.again <=> Preempted(f.at) BY <1>3, <1>10 DEF Preempted
<1>12. /\ Shape(t, {}) /\ Gone({}) /\ node' \in [Task -> NodeType]
       /\ \A u \in Task : node'[u].join = node[u].join
       /\ ~Preempted(t)' BY <1>5, <1>6, NoNode
<1>13. Placed' /\ stack' \in [Worker -> Seq(FrameType)]
  BY <1>1, <1>2, <1>5, <1>6, <1>8, <1>10, <1>11, <1>12, Continues
<1> QED BY <1>5, <1>12, <1>13 DEF IInv, Typed


\* A subflow is called with an empty graph: nothing was in hand in the old one.
LEMMA CallPlaced == ASSUME IInv, NEW w \in Worker, Call(w) PROVE IInv'
<1>1. PICK t : t = Top(w).node OBVIOUS
<1>2. PICK f : f = [Top(w) EXCEPT !.pc = "work"] OBVIOUS
<1>3. /\ Running(w, "begin") /\ ~Preempted(t) /\ Become(w, f) /\ UNCHANGED <<topology, scheduled, round, threw, reported>>
      /\ node' = Cleared([node EXCEPT ![t].ran = @ + 1, ![t].joins = 0,
                                      ![t].nstate = @ \ {"JOINED", "RETAIN"}], t)
  BY <1>1, <1>2 DEF Call, Preempted, Goto
<1>4. /\ node[t].kind # "anchor" /\ Flight(t) = {} /\ t \in Task /\ t \in Present /\ Held(t)
      /\ node[t] \in NodeType /\ stack[w] # <<>> /\ Top(w) \in FrameType
      /\ Top(w).at \in Ancestors(t) \cup {NoTask} BY <1>1, <1>3, RunningFacts DEF Running, Invocation, Names
<1>5. f \in FrameType /\ f.node = t /\ f.pc = "work" /\ f.at = Top(w).at
  BY <1>1, <1>2, <1>4 DEF FrameType, Places
<1>6. PICK r : r = [node[t] EXCEPT !.ran = @ + 1, !.joins = 0, !.nstate = @ \ {"JOINED", "RETAIN"}] OBVIOUS
<1>7. /\ r \in NodeType /\ r.kind = node[t].kind /\ r.parent = node[t].parent /\ r.join = node[t].join
      /\ r.nstate = node[t].nstate \ {"JOINED", "RETAIN"}
  <2>1. node[t].ran + 1 \in Nat /\ 0 \in Nat /\ node[t].nstate \ {"JOINED", "RETAIN"} \in SUBSET Marks
    BY <1>4 DEF NodeType
  <2> QED BY <1>4, <1>6, <2>1 DEF NodeType
<1>8. node \in [Task -> NodeType] BY DEF IInv, Typed
<1>9. [node EXCEPT ![t].ran = @ + 1, ![t].joins = 0, ![t].nstate = @ \ {"JOINED", "RETAIN"}]
        = [node EXCEPT ![t] = r] BY <1>4, <1>6, <1>8 DEF NodeType
<1>10. PICK n : n = [node EXCEPT ![t] = r] OBVIOUS
<1>11. node' = Cleared(n, t) BY <1>3, <1>9, <1>10
<1>12. PICK G : G = Descendants(t) OBVIOUS
<1>13. /\ Shape(t, G) /\ Gone(G) /\ node' \in [Task -> NodeType]
       /\ node'[t] = r
       /\ \A u \in Task \ G : node'[u].join = node[u].join
       /\ \A u \in G : ~Held(u) BY <1>4, <1>7, <1>10, <1>11, <1>12, ClearedNodes
<1>14. ~Preempted(t)' BY <1>3, <1>7, <1>13 DEF Preempted
<1>15. Placed' /\ stack' \in [Worker -> Seq(FrameType)] BY <1>1, <1>3, <1>4, <1>5, <1>13, <1>14, LocalPlaced
<1> QED BY <1>3, <1>13, <1>15 DEF IInv, Typed

\* A subflow that was joined and is not retained clears its graph.
LEMMA OverPlaced == ASSUME IInv, NEW w \in Worker, Over(w) PROVE IInv'
<1>1. PICK t : t = Top(w).node OBVIOUS
<1>2. /\ Running(w, "over") /\ Goto(w, "finish") /\ UNCHANGED <<topology, scheduled, round, threw, reported>>
      /\ node' = IF "RETAIN" \in node[t].nstate THEN node ELSE Cleared(node, t) BY <1>1 DEF Over
<1>3. /\ node[t].kind # "anchor" /\ Flight(t) = {} /\ t \in Task /\ t \in Present /\ Held(t) /\ ~Preempted(t)
      /\ node[t] \in NodeType /\ stack[w] # <<>> /\ Top(w) \in FrameType
      /\ Top(w).at \in Ancestors(t) \cup {NoTask} BY <1>1, <1>2, RunningFacts DEF Running, Invocation, Names
<1>4. CASE "RETAIN" \in node[t].nstate
  <2>1. UNCHANGED node BY <1>2, <1>4
  <2>2. "finish" \in Places \ {"join", "count", "store"} BY DEF Places
  <2>3. /\ Shape(t, {}) /\ Gone({}) /\ node' \in [Task -> NodeType]
        /\ \A u \in Task : node'[u].join = node[u].join
        /\ ~Preempted(t)' BY <1>3, <2>1, NoNode
  <2>4. Placed' /\ stack' \in [Worker -> Seq(FrameType)] BY <1>1, <1>2, <1>3, <2>2, <2>3, GoesOn
  <2> QED BY <1>2, <2>3, <2>4 DEF IInv, Typed
<1>5. CASE "RETAIN" \notin node[t].nstate
  <2>1. PICK f : f = [Top(w) EXCEPT !.pc = "finish"] OBVIOUS
  <2>2. f \in FrameType /\ f.node = t /\ f.pc = "finish" /\ f.at = Top(w).at
    BY <1>1, <1>3, <2>1 DEF FrameType, Places
  <2>3. Become(w, f) BY <1>2, <2>1 DEF Goto
  <2>4. PICK r : r = node[t] OBVIOUS
  <2>5. node = [node EXCEPT ![t] = r] BY <2>4 DEF IInv, Typed
  <2>6. PICK n : n = [node EXCEPT ![t] = r] OBVIOUS
  <2>7. node' = Cleared(n, t) BY <1>2, <1>5, <2>5, <2>6
  <2>8. PICK G : G = Descendants(t) OBVIOUS
  <2>9. /\ Shape(t, G) /\ Gone(G) /\ node' \in [Task -> NodeType]
        /\ node'[t] = r
        /\ \A u \in Task \ G : node'[u].join = node[u].join
        /\ \A u \in G : ~Held(u) BY <1>3, <2>4, <2>6, <2>7, <2>8, ClearedNodes
  <2>10. ~Preempted(t)' BY <1>3, <2>4, <2>9 DEF Preempted
  <2>11. Placed' /\ stack' \in [Worker -> Seq(FrameType)]
    BY <1>1, <1>3, <2>2, <2>3, <1>2, <2>9, <2>10, LocalPlaced
  <2> QED BY <1>2, <2>9, <2>11 DEF IInv, Typed
<1> QED BY <1>4, <1>5

\* A counter at zero: nothing is in flight.
LEMMA NoneLeft ==
    ASSUME IInv, NEW t \in Present, node[t].join = 0
    PROVE  Flight(t) = {}
<1>1. Cardinality(Flight(t)) = 0 BY DEF IInv, Placed
<1> QED BY <1>1, GraphFinite, FS_EmptySet

\* A join returns when its counter is zero: nothing of the graph is in hand.
LEMMA JoinReturnsPlaced == ASSUME IInv, NEW w \in Worker, JoinReturns(w) PROVE IInv'
<1>1. PICK t : t = Top(w).node OBVIOUS
<1>2. PICK r : r = [node[t] EXCEPT !.estate = @ \ {"ANCHORED"}, !.eptr = FALSE,
                                   !.nstate = IF node[t].eptr THEN @ ELSE @ \cup {"JOINED"}] OBVIOUS
<1>3. PICK g : g = [Top(w) EXCEPT !.pc = "raise", !.at = t] OBVIOUS
<1>0. PICK h : h = [Top(w) EXCEPT !.pc = "work"] OBVIOUS
<1>4. /\ Running(w, "join") /\ UNCHANGED <<topology, scheduled, round, threw>>
      /\ node[t].kind = "subflow" /\ node[t].join = 0
      /\ \E f \in {g, h} : Become(w, f)
      /\ reported' = (reported \/ node[t].eptr) BY <1>0, <1>1, <1>3 DEF JoinReturns, Goto
<1>5. /\ t \in Task /\ t \in Present /\ Held(t)
      /\ node[t] \in NodeType /\ Top(w) \in FrameType /\ ~Preempted(t)
      /\ Top(w).at \in Ancestors(t) \cup {NoTask} BY <1>1, <1>4, RunningFacts DEF Running, Invocation, Names
<1>6. Flight(t) = {} BY <1>4, <1>5, NoneLeft
<1>7. node' = [node EXCEPT ![t] = r]
  <2>1. node' = [node EXCEPT ![t].estate = @ \ {"ANCHORED"}, ![t].eptr = FALSE,
                             ![t].nstate = IF node[t].eptr THEN @ ELSE @ \cup {"JOINED"}]
    BY <1>1 DEF JoinReturns
  <2>2. node \in [Task -> NodeType] BY DEF IInv, Typed
  <2> QED BY <1>2, <1>5, <2>1, <2>2 DEF NodeType
<1>8. /\ r \in NodeType /\ r.kind = node[t].kind /\ r.parent = node[t].parent /\ r.join = node[t].join
      /\ r.nstate \in SUBSET Marks /\ ("PREEMPTED" \in r.nstate <=> "PREEMPTED" \in node[t].nstate)
  <2>1. PICK m : m = IF node[t].eptr THEN node[t].nstate ELSE node[t].nstate \cup {"JOINED"} OBVIOUS
  <2>2. m \in SUBSET Marks /\ ("PREEMPTED" \in m <=> "PREEMPTED" \in node[t].nstate)
    BY <1>5, <2>1 DEF NodeType, Marks
  <2>3. r = [node[t] EXCEPT !.estate = @ \ {"ANCHORED"}, !.eptr = FALSE, !.nstate = m]
    BY <1>2, <1>5, <2>1 DEF NodeType
  <2>4. node[t].estate \ {"ANCHORED"} \in SUBSET Flags BY <1>5 DEF NodeType
  <2> QED BY <1>5, <2>2, <2>3, <2>4 DEF NodeType
<1>9. /\ Shape(t, {}) /\ Gone({}) /\ node' \in [Task -> NodeType]
      /\ \A u \in Task : node'[u].join = node[u].join
      /\ node'[t] = r BY <1>5, <1>7, <1>8, OneNode
<1>10. ~Preempted(t)' BY <1>5, <1>8, <1>9 DEF Preempted
<1>11. PICK f \in {g, h} : Become(w, f) BY <1>4
<1>12. f \in FrameType /\ f.node = t /\ f.pc \in {"raise", "work"} /\ f.at \in Ancestors(t) \cup {NoTask}
  <2>1. t \in Ancestors(t) BY <1>5, AncestorFacts
  <2> QED BY <1>0, <1>1, <1>3, <1>5, <1>11, <2>1 DEF FrameType, Places, Nodes
<1>13. Placed' /\ stack' \in [Worker -> Seq(FrameType)]
  BY <1>1, <1>4, <1>5, <1>6, <1>9, <1>10, <1>11, <1>12, Continues
<1>14. reported' \in BOOLEAN BY <1>4
<1> QED BY <1>4, <1>9, <1>13, <1>14 DEF IInv, Typed

\* No invocation goes on.
LEMMA StillPlaced ==
    ASSUME IInv, UNCHANGED <<stack, scheduled>>, NEW t \in Task, Shape(t, {}), Gone({}),
           \A u \in Task : node'[u].join = node[u].join, Preempted(t)' <=> Preempted(t)
    PROVE  Placed'
<1>0. Typed /\ Placed BY DEF IInv
<1>1. Present' = Present /\ Free' = Free /\ Present \subseteq Task
  <2>1. Present' = Present \ {} /\ Free' = Free \cup {} /\ Present \subseteq Task BY ShapePresent
  <2> QED BY <2>1
<1>2. \A u \in Task : node'[u].kind = node[u].kind /\ node'[u].parent = node[u].parent BY DEF Shape
<1>3. \A u \in Task : Preempted(u)' <=> Preempted(u) BY DEF Shape
<1>4. Slots' = Slots /\ \A s : At(s)' = At(s) BY DEF Slots, At
<1>5. \A s : TopSlot(s[1])' = TopSlot(s[1]) BY DEF TopSlot
<1>6. \A u \in Task : (Running1(u)' <=> Running1(u)) BY <1>4 DEF Running1
<1>7. \A u \in Task : Held(u)' <=> Held(u) BY <1>3, <1>6 DEF Held
<1>8. ASSUME NEW u \in Task PROVE Flight(u)' = Flight(u)
  <2>1. Graph(u)' = Graph(u) /\ Graph(u) \subseteq Task BY <1>1, <1>2 DEF Graph
  <2>2. \A c \in Graph(u) : Held(c)' <=> Held(c) BY <1>7, <2>1
  <2> QED BY <2>1, <2>2 DEF Flight
<1>9. \A u \in Present : Held(u) => Ancestors(u)' = Ancestors(u)
  <2>1. \A u \in Present : Held(u) => node'[u].parent = node[u].parent BY <1>1, <1>2
  <2> QED BY <2>1, AncestorsHeld
<1>10. Single' BY <1>0, <1>4 DEF Placed, Single
<1>11. Stacked'
  <2>1. \A s \in Slots : At(s).node \in Task BY <1>0, SlotFrames
  <2>2. ASSUME NEW s \in Slots, s # TopSlot(s[1]) PROVE Above(s) \in Slots BY <1>0, <2>2, AboveBelow
  <2>3. Stacked BY <1>0 DEF Placed
  <2> QED BY <1>2, <1>4, <1>5, <2>1, <2>2, <2>3 DEF Stacked
<1>12. Forest'
  <2>1. Preempted(t)' => Preempted(t) OBVIOUS
  <2> QED BY <2>1, ForestKept
<1>13. ASSUME NEW s \in Slots' PROVE Says(s)'
  <2>1. s \in Slots /\ At(s)' = At(s) BY <1>4
  <2>2. PICK u : u = At(s).node OBVIOUS
  <2>3. u \in Present /\ Held(u) /\ scheduled[u] = 0 /\ u \in Task BY <1>1, <2>1, <2>2, HeldFacts
  <2>4. ASSUME At(s).pc = "count" PROVE Preempted(At(s).at)' <=> Preempted(At(s).at)
    <3>1. Says(s) BY <1>0, <2>1 DEF Placed
    <3>2. At(s).at = node[u].parent /\ node[u].parent # NoTask BY <2>2, <2>4, <3>1 DEF Says
    <3>3. At(s).at \in Task BY <1>1, <2>3, <3>2, HeldFacts
    <3> QED BY <1>3, <2>1, <3>3
  <2>5. Ancestors(u)' = Ancestors(u) /\ (Preempted(u)' <=> Preempted(u))
        /\ node'[u].kind = node[u].kind /\ node'[u].parent = node[u].parent
    BY <1>2, <1>3, <1>9, <2>3
  <2> QED BY <2>1, <2>2, <2>3, <2>4, <2>5, SaysKept
<1>14. ASSUME NEW u \in Present', scheduled'[u] # 0 PROVE Queued(u)'
  <2>1. u \in Present /\ u \in Task /\ scheduled[u] # 0 BY <1>1, <1>14
  <2>2. Queued(u) BY <1>0, <2>1 DEF Placed
  <2> QED BY <1>3, <1>6, <2>1, <2>2 DEF Queued
<1>15. ASSUME NEW u \in Present' PROVE node'[u].join = Cardinality(Flight(u)')
  <2>1. u \in Present /\ u \in Task BY <1>1
  <2>2. node[u].join = Cardinality(Flight(u)) BY <1>0, <2>1 DEF Placed
  <2> QED BY <1>8, <2>1, <2>2
<1>16. ASSUME NEW u \in Present', Flight(u)' # {} PROVE Awaits(u)'
  <2>1. u \in Present /\ u \in Task /\ Flight(u) # {} BY <1>1, <1>8, <1>16
  <2>2. Awaits(u) BY <1>0, <2>1 DEF Placed
  <2> QED BY <1>3, <1>4, <1>6, <2>1, <2>2 DEF Awaits
<1> QED BY <1>10, <1>11, <1>12, <1>13, <1>14, <1>15, <1>16 DEF Placed

\* Cancellation changes the topology alone.
LEMMA CancelPlaced == ASSUME IInv, Cancel PROVE IInv'
<1>1. UNCHANGED <<node, scheduled, stack, round, threw, reported>>
      /\ topology' = [topology EXCEPT !.estate = @ \cup {"CANCELLED"}] BY DEF Cancel
<1>2. Root \in Task BY TaskFacts
<1>3. /\ Shape(Root, {}) /\ Gone({}) /\ (\A u \in Task : node'[u].join = node[u].join)
      /\ (Preempted(Root)' <=> Preempted(Root)) BY <1>1, NoNode
<1>4. Placed' BY <1>1, <1>2, <1>3, StillPlaced
<1>5. topology' \in [estate : SUBSET Flags, eptr : BOOLEAN]
  <2>1. topology \in [estate : SUBSET Flags, eptr : BOOLEAN] BY DEF IInv, Typed
  <2>2. topology.estate \cup {"CANCELLED"} \in SUBSET Flags BY <2>1 DEF Flags
  <2> QED BY <1>1, <2>1, <2>2
<1> QED BY <1>1, <1>4, <1>5 DEF IInv, Typed

\* A callable marks its own task.
LEMMA MarkPlaced ==
    ASSUME IInv, NEW w \in Worker, Running(w, "work"), NEW t, t = Top(w).node, NEW r \in NodeType,
           r.kind = node[t].kind, r.parent = node[t].parent, r.join = node[t].join,
           "PREEMPTED" \in r.nstate <=> "PREEMPTED" \in node[t].nstate,
           node' = [node EXCEPT ![t] = r],
           UNCHANGED <<topology, scheduled, stack, round, threw, reported>>
    PROVE  IInv'
<1>1. t \in Task /\ t \in Present BY RunningFacts DEF Running, Invocation
<1>2. /\ Shape(t, {}) /\ Gone({}) /\ node' \in [Task -> NodeType]
      /\ \A u \in Task : node'[u].join = node[u].join
      /\ node'[t] = r BY <1>1, OneNode
<1>3. Preempted(t)' <=> Preempted(t) BY <1>2 DEF Preempted
<1>4. Placed' BY <1>1, <1>2, <1>3, StillPlaced
<1> QED BY <1>2, <1>4 DEF IInv, Typed

\* A subflow that is marked as joined or retained.
LEMMA MarkedNode ==
    ASSUME NEW n \in NodeType, NEW m \in {"JOINED", "RETAIN"}, NEW r, r = [n EXCEPT !.nstate = @ \cup {m}]
    PROVE  /\ r \in NodeType /\ r.kind = n.kind /\ r.parent = n.parent /\ r.join = n.join
           /\ "PREEMPTED" \in r.nstate <=> "PREEMPTED" \in n.nstate
<1>1. n.nstate \cup {m} \in SUBSET Marks BY DEF NodeType, Marks
<1>2. r \in NodeType /\ r.kind = n.kind /\ r.parent = n.parent /\ r.join = n.join
      /\ r.nstate = n.nstate \cup {m} BY <1>1 DEF NodeType
<1> QED BY <1>2

\* The subflow is to be retained.
LEMMA RetainPlaced == ASSUME IInv, NEW w \in Worker, Retain(w) PROVE IInv'
<1>1. PICK t : t = Top(w).node OBVIOUS
<1>2. PICK r : r = [node[t] EXCEPT !.nstate = @ \cup {"RETAIN"}] OBVIOUS
<1>3. /\ Running(w, "work") /\ node' = [node EXCEPT ![t] = r]
      /\ UNCHANGED <<topology, scheduled, stack, round, threw, reported>> BY <1>1, <1>2 DEF Retain
<1>4. node[t] \in NodeType BY <1>1, <1>3, RunningFacts DEF Running, Invocation
<1>5. /\ r \in NodeType /\ r.kind = node[t].kind /\ r.parent = node[t].parent /\ r.join = node[t].join
      /\ "PREEMPTED" \in r.nstate <=> "PREEMPTED" \in node[t].nstate BY <1>2, <1>4, MarkedNode
<1> QED BY <1>1, <1>3, <1>5, MarkPlaced

\* An empty graph is joined at once.
LEMMA JoinEmptyPlaced == ASSUME IInv, NEW w \in Worker, JoinEmpty(w) PROVE IInv'
<1>1. PICK t : t = Top(w).node OBVIOUS
<1>2. PICK r : r = [node[t] EXCEPT !.nstate = @ \cup {"JOINED"}] OBVIOUS
<1>3. /\ Running(w, "work") /\ node' = [node EXCEPT ![t] = r]
      /\ UNCHANGED <<topology, scheduled, stack, round, threw, reported>>
  BY <1>1, <1>2 DEF JoinEmpty
<1>4. node[t] \in NodeType BY <1>1, <1>3, RunningFacts DEF Running, Invocation
<1>5. /\ r \in NodeType /\ r.kind = node[t].kind /\ r.parent = node[t].parent /\ r.join = node[t].join
      /\ "PREEMPTED" \in r.nstate <=> "PREEMPTED" \in node[t].nstate BY <1>2, <1>4, MarkedNode
<1> QED BY <1>1, <1>3, <1>5, MarkPlaced


-----------------------------------------------------------------------------
(* Invocations begin and end *)

LEMMA TakePlaced == ASSUME IInv, NEW w \in Worker, NEW t \in Task, Take(w, t) PROVE IInv'
<1>0. Typed /\ Placed BY DEF IInv
<1>1. PICK f : f = Enter(t) OBVIOUS
<1>2. /\ stack[w] # <<>> => Top(w).pc = "join"
      /\ scheduled[t] > 0 /\ scheduled' = [scheduled EXCEPT ![t] = @ - 1]
      /\ Push(w, f) /\ UNCHANGED <<node, topology, round, threw, reported>>
  BY <1>1 DEF Take, Running
<1>3. t \in Present /\ Held(t) /\ Queued(t) /\ Flight(t) = {}
  <2>1. scheduled[t] # 0 BY <1>2
  <2> QED BY <2>1, HeldFacts
<1>4. scheduled' \in [Task -> Nat] /\ scheduled'[t] = 0 /\ \A u \in Task \ {t} : scheduled'[u] = scheduled[u]
  <2>1. scheduled \in [Task -> Nat] /\ scheduled[t] = 1 BY <1>0, <1>3 DEF Typed, Queued
  <2> QED BY <1>2, <2>1
<1>5. f \in FrameType /\ f.node = t /\ f.pc = "begin" /\ f.at = NoTask
  BY <1>1 DEF Enter, FrameType, Places, Nodes
<1>6. Pushed(w, f) /\ stack' \in [Worker -> Seq(FrameType)] BY <1>0, <1>2, <1>5, PushSlots
<1>7. PICK k : k = NewSlot(w) OBVIOUS
<1>8. /\ k \notin Slots /\ Slots' = Slots \cup {k} /\ At(k)' = f
      /\ \A u \in Slots : At(u)' = At(u) BY <1>6, <1>7 DEF Pushed
<1>9. node[t].kind # "anchor"
  <2>1. scheduled[t] # 0 BY <1>2
  <2> QED BY <1>0, <1>3, <2>1 DEF Placed, Forest
<1>10. /\ Shape(t, {}) /\ Gone({}) /\ node' \in [Task -> NodeType] BY <1>2, NoNode
<1>11. Present' = Present /\ Free' = Free /\ Present \subseteq Task BY <1>2 DEF Present, Free
<1>12. \A u : Preempted(u)' <=> Preempted(u) BY <1>2 DEF Preempted
<1>13. \A u \in Task : Running1(u)' <=> Running1(u) \/ u = t BY <1>5, <1>8 DEF Running1
<1>14. ASSUME NEW u \in Task PROVE Held(u)' <=> Held(u) BY <1>3, <1>4, <1>12, <1>13 DEF Held
<1>15. ASSUME NEW u \in Task PROVE Flight(u)' = Flight(u)
  <2>1. Graph(u)' = Graph(u) /\ Graph(u) \subseteq Task BY <1>2, <1>11 DEF Graph
  <2> QED BY <1>14, <2>1 DEF Flight
<1>16. \A u \in Present : Held(u) => Ancestors(u)' = Ancestors(u) BY <1>2, AncestorsHeld
<1>17. ~ Running1(t) BY <1>3 DEF Queued
<1>18. Single'
  <2>1. \A s \in Slots : At(s).node # t BY <1>17 DEF Running1
  <2> QED BY <1>0, <1>5, <1>8, <2>1 DEF Placed, Single
<1>19. Stacked'
  <2>1. node'[f.node].kind # "anchor" BY <1>2, <1>5, <1>9
  <2>2. \A s \in Slots : node'[At(s).node].kind = node[At(s).node].kind BY <1>2
  <2> QED BY <1>2, <1>6, <2>1, <2>2, StackedPushed
<1>20. Forest'
  <2>1. Preempted(t)' => Preempted(t) BY <1>12
  <2>2. \A u \in Task : scheduled'[u] # 0 => scheduled[u] # 0 BY <1>4
  <2> QED BY <1>10, <2>1, <2>2, ForestKept
<1>21. ASSUME NEW s \in Slots' PROVE Says(s)'
  <2>1. CASE s = k
    <3>1. ~Preempted(t)' BY <1>3, <1>12 DEF Queued
    <3> QED BY <1>2, <1>3, <1>4, <1>5, <1>8, <1>9, <1>11, <2>1, <3>1 DEF Says
  <2>2. CASE s # k
    <3>1. s \in Slots /\ At(s)' = At(s) BY <1>8, <2>2
    <3>2. PICK u : u = At(s).node OBVIOUS
    <3>3. u \in Present /\ Held(u) /\ scheduled[u] = 0 /\ u \in Task BY <1>11, <3>1, <3>2, HeldFacts
    <3>4. scheduled'[u] = 0 BY <1>4, <3>3
    <3> QED BY <1>2, <1>12, <1>16, <3>1, <3>2, <3>3, <3>4, SaysKept
  <2> QED BY <2>1, <2>2
<1>22. ASSUME NEW u \in Present', scheduled'[u] # 0 PROVE Queued(u)'
  <2>1. u \in Task /\ u # t /\ scheduled'[u] = scheduled[u] BY <1>4, <1>11, <1>22
  <2>2. Queued(u) BY <1>22, <2>1, HeldFacts
  <2> QED BY <1>12, <1>13, <2>1, <2>2 DEF Queued
<1>23. ASSUME NEW u \in Present' PROVE node'[u].join = Cardinality(Flight(u)')
  BY <1>0, <1>2, <1>11, <1>15 DEF Placed
<1>24. ASSUME NEW u \in Present', Flight(u)' # {} PROVE Awaits(u)'
  <2>1. u \in Present /\ u \in Task /\ Flight(u) # {} BY <1>11, <1>15, <1>24
  <2>2. Awaits(u) /\ u # t BY <1>0, <1>3, <2>1 DEF Placed
  <2> QED BY <1>8, <1>12, <1>13, <2>1, <2>2 DEF Awaits
<1>25. Placed' BY <1>18, <1>19, <1>20, <1>21, <1>22, <1>23, <1>24 DEF Placed
<1> QED BY <1>2, <1>4, <1>6, <1>10, <1>25 DEF IInv, Typed

\* An invocation of t ends, and the tasks A are scheduled.
Ended(t, A) ==
    /\ Single' /\ Stacked' /\ Forest' /\ (\A s \in Slots' : Says(s)')
    /\ \A u \in Present' : scheduled'[u] # 0 => Queued(u)'
    /\ Present' = Present /\ stack' \in [Worker -> Seq(FrameType)]
    /\ \A u \in Task : Held(u)' <=> \/ u # t /\ Held(u)
                                    \/ u \in A
                                    \/ u = t /\ Preempted(t)'
    /\ \A u \in Task \ {t} : Awaits(u) => Awaits(u)'
    /\ ~Running1(t)'

\* What an invocation that ends leaves of the invariant.
LEMMA PopParts ==
    ASSUME IInv, NEW w \in Worker, NEW x, Running(w, x), x # "join", Pop(w), NEW t, t = Top(w).node,
           Shape(t, {}), Gone({}), Preempted(t)' => node[t].kind # "anchor",
           NEW A \in SUBSET Present,
           \A u \in Task : scheduled'[u] = scheduled[u] + (IF u \in A THEN 1 ELSE 0),
           \A u \in A : node[u].kind # "anchor" /\ ~Preempted(u)' /\ (u = t \/ ~Held(u))
    PROVE  Ended(t, A)
<1>0. Typed /\ Placed BY DEF IInv
<1>1. /\ stack[w] # <<>> /\ TopSlot(w) \in Slots /\ At(TopSlot(w)) = Top(w)
      /\ t \in Task /\ t \in Present /\ Held(t) /\ scheduled[t] = 0 /\ Flight(t) = {}
      /\ Top(w).pc = x BY RunningFacts DEF Running, Invocation
<1>2. Popped(w) /\ stack' \in [Worker -> Seq(FrameType)] BY <1>0, <1>1, PopSlots
<1>3. PICK top : top = TopSlot(w) OBVIOUS
<1>4. /\ Slots' = Slots \ {top} /\ top \in Slots /\ At(top) = Top(w) /\ At(top).node = t /\ At(top).pc # "join"
      /\ \A u \in Slots' : At(u)' = At(u) BY <1>1, <1>2, <1>3 DEF Popped
<1>5. \A s \in Slots : At(s).node = t => s = top BY <1>0, <1>4 DEF Placed, Single
<1>6. \A u \in Task : Running1(u)' <=> Running1(u) /\ u # t BY <1>4, <1>5 DEF Running1
<1>7. Present' = Present /\ Free' = Free /\ Present \subseteq Task
  <2>1. Present' = Present \ {} /\ Free' = Free \cup {} /\ Present \subseteq Task BY ShapePresent
  <2> QED BY <2>1
<1>8. \A u \in Task : node'[u].kind = node[u].kind /\ node'[u].parent = node[u].parent BY DEF Shape
<1>9. \A u \in Task \ {t} : Preempted(u)' <=> Preempted(u) BY DEF Shape
<1>10. \A u \in Task : scheduled[u] \in Nat BY <1>0 DEF Typed
<1>11. ASSUME NEW u \in Task
       PROVE  Held(u)' <=> \/ u # t /\ Held(u)
                           \/ u \in A
                           \/ u = t /\ Preempted(t)'
  <2>1. scheduled'[u] > 0 <=> scheduled[u] > 0 \/ u \in A BY <1>10
  <2> QED BY <1>1, <1>6, <1>9, <2>1 DEF Held
<1>12. \A u \in Present : Held(u) => Ancestors(u)' = Ancestors(u) BY <1>7, <1>8, AncestorsHeld
<1>13. Single' BY <1>0, <1>4 DEF Placed, Single
<1>14. \A s \in Slots : node'[At(s).node].kind = node[At(s).node].kind BY <1>0, <1>8, SlotFrames
<1>15. Stacked' BY <1>1, <1>2, <1>14, StackedPopped
<1>16. Forest'
  <2>1. Preempted(t)' => t \in Present \ {} /\ node[t].kind # "anchor" BY <1>1
  <2>2. \A u \in Task : scheduled'[u] # 0 => scheduled[u] # 0 \/ (u \in Present /\ node[u].kind # "anchor")
    BY <1>10
  <2> QED BY <1>1, <2>1, <2>2, ForestKept
<1>17. ASSUME NEW s \in Slots' PROVE Says(s)'
  <2>1. s \in Slots /\ At(s)' = At(s) /\ s # top BY <1>4
  <2>2. PICK u : u = At(s).node OBVIOUS
  <2>3. u \in Present /\ Held(u) /\ scheduled[u] = 0 /\ u \in Task BY <1>7, <2>1, <2>2, HeldFacts
  <2>4. u # t BY <1>5, <2>1, <2>2
  <2>5. scheduled'[u] = 0 BY <2>3, <2>4
  <2>6. ASSUME At(s).pc = "count" PROVE Preempted(At(s).at)' <=> Preempted(At(s).at)
    <3>1. Says(s) BY <1>0, <2>1 DEF Placed
    <3>2. At(s).at = node[u].parent /\ node[u].parent # NoTask BY <2>2, <2>6, <3>1 DEF Says
    <3>3. At(s).at \in Task /\ u \in Flight(At(s).at) BY <1>7, <2>3, <3>2, HeldFacts
    <3>4. At(s).at # t BY <1>1, <3>3
    <3> QED BY <1>9, <2>1, <3>3, <3>4
  <2>7. /\ node'[u].kind = node[u].kind /\ node'[u].parent = node[u].parent
        /\ Preempted(u)' <=> Preempted(u)
        /\ Ancestors(u)' = Ancestors(u) BY <1>8, <1>9, <1>12, <2>3, <2>4
  <2> QED BY <2>1, <2>2, <2>3, <2>5, <2>6, <2>7, SaysKept
<1>18. ASSUME NEW u \in Present', scheduled'[u] # 0 PROVE Queued(u)'
  <2>1. u \in Task BY <1>7
  <2>2. CASE u \in A
    <3>1. scheduled[u] = 0 BY <1>1, <1>10, <2>1, <2>2 DEF Held
    <3>2. ~Running1(u)' BY <1>6, <2>1, <2>2 DEF Held
    <3> QED BY <2>1, <2>2, <3>1, <3>2 DEF Queued
  <2>3. CASE u \notin A
    <3>1. scheduled'[u] = scheduled[u] BY <1>10, <2>1, <2>3
    <3>2. Queued(u) /\ u # t BY <1>1, <1>18, <2>1, <3>1, HeldFacts
    <3> QED BY <1>6, <1>9, <2>1, <3>1, <3>2 DEF Queued
  <2> QED BY <2>2, <2>3
<1>19. ASSUME NEW u \in Task \ {t}, Awaits(u) PROVE Awaits(u)' BY <1>4, <1>6, <1>9, <1>19 DEF Awaits
<1> QED BY <1>1, <1>2, <1>6, <1>7, <1>11, <1>13, <1>15, <1>16, <1>17, <1>18, <1>19 DEF Ended


\* The run ends with the root: nothing else is in hand.
LEMMA FinishPlaced == ASSUME IInv, NEW w \in Worker, Finish(w) PROVE IInv'
<1>0. Typed /\ Placed BY DEF IInv
<1>1. PICK t : t = Top(w).node OBVIOUS
<1>2. /\ Running(w, "finish") /\ "finish" # "join" /\ t = Root /\ Pop(w)
      /\ UNCHANGED <<node, topology, scheduled, threw>>
      /\ round' = 0 /\ reported' = (reported \/ topology.eptr) BY <1>1 DEF Finish
<1>3. t \in Task /\ t \in Present /\ Flight(t) = {} /\ ~Preempted(t)
  <2>1. Running(w, "finish") BY <1>2
  <2> QED BY <1>1, <2>1, RunningFacts DEF Running, Invocation
<1>4. /\ Shape(t, {}) /\ Gone({}) /\ node' \in [Task -> NodeType]
      /\ \A u \in Task : node'[u].join = node[u].join
      /\ ~Preempted(t)' BY <1>2, <1>3, NoNode
<1>5. \A u \in Task : scheduled'[u] = scheduled[u] + (IF u \in {} THEN 1 ELSE 0)
  BY <1>0, <1>2 DEF Typed
<1>6. /\ Single' /\ Stacked' /\ Forest' /\ (\A s \in Slots' : Says(s)')
      /\ \A u \in Present' : scheduled'[u] # 0 => Queued(u)'
      /\ Present' = Present /\ stack' \in [Worker -> Seq(FrameType)]
      /\ \A u \in Task : Held(u)' <=> \/ u # t /\ Held(u)
                                      \/ u \in {}
                                      \/ u = t /\ Preempted(t)'
      /\ \A u \in Task \ {t} : Awaits(u) => Awaits(u)'
  <2>1. {} \in SUBSET Present /\ \A u \in {} : node[u].kind # "anchor" /\ ~Preempted(u)' /\ (u = t \/ ~Held(u))
    OBVIOUS
  <2>2. Ended(t, {}) BY <1>1, <1>2, <1>4, <1>5, <2>1, PopParts
  <2> QED BY <2>2 DEF Ended
<1>7. ASSUME NEW u \in Present PROVE Flight(u)' = Flight(u)
  <2>1. Graph(u)' = Graph(u) /\ Graph(u) \subseteq Task BY <1>2, <1>6 DEF Graph, Present
  <2>2. t \notin Graph(u)
    <3>1. node[t].parent = NoTask BY <1>0, <1>2 DEF Placed, Forest
    <3> QED BY <3>1, TaskFacts DEF Graph, Present
  <2> QED BY <1>4, <1>6, <2>1, <2>2 DEF Flight
<1>8. ASSUME NEW u \in Present' PROVE node'[u].join = Cardinality(Flight(u)')
  BY <1>0, <1>2, <1>6, <1>7 DEF Placed
<1>9. ASSUME NEW u \in Present', Flight(u)' # {} PROVE Awaits(u)'
  <2>1. u \in Present /\ u \in Task /\ Flight(u) # {} BY <1>6, <1>7, <1>9 DEF Present
  <2>2. Awaits(u) /\ u # t BY <1>0, <1>3, <2>1 DEF Placed
  <2> QED BY <1>6, <2>1, <2>2
<1>10. Placed' BY <1>6, <1>8, <1>9 DEF Placed
<1>11. reported' \in BOOLEAN /\ round' \in Nat BY <1>2
<1> QED BY <1>2, <1>0, <1>4, <1>6, <1>10, <1>11 DEF IInv, Typed

\* The root is set up again, with a graph in which nothing is in hand.
LEMMA RepeatPlaced == ASSUME IInv, NEW w \in Worker, Repeat(w) PROVE IInv'
<1>0. Typed /\ Placed BY DEF IInv
<1>1. PICK t : t = Top(w).node OBVIOUS
<1>2. PICK r1 : r1 = [node[t] EXCEPT !.nstate = {}, !.estate = {}, !.eptr = FALSE, !.join = 0, !.ran = 0] OBVIOUS
<1>3. PICK r2 : r2 = [node[t] EXCEPT !.ran = 0] OBVIOUS
<1>4. /\ Running(w, "finish") /\ "finish" # "join" /\ t = Root /\ Pop(w)
      /\ UNCHANGED <<topology, threw, reported>>
      /\ round' = round + 1 /\ ScheduleAll({t})
      /\ \/ node' = [SetUp(node, NoTask, {t}) EXCEPT ![t].ran = 0]
         \/ node' = [node EXCEPT ![t].ran = 0] BY <1>1 DEF Repeat
<1>5. /\ t \in Task /\ t \in Present /\ Flight(t) = {} /\ ~Preempted(t) /\ scheduled[t] = 0
      /\ node[t] \in NodeType /\ node[t].kind # "anchor"
  <2>1. Running(w, "finish") BY <1>4
  <2> QED BY <1>1, <2>1, RunningFacts DEF Running, Invocation
<1>6. node[t].join = 0
  <2>1. node[t].join = Cardinality(Flight(t)) BY <1>0, <1>5 DEF Placed
  <2> QED BY <1>5, <2>1, FS_EmptySet
<1>7. PICK r \in {r1, r2} : node' = [node EXCEPT ![t] = r]
  <2>1. node \in [Task -> NodeType] BY <1>0 DEF Typed
  <2>2. CASE node' = [node EXCEPT ![t].ran = 0] BY <1>3, <2>2
  <2>3. CASE node' = [SetUp(node, NoTask, {t}) EXCEPT ![t].ran = 0]
    <3>1. PICK m : m = SetUp(node, NoTask, {t}) OBVIOUS
    <3>2. PICK q : q = [node[t] EXCEPT !.nstate = {}, !.estate = {}, !.eptr = FALSE, !.join = 0] OBVIOUS
    <3>3. m = [s \in Task |-> IF s = t THEN q ELSE node[s]] BY <3>1, <3>2, TaskFacts DEF SetUp
    <3>4. node' = [m EXCEPT ![t].ran = 0] BY <2>3, <3>1
    <3>5. node' = [s \in Task |-> IF s = t THEN [q EXCEPT !.ran = 0] ELSE node[s]] BY <1>5, <3>3, <3>4
    <3>6. [q EXCEPT !.ran = 0] = r1 BY <1>2, <1>5, <3>2 DEF NodeType
    <3>7. node' = [node EXCEPT ![t] = r1] BY <2>1, <3>5, <3>6
    <3> QED BY <3>7
  <2> QED BY <1>4, <2>2, <2>3
<1>8. /\ r \in NodeType /\ r.kind = node[t].kind /\ r.parent = node[t].parent /\ r.join = node[t].join
      /\ "PREEMPTED" \notin r.nstate
  <2>1. CASE r = r1 BY <1>2, <1>5, <1>6, <2>1 DEF NodeType
  <2>2. CASE r = r2 BY <1>3, <1>5, <2>2 DEF NodeType, Preempted
  <2> QED BY <1>7, <2>1, <2>2
<1>9. /\ Shape(t, {}) /\ Gone({}) /\ node' \in [Task -> NodeType]
      /\ \A u \in Task : node'[u].join = node[u].join
      /\ node'[t] = r BY <1>5, <1>7, <1>8, OneNode
<1>10. ~Preempted(t)' BY <1>8, <1>9 DEF Preempted
<1>11. \A u \in Task : scheduled'[u] = scheduled[u] + (IF u \in {t} THEN 1 ELSE 0)
  BY <1>4 DEF ScheduleAll
<1>12. /\ Single' /\ Stacked' /\ Forest' /\ (\A s \in Slots' : Says(s)')
       /\ \A u \in Present' : scheduled'[u] # 0 => Queued(u)'
       /\ Present' = Present /\ stack' \in [Worker -> Seq(FrameType)]
       /\ \A u \in Task : Held(u)' <=> \/ u # t /\ Held(u)
                                       \/ u \in {t}
                                       \/ u = t /\ Preempted(t)'
       /\ \A u \in Task \ {t} : Awaits(u) => Awaits(u)'
  <2>1. {t} \in SUBSET Present /\ \A u \in {t} : node[u].kind # "anchor" /\ ~Preempted(u)' /\ (u = t \/ ~Held(u))
    BY <1>5, <1>10
  <2>2. Ended(t, {t}) BY <1>1, <1>4, <1>9, <1>10, <1>11, <2>1, PopParts
  <2> QED BY <2>2 DEF Ended
<1>13. ASSUME NEW u \in Present PROVE Flight(u)' = Flight(u)
  <2>1. \A c \in Present : node'[c].parent = node[c].parent BY <1>9 DEF Shape, Present
  <2>2. Graph(u)' = Graph(u) /\ Graph(u) \subseteq Task BY <1>12, <2>1 DEF Graph, Present
  <2>3. t \notin Graph(u)
    <3>1. node[t].parent = NoTask BY <1>0, <1>4 DEF Placed, Forest
    <3> QED BY <3>1, TaskFacts DEF Graph, Present
  <2> QED BY <1>12, <2>2, <2>3 DEF Flight
<1>14. ASSUME NEW u \in Present' PROVE node'[u].join = Cardinality(Flight(u)')
  <2>1. u \in Task /\ u \in Present BY <1>12 DEF Present
  <2>2. node[u].join = Cardinality(Flight(u)) BY <1>0, <2>1 DEF Placed
  <2> QED BY <1>9, <1>13, <2>1, <2>2
<1>15. ASSUME NEW u \in Present', Flight(u)' # {} PROVE Awaits(u)'
  <2>1. u \in Present /\ u \in Task /\ Flight(u) # {} BY <1>12, <1>13, <1>15 DEF Present
  <2>2. Awaits(u) /\ u # t BY <1>0, <1>5, <2>1 DEF Placed
  <2> QED BY <1>12, <2>1, <2>2
<1>16. Placed' BY <1>12, <1>14, <1>15 DEF Placed
<1>17. round' \in Nat BY <1>0, <1>4 DEF Typed
<1>18. scheduled' \in [Task -> Nat] BY <1>0, <1>4 DEF Typed, ScheduleAll
<1> QED BY <1>0, <1>4, <1>9, <1>12, <1>16, <1>17, <1>18 DEF IInv, Typed


\* A task is counted off: nothing else of it is left.
LEMMA CountedOff ==
    ASSUME IInv, NEW t \in Present, NEW p \in Present, t \in Flight(p),
           NEW r, r = [node[p] EXCEPT !.join = @ - 1], node' = [node EXCEPT ![p] = r]
    PROVE  /\ Shape(t, {}) /\ Gone({}) /\ node' \in [Task -> NodeType]
           /\ Preempted(t)' <=> Preempted(t)
           /\ (Present' = Present /\ \A u \in Task : Held(u)' <=> Held(u) /\ u # t)
                => \A u \in Present : /\ Flight(u)' = Flight(u) \ {t}
                                      /\ node'[u].join = Cardinality(Flight(u)')
           /\ node[p].join = 1 => Flight(p) = {t}
<1>0. Typed /\ Placed BY DEF IInv
<1>1. p \in Task /\ node \in [Task -> NodeType] /\ node[p] \in NodeType BY <1>0 DEF Typed, Present
<1>2. node[p].join = Cardinality(Flight(p)) BY <1>0 DEF Placed
<1>3. IsFiniteSet(Flight(p)) BY GraphFinite
<1>4. Cardinality(Flight(p)) \in Nat /\ Cardinality(Flight(p)) # 0 BY <1>3, FS_CardinalityType, FS_EmptySet
<1>5. Cardinality(Flight(p) \ {t}) = Cardinality(Flight(p)) - 1 BY <1>3, FS_RemoveElement
<1>6. node[p].join - 1 \in Nat BY <1>2, <1>4
<1>7. r \in NodeType /\ r.kind = node[p].kind /\ r.parent = node[p].parent /\ r.nstate = node[p].nstate
      /\ r.join = node[p].join - 1 BY <1>1, <1>6 DEF NodeType
<1>8. node' \in [Task -> NodeType] /\ node'[p] = r /\ \A u \in Task \ {p} : node'[u] = node[u] BY <1>1, <1>7
<1>9. Gone({}) BY <1>0 DEF Gone, Closed, Placed, Forest, Present
<1>10. \A u \in Task : node'[u].kind = node[u].kind /\ node'[u].parent = node[u].parent BY <1>7, <1>8
<1>11. \A u \in Task : Preempted(u)' <=> Preempted(u) BY <1>7, <1>8 DEF Preempted
<1>12. \A u \in Free : node'[u] = node[u] BY <1>8 DEF Free
<1>13. Shape(t, {}) BY <1>10, <1>11, <1>12 DEF Shape
<1>14. ASSUME Present' = Present, \A u \in Task : Held(u)' <=> Held(u) /\ u # t, NEW u \in Present
       PROVE  Flight(u)' = Flight(u) \ {t} /\ node'[u].join = Cardinality(Flight(u)')
  <2>1. Graph(u)' = Graph(u) /\ Graph(u) \subseteq Task BY <1>10, <1>14 DEF Graph, Present
  <2>2. Flight(u)' = Flight(u) \ {t} BY <1>14, <2>1 DEF Flight
  <2>3. CASE u = p BY <1>2, <1>5, <1>7, <1>8, <2>2, <2>3
  <2>4. CASE u # p
    <3>1. t \notin Flight(u) BY <2>4 DEF Flight, Graph
    <3>2. Flight(u)' = Flight(u) BY <2>2, <3>1
    <3>3. node[u].join = Cardinality(Flight(u)) /\ u \in Task BY <1>0 DEF Placed, Present
    <3> QED BY <1>8, <2>2, <2>4, <3>2, <3>3
  <2> QED BY <2>2, <2>3, <2>4
<1>15. ASSUME node[p].join = 1 PROVE Flight(p) = {t}
  <2>1. Cardinality(Flight(p) \ {t}) = 0 BY <1>2, <1>5, <1>15
  <2>2. IsFiniteSet(Flight(p) \ {t}) BY <1>3, FS_RemoveElement
  <2>3. Flight(p) \ {t} = {} BY <2>1, <2>2, FS_EmptySet
  <2> QED BY <2>3
<1>16. t \in Task BY DEF Present
<1> QED BY <1>8, <1>9, <1>11, <1>13, <1>14, <1>15, <1>16

\* The counter of the parent goes down as the task leaves the executor's hands.
LEMMA CountParentPlaced == ASSUME IInv, NEW w \in Worker, CountParent(w) PROVE IInv'
<1>0. Typed /\ Placed BY DEF IInv
<1>1. PICK t : t = Top(w).node OBVIOUS
<1>2. PICK p : p = Top(w).at OBVIOUS
<1>3. PICK r : r = [node[p] EXCEPT !.join = @ - 1] OBVIOUS
<1>4. PICK f : f = Enter(p) OBVIOUS
<1>5. /\ Running(w, "count") /\ node' = [node EXCEPT ![p] = r]
      /\ IF node[p].join = 1 /\ Top(w).again THEN Become(w, f) ELSE Pop(w)
      /\ UNCHANGED <<topology, scheduled, round, threw, reported>>
  BY <1>2, <1>3, <1>4 DEF CountParent
<1>6. /\ t \in Task /\ t \in Present /\ Held(t) /\ scheduled[t] = 0 /\ Flight(t) = {} /\ ~Preempted(t)
      /\ node[t].kind # "anchor" /\ p = node[t].parent /\ p # NoTask /\ (Top(w).again <=> Preempted(p))
      /\ stack[w] # <<>> /\ TopSlot(w) \in Slots /\ At(TopSlot(w)) = Top(w) /\ Top(w).pc = "count"
  BY <1>1, <1>2, <1>5, RunningFacts DEF Running, Invocation, Names
<1>7. p \in Present /\ Held(p) /\ t \in Flight(p) /\ p \in Task BY <1>6, HeldFacts DEF Present
<1>8. p # t BY <1>6, <1>7
<1>9. PICK hyp : hyp = (Present' = Present /\ \A u \in Task : Held(u)' <=> Held(u) /\ u # t) OBVIOUS
<1>10. /\ Shape(t, {}) /\ Gone({}) /\ node' \in [Task -> NodeType]
       /\ Preempted(t)' <=> Preempted(t)
       /\ hyp => \A u \in Present : /\ Flight(u)' = Flight(u) \ {t}
                                    /\ node'[u].join = Cardinality(Flight(u)')
       /\ node[p].join = 1 => Flight(p) = {t} BY <1>3, <1>5, <1>6, <1>7, <1>9, CountedOff
<1>11. \A u \in Task : Preempted(u)' <=> Preempted(u) BY <1>10 DEF Shape
<1>12. ASSUME ~ (node[p].join = 1 /\ Top(w).again) PROVE Placed' /\ stack' \in [Worker -> Seq(FrameType)]
  <2>1. Pop(w) BY <1>5, <1>12
  <2>2. PICK A : A = {} OBVIOUS
  <2>3. /\ Single' /\ Stacked' /\ Forest' /\ (\A s \in Slots' : Says(s)')
        /\ \A u \in Present' : scheduled'[u] # 0 => Queued(u)'
        /\ Present' = Present /\ stack' \in [Worker -> Seq(FrameType)]
        /\ \A u \in Task : Held(u)' <=> \/ u # t /\ Held(u)
                                        \/ u \in A
                                        \/ u = t /\ Preempted(t)'
        /\ \A u \in Task \ {t} : Awaits(u) => Awaits(u)'
    <3>0. \A u \in Task : scheduled'[u] = scheduled[u] + (IF u \in A THEN 1 ELSE 0)
      BY <1>0, <1>5, <2>2 DEF Typed
    <3>1. A \in SUBSET Present /\ \A u \in A : node[u].kind # "anchor" /\ ~Preempted(u)' /\ (u = t \/ ~Held(u))
      BY <2>2
    <3>2. Running(w, "count") BY <1>5
    <3>3. Shape(t, {}) /\ Gone({}) /\ (Preempted(t)' => node[t].kind # "anchor") BY <1>6, <1>10
    <3>4. Ended(t, A) BY <1>1, <2>1, <3>0, <3>1, <3>2, <3>3, PopParts
    <3> QED BY <3>4 DEF Ended
  <2>4. hyp BY <1>6, <1>9, <1>10, <2>2, <2>3
  <2>5. \A u \in Present : Flight(u)' = Flight(u) \ {t} /\ node'[u].join = Cardinality(Flight(u)')
    BY <1>10, <2>4
  <2>6. ASSUME NEW u \in Present', Flight(u)' # {} PROVE Awaits(u)'
    <3>1. u \in Present /\ u \in Task /\ Flight(u) # {} BY <2>3, <2>5, <2>6 DEF Present
    <3>2. Awaits(u) /\ u # t BY <1>0, <1>6, <3>1 DEF Placed
    <3> QED BY <2>3, <3>1, <3>2
  <2>7. \A u \in Present' : node'[u].join = Cardinality(Flight(u)') BY <2>3, <2>5
  <2> QED BY <2>3, <2>6, <2>7 DEF Placed
<1>13. ASSUME node[p].join = 1, Top(w).again PROVE Placed' /\ stack' \in [Worker -> Seq(FrameType)]
  <2>1. Become(w, f) /\ Preempted(p) /\ Flight(p) = {t} BY <1>5, <1>6, <1>10, <1>13
  <2>2. f \in FrameType /\ f.node = p /\ f.pc = "begin" /\ f.at = NoTask
    BY <1>4, <1>7 DEF Enter, FrameType, Places, Nodes
  <2>3. Changed(w, f) /\ stack' \in [Worker -> Seq(FrameType)] BY <1>0, <1>6, <2>1, <2>2, BecomeSlots
  <2>4. PICK top : top = TopSlot(w) OBVIOUS
  <2>5. /\ Slots' = Slots /\ top \in Slots /\ At(top).node = t /\ At(top).pc = "count" /\ At(top)' = f
        /\ \A u \in Slots \ {top} : At(u)' = At(u) BY <1>1, <1>6, <2>3, <2>4 DEF Changed
  <2>6. ~Running1(p)
    <3>1. Awaits(p) BY <1>0, <1>7 DEF Placed
    <3>2. ASSUME NEW s \in Slots, At(s).node = p, At(s).pc = "join" PROVE FALSE
      <4>1. Says(s) BY <1>0 DEF Placed
      <4> QED BY <2>1, <3>2, <4>1 DEF Says
    <3> QED BY <3>1, <3>2 DEF Awaits
  <2>7. \A s \in Slots : At(s).node = t => s = top BY <1>0, <2>5 DEF Placed, Single
  <2>8. \A s \in Slots : At(s).node # p BY <2>6 DEF Running1
  <2>9. \A u \in Task : Running1(u)' <=> (Running1(u) /\ u # t) \/ u = p
    BY <2>2, <2>5, <2>7, <2>8 DEF Running1
  <2>10. \A u \in Task : Held(u)' <=> Held(u) /\ u # t
    BY <1>5, <1>6, <1>7, <1>8, <1>11, <2>9 DEF Held
  <2>11. Present' = Present /\ Free' = Free /\ Present \subseteq Task
    <3>1. Present' = Present \ {} /\ Free' = Free \cup {} /\ Present \subseteq Task BY <1>10, ShapePresent
    <3> QED BY <3>1
  <2>12. \A u \in Present : Flight(u)' = Flight(u) \ {t} /\ node'[u].join = Cardinality(Flight(u)')
    BY <1>9, <1>10, <2>10, <2>11
  <2>13. \A u \in Task : node'[u].kind = node[u].kind /\ node'[u].parent = node[u].parent BY <1>10 DEF Shape
  <2>14. \A u \in Present : Held(u) => Ancestors(u)' = Ancestors(u) BY <2>11, <2>13, AncestorsHeld
  <2>15. node[p].kind # "anchor" BY <1>0, <1>7, <2>1 DEF Placed, Forest
  <2>16. Single' BY <1>0, <2>2, <2>5, <2>8 DEF Placed, Single
  <2>17. Stacked'
    <3>1. \A s \in Slots : node'[At(s).node].kind = node[At(s).node].kind BY <1>0, <2>13, SlotFrames
    <3>2. node'[f.node].kind = "anchor" <=> node[Top(w).node].kind = "anchor"
      BY <1>1, <1>6, <1>7, <2>2, <2>13, <2>15
    <3> QED BY <1>6, <2>3, <3>1, <3>2, StackedChanged
  <2>18. Forest'
    <3>1. Preempted(t)' => Preempted(t) BY <1>10
    <3>2. \A u \in Task : scheduled'[u] # 0 => scheduled[u] # 0 BY <1>5
    <3> QED BY <1>6, <1>10, <3>1, <3>2, ForestKept
  <2>19. ASSUME NEW s \in Slots' PROVE Says(s)'
    <3>1. CASE s = top
      <4>1. scheduled[p] = 0
        <5>1. ASSUME scheduled[p] # 0 PROVE FALSE
          <6>1. Queued(p) BY <1>7, <5>1, HeldFacts
          <6> QED BY <2>1, <6>1 DEF Queued
        <5> QED BY <5>1
      <4>2. node'[p].kind # "anchor" /\ p \in Present' /\ scheduled'[p] = 0
        BY <1>5, <1>7, <2>11, <2>13, <2>15, <4>1
      <4> QED BY <2>2, <2>5, <3>1, <4>2 DEF Says
    <3>2. CASE s # top
      <4>1. s \in Slots /\ At(s)' = At(s) BY <2>5, <3>2
      <4>2. PICK u : u = At(s).node OBVIOUS
      <4>3. u \in Present /\ Held(u) /\ scheduled[u] = 0 /\ u \in Task BY <2>11, <4>1, <4>2, HeldFacts
      <4>4. scheduled'[u] = 0 BY <1>5, <4>3
      <4>5. ASSUME At(s).pc = "count" PROVE Preempted(At(s).at)' <=> Preempted(At(s).at)
        <5>1. Says(s) BY <1>0, <4>1 DEF Placed
        <5>2. At(s).at = node[u].parent /\ node[u].parent # NoTask BY <4>2, <4>5, <5>1 DEF Says
        <5>3. At(s).at \in Task BY <2>11, <4>3, <5>2, HeldFacts
        <5> QED BY <1>11, <4>1, <5>3
      <4> QED BY <1>11, <2>13, <2>14, <4>1, <4>2, <4>3, <4>4, <4>5, SaysKept
    <3> QED BY <3>1, <3>2
  <2>20. ASSUME NEW u \in Present', scheduled'[u] # 0 PROVE Queued(u)'
    <3>1. u \in Task /\ scheduled'[u] = scheduled[u] BY <1>5, <2>11
    <3>2. Queued(u) BY <2>20, <3>1, HeldFacts
    <3>3. u # p BY <2>1, <3>2 DEF Queued
    <3> QED BY <1>11, <2>9, <3>1, <3>2, <3>3 DEF Queued
  <2>21. ASSUME NEW u \in Present', Flight(u)' # {} PROVE Awaits(u)'
    <3>1. u \in Present /\ u \in Task /\ Flight(u) # {} /\ u # p BY <2>1, <2>11, <2>12, <2>21
    <3>2. Awaits(u) /\ u # t BY <1>0, <1>6, <3>1 DEF Placed
    <3>3. CASE Preempted(u) /\ ~Running1(u) BY <1>11, <2>9, <3>1, <3>3 DEF Awaits
    <3>4. ASSUME NEW s \in Slots, At(s).node = u, At(s).pc = "join" PROVE Awaits(u)'
      <4>1. s # top /\ s \in Slots' /\ At(s)' = At(s) BY <2>5, <3>4
      <4> QED BY <3>4, <4>1 DEF Awaits
    <3> QED BY <3>2, <3>3, <3>4 DEF Awaits
  <2>22. \A u \in Present' : node'[u].join = Cardinality(Flight(u)') BY <2>11, <2>12
  <2> QED BY <2>3, <2>16, <2>17, <2>18, <2>19, <2>20, <2>21, <2>22 DEF Placed
<1>14. Placed' /\ stack' \in [Worker -> Seq(FrameType)] BY <1>12, <1>13
<1> QED BY <1>0, <1>5, <1>10, <1>14 DEF IInv, Typed

-----------------------------------------------------------------------------
(* A graph is run *)

\* A task is set up, and the counter of its parent is.
Renewed(r) == [r EXCEPT !.nstate = {}, !.estate = {}, !.eptr = FALSE, !.join = 0]
Counting(r, k) == [r EXCEPT !.join = k]

\* Types when a graph is set up,
LEMMA SetUpType ==
    ASSUME NEW n, NEW p, NEW A, NEW X, \A u \in Task : SetUp(n, p, A)[u] \in X
    PROVE  SetUp(n, p, A) \in [Task -> X] BY DEF SetUp

\* The tasks A of the graph of t are set up, and t has become r.
SetUpDone(t, A, r) ==
    /\ Shape(t, {}) /\ Gone({}) /\ node' \in [Task -> NodeType]
    /\ node'[t] = Counting(r, Cardinality(A))
    /\ \A u \in Task \ (A \cup {t}) : node'[u] = node[u]
    /\ A \in SUBSET Present /\ t \notin A
    /\ \A c \in A : ~Held(c) /\ ~Preempted(c)' /\ node[c].kind # "anchor"
    /\ \A c \in A : node'[c] = Renewed(node[c])

\* which nodes there are,
LEMMA SetUpNodes ==
    ASSUME IInv, NEW t \in Present, Held(t), Flight(t) = {}, NEW A, A = Graph(t),
           NEW r \in NodeType, NEW n, n = [node EXCEPT ![t] = r],
           r.kind = node[t].kind, r.parent = node[t].parent, r.join = node[t].join,
           node' = SetUp(n, t, A)
    PROVE  SetUpDone(t, A, r)
<1>0. Typed /\ Placed BY DEF IInv
<1>1. node \in [Task -> NodeType] /\ t \in Task /\ Present \subseteq Task /\ node[t] \in NodeType
  BY <1>0 DEF Typed, Present
<1>2. A \subseteq Present /\ \A c \in A : node[c].parent = t BY DEF Graph
<1>3. \A c \in A : ~Held(c) BY <1>2 DEF Flight
<1>4. t \notin A BY <1>3
<1>5. IsFiniteSet(A) /\ Cardinality(A) \in Nat BY GraphFinite, FS_CardinalityType
<1>6. node[t].join = 0
  <2>1. node[t].join = Cardinality(Flight(t)) BY <1>0 DEF Placed
  <2> QED BY <2>1, FS_EmptySet
<1>7. PICK q : q = [r EXCEPT !.join = Cardinality(A)] OBVIOUS
<1>8. /\ q \in NodeType /\ q.kind = node[t].kind /\ q.parent = node[t].parent
      /\ q.join = Cardinality(A) BY <1>5, <1>7 DEF NodeType
<1>9. n \in [Task -> NodeType] /\ n[t] = r /\ \A u \in Task \ {t} : n[u] = node[u] BY <1>1
<1>10. node'[t] = q
  <2>1. [n[t] EXCEPT !.join = @ + Cardinality(A)] = q BY <1>5, <1>6, <1>7, <1>9 DEF NodeType
  <2> QED BY <1>1, <1>4, <2>1 DEF SetUp
<1>11. \A c \in A : node'[c] = [node[c] EXCEPT !.nstate = {}, !.estate = {}, !.eptr = FALSE, !.join = 0]
  BY <1>1, <1>2, <1>4, <1>9 DEF SetUp
<1>12. ASSUME NEW c \in A
       PROVE  /\ node'[c] \in NodeType /\ node'[c].kind = node[c].kind /\ node'[c].parent = node[c].parent
              /\ node'[c].join = 0 /\ node'[c].nstate = {}
  <2>1. node[c] \in NodeType BY <1>1, <1>2
  <2>2. node'[c] = [node[c] EXCEPT !.nstate = {}, !.estate = {}, !.eptr = FALSE, !.join = 0] BY <1>11
  <2>3. {} \in SUBSET Marks /\ {} \in SUBSET Flags /\ 0 \in Nat OBVIOUS
  <2> QED BY <2>1, <2>2, <2>3 DEF NodeType
<1>13. \A u \in Task \ (A \cup {t}) : node'[u] = node[u] BY <1>9 DEF SetUp
<1>14. node' \in [Task -> NodeType]
  <2>1. \A u \in Task : node'[u] \in NodeType BY <1>1, <1>8, <1>10, <1>12, <1>13
  <2> QED BY <2>1, SetUpType
<1>15. \A u \in Task : node'[u].kind = node[u].kind /\ node'[u].parent = node[u].parent
  BY <1>8, <1>10, <1>12, <1>13
<1>16. \A c \in A : ~Preempted(c) BY <1>3 DEF Held
<1>17. \A c \in A : ~Preempted(c)' BY <1>12 DEF Preempted
<1>18. \A u \in Task \ {t} : Preempted(u)' <=> Preempted(u) BY <1>13, <1>16, <1>17 DEF Preempted
<1>19. \A u \in Free : node'[u] = node[u] BY <1>2, <1>13 DEF Free
<1>20. Shape(t, {}) BY <1>15, <1>18, <1>19 DEF Shape
<1>21. Gone({}) BY <1>0 DEF Gone, Closed, Placed, Forest, Present
<1>22. ASSUME NEW c \in A PROVE node[c].kind # "anchor"
  <2>1. c \in Present /\ node[c].parent = t /\ t # NoTask BY <1>1, <1>2, TaskFacts
  <2> QED BY <1>0, <2>1 DEF Placed, Forest
<1>23. node'[t] = Counting(r, Cardinality(A)) BY <1>7, <1>10 DEF Counting
<1>24. \A c \in A : node'[c] = Renewed(node[c]) BY <1>11 DEF Renewed
<1> QED BY <1>2, <1>3, <1>4, <1>13, <1>14, <1>17, <1>20, <1>21, <1>22, <1>23, <1>24 DEF SetUpDone

\* and counters; the new counter is the number of tasks scheduled.
LEMMA SetUpCounts ==
    ASSUME IInv, NEW t \in Present, Held(t), Flight(t) = {}, NEW A, A = Graph(t),
           NEW r \in NodeType, NEW n, n = [node EXCEPT ![t] = r],
           r.kind = node[t].kind, r.parent = node[t].parent, r.join = node[t].join,
           node' = SetUp(n, t, A),
           Present' = Present, \A u \in Task : Held(u)' <=> Held(u) \/ u \in A
    PROVE  \A u \in Present : /\ Flight(u)' = IF u = t THEN A ELSE Flight(u)
                              /\ node'[u].join = Cardinality(Flight(u)')
<1>0. Typed /\ Placed BY DEF IInv
<1>1. node \in [Task -> NodeType] /\ t \in Task /\ Present \subseteq Task /\ node[t] \in NodeType
  BY <1>0 DEF Typed, Present
<1>2. A \subseteq Present /\ \A c \in A : node[c].parent = t BY DEF Graph
<1>3. \A c \in A : ~Held(c) BY <1>2 DEF Flight
<1>4. /\ Shape(t, {}) /\ node'[t] = Counting(r, Cardinality(A))
      /\ \A u \in Task \ (A \cup {t}) : node'[u] = node[u]
      /\ \A c \in A : node'[c] = Renewed(node[c])
  <2>1. SetUpDone(t, A, r) BY SetUpNodes
  <2> QED BY <2>1 DEF SetUpDone
<1>5. node'[t].join = Cardinality(A) BY <1>4 DEF NodeType, Counting
<1>6. \A c \in A : node'[c].join = 0
  <2>1. ASSUME NEW c \in A PROVE node'[c].join = 0
    <3>1. node[c] \in NodeType BY <1>1, <1>2
    <3>2. node'[c] = Renewed(node[c]) BY <1>4
    <3> QED BY <3>1, <3>2 DEF NodeType, Renewed
  <2> QED BY <2>1
<1>7. \A u \in Task : node'[u].parent = node[u].parent BY <1>4 DEF Shape
<1>8. ASSUME NEW u \in Present
      PROVE  /\ Flight(u)' = IF u = t THEN A ELSE Flight(u)
             /\ node'[u].join = Cardinality(Flight(u)')
  <2>1. Graph(u)' = Graph(u) /\ Graph(u) \subseteq Task /\ u \in Task BY <1>1, <1>7 DEF Graph
  <2>2. node[u].join = Cardinality(Flight(u)) BY <1>0 DEF Placed
  <2>3. \A c \in Graph(u) : Held(c)' <=> Held(c) \/ c \in A BY <2>1
  <2>4. CASE u = t
    <3>1. Flight(u)' = A BY <2>1, <2>3, <2>4 DEF Flight
    <3> QED BY <1>5, <2>4, <3>1
  <2>5. CASE u # t
    <3>1. \A c \in Graph(u) : c \notin A BY <1>2, <2>5 DEF Graph
    <3>2. Flight(u)' = Flight(u) BY <2>1, <2>3, <3>1 DEF Flight
    <3>3. CASE u \in A
      <4>1. Flight(u) = {}
        <5>1. ASSUME NEW c \in Flight(u) PROVE FALSE
          <6>1. c \in Present /\ Held(c) /\ node[c].parent = u BY DEF Flight, Graph
          <6>2. Held(u) BY <2>1, <6>1, HeldFacts, TaskFacts
          <6> QED BY <1>3, <3>3, <6>2
        <5> QED BY <5>1
      <4> QED BY <1>6, <2>5, <3>2, <3>3, <4>1, FS_EmptySet
    <3>4. CASE u \notin A BY <1>4, <2>1, <2>2, <2>5, <3>2, <3>4
    <3> QED BY <2>5, <3>2, <3>3, <3>4
  <2> QED BY <2>4, <2>5
<1> QED BY <1>8

\* A subflow that was not joined is left, and its graph scheduled.
LEMMA PreemptPlaced == ASSUME IInv, NEW w \in Worker, Preempt(w) PROVE IInv'
<1>0. Typed /\ Placed BY DEF IInv
<1>1. PICK t : t = Top(w).node OBVIOUS
<1>2. PICK r : r = [node[t] EXCEPT !.nstate = @ \cup {"PREEMPTED"}] OBVIOUS
<1>3. PICK n : n = [node EXCEPT ![t] = r] OBVIOUS
<1>4. PICK A : A = Graph(t) OBVIOUS
<1>5. Running(w, "leave") /\ node[t].kind = "subflow" /\ Pop(w) BY <1>1 DEF Preempt
<1>6. /\ ScheduleAll(A) /\ UNCHANGED <<topology, round, threw, reported>>
      /\ node' = SetUp([node EXCEPT ![t].nstate = @ \cup {"PREEMPTED"}], t, A)
  BY <1>1, <1>4 DEF Preempt
<1>7. t \in Task /\ t \in Present /\ Held(t) /\ scheduled[t] = 0 /\ Flight(t) = {} /\ node[t] \in NodeType
  BY <1>1, <1>5, RunningFacts DEF Running, Invocation
<1>8. /\ r \in NodeType /\ r.kind = node[t].kind /\ r.parent = node[t].parent /\ r.join = node[t].join
      /\ "PREEMPTED" \in r.nstate
  <2>1. node[t].nstate \cup {"PREEMPTED"} \in SUBSET Marks BY <1>7 DEF NodeType, Marks
  <2> QED BY <1>2, <1>7, <2>1 DEF NodeType
<1>9. [node EXCEPT ![t].nstate = @ \cup {"PREEMPTED"}] = n
  <2>1. node \in [Task -> NodeType] BY <1>0 DEF Typed
  <2> QED BY <1>2, <1>3, <1>7, <2>1
<1>10. node' = SetUp(n, t, A) BY <1>6, <1>9
<1>12. /\ Shape(t, {}) /\ Gone({}) /\ node' \in [Task -> NodeType]
       /\ node'[t] = Counting(r, Cardinality(A))
       /\ A \in SUBSET Present /\ t \notin A
       /\ \A c \in A : ~Held(c) /\ ~Preempted(c)' /\ node[c].kind # "anchor"
  <2>1. SetUpDone(t, A, r) BY <1>3, <1>4, <1>7, <1>8, <1>10, SetUpNodes
  <2> QED BY <2>1 DEF SetUpDone
<1>13. Preempted(t)' BY <1>8, <1>12 DEF Preempted, NodeType, Counting
<1>14. \A u \in Task : scheduled'[u] = scheduled[u] + (IF u \in A THEN 1 ELSE 0) BY <1>6 DEF ScheduleAll
<1>15. /\ Single' /\ Stacked' /\ Forest' /\ (\A s \in Slots' : Says(s)')
       /\ \A u \in Present' : scheduled'[u] # 0 => Queued(u)'
       /\ Present' = Present /\ stack' \in [Worker -> Seq(FrameType)]
       /\ \A u \in Task : Held(u)' <=> \/ u # t /\ Held(u)
                                       \/ u \in A
                                       \/ u = t /\ Preempted(t)'
       /\ \A u \in Task \ {t} : Awaits(u) => Awaits(u)'
       /\ ~Running1(t)'
  <2>1. Running(w, "leave") /\ Pop(w) BY <1>5
  <2>2. Preempted(t)' => node[t].kind # "anchor" BY <1>5
  <2>3. Shape(t, {}) /\ Gone({}) /\ A \in SUBSET Present BY <1>12
  <2>4. \A u \in A : node[u].kind # "anchor" /\ ~Preempted(u)' /\ (u = t \/ ~Held(u)) BY <1>12
  <2>5. Ended(t, A) BY <1>1, <1>14, <2>1, <2>2, <2>3, <2>4, PopParts
  <2> QED BY <2>5 DEF Ended
<1>16. Present' = Present /\ \A u \in Task : Held(u)' <=> Held(u) \/ u \in A BY <1>7, <1>13, <1>15
<1>17. \A u \in Present : Flight(u)' = (IF u = t THEN A ELSE Flight(u)) /\ node'[u].join = Cardinality(Flight(u)')
  BY <1>3, <1>4, <1>7, <1>8, <1>10, <1>16, SetUpCounts
<1>18. ASSUME NEW u \in Present', Flight(u)' # {} PROVE Awaits(u)'
  <2>1. CASE u = t BY <1>13, <1>15, <2>1 DEF Awaits
  <2>2. CASE u # t
    <3>1. u \in Present /\ u \in Task /\ Flight(u) # {} BY <1>15, <1>17, <1>18, <2>2 DEF Present
    <3>2. Awaits(u) BY <1>0, <3>1 DEF Placed
    <3> QED BY <1>15, <2>2, <3>1, <3>2
  <2> QED BY <2>1, <2>2
<1>19. \A u \in Present' : node'[u].join = Cardinality(Flight(u)') BY <1>15, <1>17
<1>20. Placed' BY <1>15, <1>18, <1>19 DEF Placed
<1>21. scheduled' \in [Task -> Nat] BY <1>0, <1>6 DEF Typed, ScheduleAll
<1> QED BY <1>0, <1>6, <1>12, <1>15, <1>20, <1>21 DEF IInv, Typed

\* An invocation waits, and tasks are scheduled.
LEMMA JoinParts ==
    ASSUME IInv, NEW w \in Worker, Running(w, "work"), Goto(w, "join"), NEW t, t = Top(w).node,
           Shape(t, {}), Gone({}), ~Preempted(t)',
           NEW A \in SUBSET Present,
           \A u \in Task : scheduled'[u] = scheduled[u] + (IF u \in A THEN 1 ELSE 0),
           \A u \in A : node[u].kind # "anchor" /\ ~Preempted(u)' /\ ~Held(u)
    PROVE  /\ Single' /\ Stacked' /\ Forest' /\ (\A s \in Slots' : Says(s)')
           /\ \A u \in Present' : scheduled'[u] # 0 => Queued(u)'
           /\ Present' = Present /\ stack' \in [Worker -> Seq(FrameType)]
           /\ \A u \in Task : Held(u)' <=> Held(u) \/ u \in A
           /\ \A u \in Task \ {t} : Awaits(u) => Awaits(u)'
           /\ Awaits(t)'
<1>0. Typed /\ Placed BY DEF IInv
<1>1. /\ stack[w] # <<>> /\ TopSlot(w) \in Slots /\ At(TopSlot(w)) = Top(w) /\ Top(w) \in FrameType
      /\ t \in Task /\ t \in Present /\ Held(t) /\ scheduled[t] = 0 /\ Flight(t) = {} /\ ~Preempted(t)
      /\ Top(w).pc = "work" /\ Top(w).at \in Ancestors(t) \cup {NoTask}
      /\ node[t].kind # "anchor" BY RunningFacts DEF Running, Invocation, Names
<1>2. PICK f : f = [Top(w) EXCEPT !.pc = "join"] OBVIOUS
<1>3. f \in FrameType /\ f.node = t /\ f.pc = "join" /\ f.at = Top(w).at /\ Become(w, f)
  BY <1>1, <1>2 DEF FrameType, Places, Goto
<1>4. Changed(w, f) /\ stack' \in [Worker -> Seq(FrameType)] BY <1>0, <1>1, <1>3, BecomeSlots
<1>5. PICK top : top = TopSlot(w) OBVIOUS
<1>6. /\ Slots' = Slots /\ top \in Slots /\ At(top) = Top(w) /\ At(top).node = t /\ At(top)' = f
      /\ \A u \in Slots \ {top} : At(u)' = At(u) BY <1>1, <1>4, <1>5 DEF Changed
<1>7. \A s \in Slots : At(s).node = t => s = top BY <1>0, <1>6 DEF Placed, Single
<1>8. \A s \in Slots : At(s)'.node = At(s).node BY <1>3, <1>6
<1>9. \A u \in Task : Running1(u)' <=> Running1(u) BY <1>6, <1>8 DEF Running1
<1>10. Present' = Present /\ Free' = Free /\ Present \subseteq Task
  <2>1. Present' = Present \ {} /\ Free' = Free \cup {} /\ Present \subseteq Task BY ShapePresent
  <2> QED BY <2>1
<1>11. \A u \in Task : node'[u].kind = node[u].kind /\ node'[u].parent = node[u].parent BY DEF Shape
<1>12. \A u \in Task : Preempted(u)' <=> Preempted(u) BY <1>1 DEF Shape
<1>13. \A u \in Task : scheduled[u] \in Nat BY <1>0 DEF Typed
<1>14. ASSUME NEW u \in Task PROVE Held(u)' <=> Held(u) \/ u \in A
  <2>1. scheduled'[u] > 0 <=> scheduled[u] > 0 \/ u \in A BY <1>13
  <2> QED BY <1>9, <1>12, <2>1 DEF Held
<1>15. t \notin A BY <1>1
<1>16. \A u \in Present : Held(u) => Ancestors(u)' = Ancestors(u) BY <1>10, <1>11, AncestorsHeld
<1>17. Single' BY <1>0, <1>6, <1>8 DEF Placed, Single
<1>18. \A s \in Slots : node'[At(s).node].kind = node[At(s).node].kind BY <1>0, <1>11, SlotFrames
<1>19. Stacked'
  <2>1. node'[f.node].kind = "anchor" <=> node[Top(w).node].kind = "anchor" BY <1>1, <1>3, <1>11
  <2> QED BY <1>1, <1>4, <1>18, <2>1, StackedChanged
<1>20. Forest'
  <2>1. Preempted(t)' => Preempted(t) OBVIOUS
  <2>2. \A u \in Task : scheduled'[u] # 0 => scheduled[u] # 0 \/ (u \in Present /\ node[u].kind # "anchor")
    BY <1>13
  <2> QED BY <1>1, <2>1, <2>2, ForestKept
<1>21. ASSUME NEW s \in Slots' PROVE Says(s)'
  <2>1. CASE s = top
    <3>1. t \in Present' /\ scheduled'[t] = 0 /\ Ancestors(t)' = Ancestors(t) BY <1>1, <1>10, <1>15, <1>16
    <3> QED BY <1>1, <1>3, <1>6, <2>1, <3>1 DEF Says
  <2>2. CASE s # top
    <3>1. s \in Slots /\ At(s)' = At(s) BY <1>6, <2>2
    <3>2. PICK u : u = At(s).node OBVIOUS
    <3>3. u \in Present /\ Held(u) /\ scheduled[u] = 0 /\ u \in Task BY <1>10, <3>1, <3>2, HeldFacts
    <3>4. scheduled'[u] = 0 BY <3>3
    <3>5. ASSUME At(s).pc = "count" PROVE Preempted(At(s).at)' <=> Preempted(At(s).at)
      <4>1. Says(s) BY <1>0, <3>1 DEF Placed
      <4>2. At(s).at = node[u].parent /\ node[u].parent # NoTask BY <3>2, <3>5, <4>1 DEF Says
      <4>3. At(s).at \in Task BY <1>10, <3>3, <4>2, HeldFacts
      <4> QED BY <1>12, <3>1, <4>3
    <3> QED BY <1>11, <1>12, <1>16, <3>1, <3>2, <3>3, <3>4, <3>5, SaysKept
  <2> QED BY <2>1, <2>2
<1>22. ASSUME NEW u \in Present', scheduled'[u] # 0 PROVE Queued(u)'
  <2>1. u \in Task BY <1>10
  <2>2. CASE u \in A
    <3>1. scheduled[u] = 0 /\ ~Running1(u) BY <1>13, <2>1, <2>2 DEF Held
    <3> QED BY <1>9, <2>1, <2>2, <3>1 DEF Queued
  <2>3. CASE u \notin A
    <3>1. scheduled'[u] = scheduled[u] BY <1>13, <2>1, <2>3
    <3>2. Queued(u) BY <1>22, <2>1, <3>1, HeldFacts
    <3> QED BY <1>9, <1>12, <2>1, <3>1, <3>2 DEF Queued
  <2> QED BY <2>2, <2>3
<1>23. ASSUME NEW u \in Task \ {t}, Awaits(u) PROVE Awaits(u)'
  <2>1. CASE Preempted(u) /\ ~Running1(u) BY <1>9, <1>12, <2>1 DEF Awaits
  <2>2. ASSUME NEW s \in Slots, At(s).node = u, At(s).pc = "join" PROVE Awaits(u)'
    <3>1. s \in Slots' /\ At(s)' = At(s) BY <1>6, <2>2
    <3> QED BY <2>2, <3>1 DEF Awaits
  <2> QED BY <1>23, <2>1, <2>2 DEF Awaits
<1>24. Awaits(t)' BY <1>3, <1>6 DEF Awaits
<1> QED BY <1>4, <1>10, <1>14, <1>17, <1>19, <1>20, <1>21, <1>22, <1>23, <1>24

\* A join schedules the graph and waits on top of the stack.
LEMMA JoinPlaced == ASSUME IInv, NEW w \in Worker, Join(w) PROVE IInv'
<1>0. Typed /\ Placed BY DEF IInv
<1>1. PICK t : t = Top(w).node OBVIOUS
<1>2. PICK r : r = [node[t] EXCEPT !.estate = @ \cup {"ANCHORED"}, !.joins = @ + 1] OBVIOUS
<1>3. PICK n : n = [node EXCEPT ![t] = r] OBVIOUS
<1>4. PICK A : A = Graph(t) OBVIOUS
<1>5. Running(w, "work") /\ node[t].kind = "subflow" /\ Goto(w, "join") BY <1>1 DEF Join
<1>6. /\ ScheduleAll(A) /\ UNCHANGED <<topology, round, threw, reported>>
      /\ node' = SetUp([node EXCEPT ![t].estate = @ \cup {"ANCHORED"}, ![t].joins = @ + 1], t, A)
  BY <1>1, <1>4 DEF Join
<1>7. t \in Task /\ t \in Present /\ Held(t) /\ scheduled[t] = 0 /\ Flight(t) = {} /\ node[t] \in NodeType
      /\ ~Preempted(t)
  <2>1. Running(w, "work") BY <1>5
  <2> QED BY <1>1, <2>1, RunningFacts DEF Running, Invocation
<1>8. /\ r \in NodeType /\ r.kind = node[t].kind /\ r.parent = node[t].parent /\ r.join = node[t].join
      /\ r.nstate = node[t].nstate
  <2>1. node[t].estate \cup {"ANCHORED"} \in SUBSET Flags /\ node[t].joins + 1 \in Nat
    BY <1>7 DEF NodeType, Flags
  <2> QED BY <1>2, <1>7, <2>1 DEF NodeType
<1>9. [node EXCEPT ![t].estate = @ \cup {"ANCHORED"}, ![t].joins = @ + 1] = n
  <2>1. node \in [Task -> NodeType] BY <1>0 DEF Typed
  <2> QED BY <1>2, <1>3, <1>7, <2>1 DEF NodeType
<1>10. node' = SetUp(n, t, A) BY <1>6, <1>9
<1>12. /\ Shape(t, {}) /\ Gone({}) /\ node' \in [Task -> NodeType]
       /\ node'[t] = Counting(r, Cardinality(A))
       /\ A \in SUBSET Present /\ t \notin A
       /\ \A c \in A : ~Held(c) /\ ~Preempted(c)' /\ node[c].kind # "anchor"
  <2>1. SetUpDone(t, A, r) BY <1>3, <1>4, <1>7, <1>8, <1>10, SetUpNodes
  <2> QED BY <2>1 DEF SetUpDone
<1>13. ~Preempted(t)' BY <1>7, <1>8, <1>12 DEF Preempted, NodeType, Counting
<1>14. \A u \in Task : scheduled'[u] = scheduled[u] + (IF u \in A THEN 1 ELSE 0) BY <1>6 DEF ScheduleAll
<1>15. /\ Single' /\ Stacked' /\ Forest' /\ (\A s \in Slots' : Says(s)')
       /\ \A u \in Present' : scheduled'[u] # 0 => Queued(u)'
       /\ Present' = Present /\ stack' \in [Worker -> Seq(FrameType)]
       /\ \A u \in Task : Held(u)' <=> Held(u) \/ u \in A
       /\ \A u \in Task \ {t} : Awaits(u) => Awaits(u)'
       /\ Awaits(t)'
  <2>1. Running(w, "work") /\ Goto(w, "join") BY <1>5
  <2>2. Shape(t, {}) /\ Gone({}) /\ A \in SUBSET Present BY <1>12
  <2>3. \A u \in A : node[u].kind # "anchor" /\ ~Preempted(u)' /\ ~Held(u) BY <1>12
  <2> QED BY <1>1, <1>13, <1>14, <2>1, <2>2, <2>3, JoinParts
<1>16. Present' = Present /\ \A u \in Task : Held(u)' <=> Held(u) \/ u \in A BY <1>15
<1>17. \A u \in Present : Flight(u)' = (IF u = t THEN A ELSE Flight(u)) /\ node'[u].join = Cardinality(Flight(u)')
  BY <1>3, <1>4, <1>7, <1>8, <1>10, <1>16, SetUpCounts
<1>18. ASSUME NEW u \in Present', Flight(u)' # {} PROVE Awaits(u)'
  <2>1. CASE u = t BY <1>15, <2>1
  <2>2. CASE u # t
    <3>1. u \in Present /\ u \in Task /\ Flight(u) # {} BY <1>15, <1>17, <1>18, <2>2 DEF Present
    <3>2. Awaits(u) BY <1>0, <3>1 DEF Placed
    <3> QED BY <1>15, <2>2, <3>1, <3>2
  <2> QED BY <2>1, <2>2
<1>19. \A u \in Present' : node'[u].join = Cardinality(Flight(u)') BY <1>15, <1>17
<1>20. Placed' BY <1>15, <1>18, <1>19 DEF Placed
<1>21. scheduled' \in [Task -> Nat] BY <1>0, <1>6 DEF Typed, ScheduleAll
<1> QED BY <1>0, <1>6, <1>12, <1>15, <1>20, <1>21 DEF IInv, Typed

-----------------------------------------------------------------------------
(* Nodes are made and go *)

\* The nodes N are new, and the others keep their place.
Grown(N) ==
    /\ N \subseteq Free /\ node' \in [Task -> NodeType]
    /\ \A u \in Task \ N : /\ node'[u].kind = node[u].kind /\ node'[u].parent = node[u].parent
                           /\ node'[u].join = node[u].join /\ (Preempted(u)' <=> Preempted(u))
    /\ \A u \in Free \ N : node'[u] = node[u]
    /\ \A u \in N : /\ node'[u].kind # "none" /\ ~Preempted(u)'
                    /\ node'[u].parent \in Present \cup N \cup {NoTask}
                    /\ node'[u].kind = "anchor" => node'[u].parent = NoTask

\* Nodes that are new,
LEMMA GrownFacts ==
    ASSUME IInv, NEW N, Grown(N)
    PROVE  /\ Present' = Present \cup N /\ Free' = Free \ N /\ N \cap Present = {}
           /\ Present \subseteq Task /\ N \subseteq Task
           /\ \A u \in N : ~Held(u) /\ scheduled[u] = 0 /\ ~Running1(u)
           /\ \A s \in Slots : At(s).node \in Task \ N /\ At(s).node \in Present
           /\ \A u \in Present : Held(u) => Ancestors(u)' = Ancestors(u)
           /\ \A u \in Task \ N : Graph(u) = {c \in Graph(u)' : c \notin N}
           /\ \A u \in N : Graph(u)' \subseteq N
           /\ \A s \in Slots : At(s).pc = "count" => At(s).at \in Present
           /\ \A u \in Present : Preempted(u)' <=> Preempted(u)
<1>0. Typed /\ Placed BY DEF IInv
<1>1. N \subseteq Free /\ Present \subseteq Task BY DEF Grown, Present
<1>2. N \cap Present = {} /\ N \subseteq Task BY <1>1 DEF Free
<1>3. Present' = Present \cup N
  <2>1. \A u \in N : u \in Present' BY <1>2 DEF Grown, Present
  <2>2. \A u \in Task \ N : u \in Present' <=> u \in Present BY DEF Grown, Present
  <2>3. Present' \subseteq Task BY DEF Present
  <2> QED BY <1>1, <1>2, <2>1, <2>2, <2>3
<1>4. Free' = Free \ N BY <1>3 DEF Free
<1>5. ASSUME NEW u \in N PROVE ~Held(u) /\ scheduled[u] = 0 /\ ~Running1(u)
  <2>1. u \in Free /\ u \notin Present /\ node[u] = Absent /\ scheduled[u] = 0
    BY <1>0, <1>1, <1>2 DEF Placed, Forest
  <2>2. ~Preempted(u) BY <2>1 DEF Preempted, Absent
  <2>3. ~Running1(u) BY <2>1, HeldFacts DEF Running1
  <2> QED BY <2>1, <2>2, <2>3 DEF Held
<1>6. \A s \in Slots : At(s).node \in Task \ N /\ At(s).node \in Present BY <1>1, <1>2, HeldFacts
<1>7. \A u \in Present : Held(u) => Ancestors(u)' = Ancestors(u)
  <2>1. \A u \in Present : node'[u].parent = node[u].parent BY <1>1, <1>2 DEF Grown
  <2> QED BY <2>1, AncestorsHeld
<1>8. ASSUME NEW u \in Task \ N PROVE Graph(u) = {c \in Graph(u)' : c \notin N}
  <2>1. \A c \in Present : node'[c].parent = node[c].parent BY <1>1, <1>2 DEF Grown
  <2> QED BY <1>2, <1>3, <2>1 DEF Graph
<1>9. ASSUME NEW u \in N, NEW c \in Graph(u)' PROVE c \in N
  <2>1. c \in Present' /\ node'[c].parent = u BY <1>9 DEF Graph
  <2>2. SUFFICES ASSUME c \notin N PROVE FALSE OBVIOUS
  <2>3. c \in Present /\ c \in Task \ N BY <1>1, <1>3, <2>1, <2>2
  <2>4. node[c].parent = u BY <2>1, <2>3 DEF Grown
  <2>5. u \in Present \/ u = NoTask BY <1>0, <2>3, <2>4 DEF Placed, Forest
  <2> QED BY <1>2, <2>5, TaskFacts
<1>10. ASSUME NEW s \in Slots, At(s).pc = "count" PROVE At(s).at \in Present
  <2>1. Says(s) BY <1>0 DEF Placed
  <2>2. PICK u : u = At(s).node OBVIOUS
  <2>3. u \in Present /\ Held(u) BY <2>2, HeldFacts
  <2>4. At(s).at = node[u].parent /\ node[u].parent # NoTask BY <1>10, <2>1, <2>2 DEF Says
  <2> QED BY <2>3, <2>4, HeldFacts
<1>11. \A u \in Present : u \in Task \ N BY <1>1, <1>2
<1>12. \A u \in Present : Preempted(u)' <=> Preempted(u) BY <1>11 DEF Grown
<1> QED BY <1>1, <1>2, <1>3, <1>4, <1>5, <1>6, <1>7, <1>8, <1>9, <1>10, <1>12

\* Outside of the new nodes nothing changes but that some of them are scheduled.
LEMMA GrownForest ==
    ASSUME IInv, NEW N, Grown(N),
           \A u \in Task \ N : scheduled'[u] = scheduled[u],
           \A u \in N : node'[u].kind = "anchor" => scheduled'[u] = 0
    PROVE  Forest'
<1>0. Forest BY DEF IInv, Placed
<1>1. Present' = Present \cup N /\ Free' = Free \ N /\ N \cap Present = {} /\ Present \subseteq Task /\ N \subseteq Task
  BY GrownFacts
<1>2. ASSUME NEW u \in Free' PROVE node'[u] = Absent /\ scheduled'[u] = 0
  <2>1. u \in Free /\ u \in Task \ N BY <1>1 DEF Free
  <2> QED BY <1>0, <1>1, <2>1 DEF Grown, Forest
<1>3. ASSUME NEW u \in Present'
      PROVE  /\ node'[u].parent \in Present' \cup {NoTask}
             /\ node'[u].kind = "anchor" => node'[u].parent = NoTask /\ scheduled'[u] = 0 /\ ~Preempted(u)'
  <2>1. CASE u \in N BY <1>1, <2>1 DEF Grown
  <2>2. CASE u \notin N
    <3>1. u \in Present /\ u \in Task \ N BY <1>1, <2>2
    <3> QED BY <1>0, <1>1, <3>1 DEF Grown, Forest
  <2> QED BY <2>1, <2>2
<1>4. node'[Root].kind = "subflow" /\ node'[Root].parent = NoTask
  <2>1. Root \in Present BY <1>0, TaskFacts DEF Forest, Present
  <2>2. Root \in Task \ N BY <1>1, <2>1
  <2> QED BY <1>0, <2>2 DEF Grown, Forest
<1> QED BY <1>2, <1>3, <1>4 DEF Forest

\* A callable adds a task to its graph; nothing runs it yet.
LEMMA EmplacePlaced == ASSUME IInv, NEW w \in Worker, NEW k \in {"static", "subflow"}, Emplace(w, k) PROVE IInv'
<1>0. Typed /\ Placed BY DEF IInv
<1>1. PICK t : t = Top(w).node OBVIOUS
<1>2. Running(w, "work") /\ UNCHANGED <<topology, scheduled, stack, round, threw, reported>> BY DEF Emplace
<1>3. PICK c \in Free : node' = [node EXCEPT ![c] = Made(k, t)] BY <1>1 DEF Emplace
<1>4. t \in Task /\ t \in Present /\ Flight(t) = {}
  <2>1. Running(w, "work") BY <1>2
  <2> QED BY <1>1, <2>1, RunningFacts DEF Running, Invocation
<1>5. PICK r : r = Made(k, t) OBVIOUS
<1>6. r \in NodeType /\ r.kind = k /\ r.parent = t /\ r.nstate = {} /\ r.join = 0
  BY <1>4, <1>5 DEF Made, Absent, NodeType, Nodes
<1>7. node \in [Task -> NodeType] /\ c \in Task BY <1>0 DEF Typed, Free
<1>8. node' \in [Task -> NodeType] /\ node'[c] = r /\ \A u \in Task \ {c} : node'[u] = node[u]
  BY <1>3, <1>5, <1>6, <1>7
<1>9. Grown({c})
  <2>1. \A u \in Task \ {c} : Preempted(u)' <=> Preempted(u) BY <1>8 DEF Preempted
  <2>2. ~Preempted(c)' BY <1>6, <1>8 DEF Preempted
  <2>3. Free \subseteq Task BY DEF Free
  <2> QED BY <1>4, <1>6, <1>8, <2>1, <2>2, <2>3 DEF Grown
<1>10. /\ Present' = Present \cup {c} /\ Free' = Free \ {c} /\ c \notin Present
       /\ Present \subseteq Task
       /\ ~Held(c) /\ scheduled[c] = 0 /\ ~Running1(c)
       /\ \A s \in Slots : At(s).node \in Task \ {c} /\ At(s).node \in Present
       /\ \A u \in Present : Held(u) => Ancestors(u)' = Ancestors(u)
       /\ \A u \in Task \ {c} : Graph(u) = {d \in Graph(u)' : d \notin {c}}
       /\ Graph(c)' \subseteq {c}
       /\ \A s \in Slots : At(s).pc = "count" => At(s).at \in Present
       /\ \A u \in Present : Preempted(u)' <=> Preempted(u) BY <1>9, GrownFacts
<1>11. Forest'
  <2>1. \A u \in Task : scheduled'[u] = scheduled[u] BY <1>2
  <2> QED BY <1>6, <1>8, <1>9, <2>1, GrownForest
<1>12. Slots' = Slots /\ \A s : At(s)' = At(s) BY <1>2 DEF Slots, At
<1>13. \A s : TopSlot(s[1])' = TopSlot(s[1]) BY <1>2 DEF TopSlot
<1>14. \A u : Running1(u)' <=> Running1(u) BY <1>12 DEF Running1
<1>15. \A u \in Task \ {c} : Preempted(u)' <=> Preempted(u) BY <1>8 DEF Preempted
<1>16. ~Preempted(c)' BY <1>6, <1>8 DEF Preempted
<1>17. ASSUME NEW u \in Task PROVE Held(u)' <=> Held(u)
  <2>1. CASE u = c BY <1>2, <1>10, <1>14, <1>16, <2>1 DEF Held
  <2>2. CASE u # c BY <1>2, <1>14, <1>15, <2>2 DEF Held
  <2> QED BY <2>1, <2>2
<1>18. ASSUME NEW u \in Task PROVE Flight(u)' = IF u = c THEN {} ELSE Flight(u)
  <2>1. Graph(u)' \subseteq Task BY DEF Graph, Present
  <2>2. ~Held(c)' BY <1>7, <1>10, <1>17
  <2>3. CASE u = c BY <1>10, <2>2, <2>3 DEF Flight
  <2>4. CASE u # c BY <1>10, <1>17, <2>1, <2>2, <2>4 DEF Flight
  <2> QED BY <2>3, <2>4
<1>19. Single' BY <1>0, <1>12 DEF Placed, Single
<1>20. Stacked'
  <2>1. \A s \in Slots : node'[At(s).node].kind = node[At(s).node].kind BY <1>8, <1>10
  <2>2. ASSUME NEW s \in Slots, s # TopSlot(s[1]) PROVE Above(s) \in Slots BY <1>0, <2>2, AboveBelow
  <2>3. Stacked BY <1>0 DEF Placed
  <2> QED BY <1>12, <1>13, <2>1, <2>2, <2>3 DEF Stacked
<1>21. ASSUME NEW s \in Slots' PROVE Says(s)'
  <2>1. s \in Slots /\ At(s)' = At(s) BY <1>12
  <2>2. PICK u : u = At(s).node OBVIOUS
  <2>3. u \in Present /\ Held(u) /\ scheduled[u] = 0 /\ u \in Task \ {c} BY <1>10, <2>1, <2>2, HeldFacts
  <2>4. node'[u] = node[u] /\ scheduled'[u] = 0 /\ (Preempted(u)' <=> Preempted(u))
        /\ Ancestors(u)' = Ancestors(u) BY <1>2, <1>8, <1>10, <1>15, <2>3
  <2>5. ASSUME At(s).pc = "count" PROVE Preempted(At(s).at)' <=> Preempted(At(s).at)
    <3>1. PICK v : v = At(s).at OBVIOUS
    <3>2. Preempted(v)' <=> Preempted(v) BY <1>10, <2>1, <2>5, <3>1
    <3> QED BY <2>1, <3>1, <3>2
  <2> QED BY <2>1, <2>2, <2>4, <2>5, SaysKept
<1>22. ASSUME NEW u \in Present', scheduled'[u] # 0 PROVE Queued(u)'
  <2>1. u \in Present /\ u \in Task \ {c} /\ scheduled[u] # 0 BY <1>2, <1>10, <1>22
  <2>2. Queued(u) BY <1>0, <2>1 DEF Placed
  <2> QED BY <1>2, <1>14, <1>15, <2>1, <2>2 DEF Queued
<1>23. ASSUME NEW u \in Present' PROVE node'[u].join = Cardinality(Flight(u)')
  <2>1. CASE u = c BY <1>6, <1>7, <1>8, <1>18, <2>1, FS_EmptySet
  <2>2. CASE u # c
    <3>1. u \in Present /\ u \in Task \ {c} BY <1>10, <1>23, <2>2
    <3>2. node[u].join = Cardinality(Flight(u)) BY <1>0, <3>1 DEF Placed
    <3> QED BY <1>8, <1>18, <3>1, <3>2
  <2> QED BY <2>1, <2>2
<1>24. ASSUME NEW u \in Present', Flight(u)' # {} PROVE Awaits(u)'
  <2>1. u \in Present /\ u \in Task \ {c} /\ Flight(u) # {} BY <1>7, <1>10, <1>18, <1>24
  <2>2. Awaits(u) BY <1>0, <2>1 DEF Placed
  <2> QED BY <1>12, <1>14, <1>15, <2>1, <2>2 DEF Awaits
<1>25. Placed' BY <1>11, <1>19, <1>20, <1>21, <1>22, <1>23, <1>24 DEF Placed
<1> QED BY <1>0, <1>2, <1>8, <1>25 DEF IInv, Typed

\* An anchor a, on which t waits, and the task c of its graph.
NewCorun(t, a, c, k) ==
    /\ Grown({a, c}) /\ a # t /\ c # t
    /\ node'[a].kind = "anchor" /\ node'[a].parent = NoTask /\ node'[a].join = 1 /\ node'[a].nstate = {}
    /\ node'[a].ran = 0 /\ node'[a].eptr = FALSE
    /\ node'[c].kind = k /\ node'[c].parent = a /\ node'[c].join = 0 /\ node'[c].nstate = {}
    /\ node'[c].ran = 0 /\ node'[c].eptr = FALSE
    /\ \A u \in Task \ {a, c} : /\ node'[u].nstate = node[u].nstate /\ node'[u].estate = node[u].estate
                                /\ node'[u].ran = node[u].ran /\ node'[u].eptr = node[u].eptr

\* The nodes that a corun makes: an anchor and the tasks of a graph around it.
LEMMA CorunNodes ==
    ASSUME IInv, NEW t \in Present, NEW a \in Free, NEW c \in Free, a # c, NEW k \in {"static", "subflow"},
           node' = SetUp([node EXCEPT ![t].joins = @ + 1,
                                      ![a] = [Made("anchor", NoTask) EXCEPT !.estate = {"ANCHORED"}],
                                      ![c] = Made(k, a)], a, {c})
    PROVE  NewCorun(t, a, c, k)
<1>0. Typed BY DEF IInv
<1>1. node \in [Task -> NodeType] /\ t \in Task /\ a \in Task /\ c \in Task /\ a # t /\ c # t
  BY <1>0 DEF Typed, Present, Free
<1>2. PICK q : q = [node[t] EXCEPT !.joins = @ + 1] OBVIOUS
<1>3. PICK b : b = [Made("anchor", NoTask) EXCEPT !.estate = {"ANCHORED"}] OBVIOUS
<1>4. PICK d : d = Made(k, a) OBVIOUS
<1>5. PICK n : n = [node EXCEPT ![t].joins = @ + 1, ![a] = b, ![c] = d] OBVIOUS
<1>6. node' = SetUp(n, a, {c}) BY <1>3, <1>4, <1>5
<1>7. q \in NodeType /\ q.kind = node[t].kind /\ q.parent = node[t].parent /\ q.join = node[t].join
      /\ q.nstate = node[t].nstate /\ q.estate = node[t].estate /\ q.ran = node[t].ran /\ q.eptr = node[t].eptr
  <2>1. node[t] \in NodeType /\ node[t].joins + 1 \in Nat BY <1>1 DEF NodeType
  <2> QED BY <1>2, <2>1 DEF NodeType
<1>8. /\ b \in NodeType /\ b.kind = "anchor" /\ b.parent = NoTask /\ b.join = 0 /\ b.nstate = {}
      /\ b.ran = 0 /\ b.eptr = FALSE BY <1>3 DEF Made, Absent, NodeType, Nodes, Flags
<1>9. /\ d \in NodeType /\ d.kind = k /\ d.parent = a /\ d.join = 0 /\ d.nstate = {} /\ d.estate = {}
      /\ d.eptr = FALSE /\ d.ran = 0 BY <1>1, <1>4 DEF Made, Absent, NodeType, Nodes
<1>10. /\ n[t] = q /\ n[a] = b /\ n[c] = d /\ \A u \in Task \ {t, a, c} : n[u] = node[u]
  BY <1>1, <1>2, <1>5
<1>11. Cardinality({c}) = 1 BY FS_Singleton
<1>12. PICK e : e = [b EXCEPT !.join = 1] OBVIOUS
<1>13. node'[a] = e
  <2>1. node'[a] = [b EXCEPT !.join = @ + 1] BY <1>1, <1>6, <1>10, <1>11 DEF SetUp
  <2> QED BY <1>8, <1>12, <2>1
<1>14. node'[c] = d
  <2>1. node'[c] = [d EXCEPT !.nstate = {}, !.estate = {}, !.eptr = FALSE, !.join = 0]
    BY <1>1, <1>6, <1>10 DEF SetUp
  <2>2. [d EXCEPT !.nstate = {}, !.estate = {}, !.eptr = FALSE, !.join = 0] = d BY <1>9 DEF NodeType
  <2> QED BY <2>1, <2>2
<1>15. \A u \in Task \ {a, c} : node'[u] = n[u] BY <1>6 DEF SetUp
<1>16. \A u \in Task \ {a, c} : node'[u] = IF u = t THEN q ELSE node[u] BY <1>10, <1>15
<1>17. /\ e \in NodeType /\ e.kind = "anchor" /\ e.parent = NoTask /\ e.join = 1 /\ e.nstate = {}
       /\ e.ran = 0 /\ e.eptr = FALSE BY <1>8, <1>12 DEF NodeType
<1>18. node' \in [Task -> NodeType]
  <2>1. ASSUME NEW u \in Task PROVE node'[u] \in NodeType
    <3>1. CASE u = a BY <1>13, <1>17, <3>1
    <3>2. CASE u = c BY <1>9, <1>14, <3>2
    <3>3. CASE u = t BY <1>1, <1>7, <1>16, <3>3
    <3>4. CASE u \notin {a, c, t} BY <1>1, <1>16, <3>4
    <3> QED BY <3>1, <3>2, <3>3, <3>4
  <2>2. \A u \in Task : SetUp(n, a, {c})[u] \in NodeType BY <1>6, <2>1
  <2>3. SetUp(n, a, {c}) \in [Task -> NodeType] BY <2>2, SetUpType
  <2> QED BY <1>6, <2>3
<1>19. \A u \in Task \ {a, c} : /\ node'[u].kind = node[u].kind /\ node'[u].parent = node[u].parent
                                /\ node'[u].join = node[u].join /\ node'[u].nstate = node[u].nstate
                                /\ node'[u].estate = node[u].estate /\ node'[u].ran = node[u].ran
                                /\ node'[u].eptr = node[u].eptr BY <1>7, <1>16
<1>20. Grown({a, c})
  <2>1. \A u \in Task \ {a, c} : Preempted(u)' <=> Preempted(u) BY <1>19 DEF Preempted
  <2>2. ~Preempted(a)' /\ ~Preempted(c)' BY <1>9, <1>13, <1>14, <1>17 DEF Preempted
  <2>3. \A u \in Free \ {a, c} : node'[u] = node[u] BY <1>16 DEF Free, Present
  <2>4. \A u \in {a, c} : /\ node'[u].kind # "none" /\ ~Preempted(u)'
                          /\ node'[u].parent \in Present \cup {a, c} \cup {NoTask}
                          /\ node'[u].kind = "anchor" => node'[u].parent = NoTask
    <3>1. node'[a].kind = "anchor" /\ node'[a].parent = NoTask BY <1>13, <1>17
    <3>2. node'[c].kind = k /\ node'[c].parent = a BY <1>9, <1>14
    <3> QED BY <2>2, <3>1, <3>2
  <2> QED BY <1>18, <1>19, <2>1, <2>3, <2>4 DEF Grown
<1>21. /\ node'[a].kind = "anchor" /\ node'[a].parent = NoTask /\ node'[a].join = 1 /\ node'[a].nstate = {}
       /\ node'[a].ran = 0 /\ node'[a].eptr = FALSE BY <1>13, <1>17
<1>22. /\ node'[c].kind = k /\ node'[c].parent = a /\ node'[c].join = 0 /\ node'[c].nstate = {}
       /\ node'[c].ran = 0 /\ node'[c].eptr = FALSE BY <1>9, <1>14
<1> QED BY <1>1, <1>19, <1>20, <1>21, <1>22 DEF NewCorun

\* A corun schedules a graph of its own and waits on top of the callable.
LEMMA CorunPlaced == ASSUME IInv, NEW w \in Worker, NEW k \in {"static", "subflow"}, Corun(w, k) PROVE IInv'
<1>0. Typed /\ Placed BY DEF IInv
<1>1. PICK t : t = Top(w).node OBVIOUS
<1>2. Running(w, "work") /\ UNCHANGED <<topology, round, threw, reported>> BY DEF Corun
<1>3. PICK a \in Free, c \in Free :
         /\ a < c
         /\ node' = SetUp([node EXCEPT ![t].joins = @ + 1,
                                       ![a] = [Made("anchor", NoTask) EXCEPT !.estate = {"ANCHORED"}],
                                       ![c] = Made(k, a)], a, {c})
         /\ ScheduleAll({c})
         /\ Push(w, [Enter(a) EXCEPT !.pc = "join"]) BY <1>1 DEF Corun
<1>4. a # c /\ a \in Task /\ c \in Task
  <2>1. a \in Nat /\ c \in Nat /\ a \in Task /\ c \in Task BY TaskFacts DEF Free
  <2> QED BY <1>3, <2>1
<1>5. /\ t \in Task /\ t \in Present /\ Flight(t) = {} /\ stack[w] # <<>> /\ Top(w).pc = "work"
      /\ TopSlot(w) \in Slots /\ At(TopSlot(w)) = Top(w)
  <2>1. Running(w, "work") BY <1>2
  <2> QED BY <1>1, <2>1, RunningFacts DEF Running, Invocation
<1>6. /\ Grown({a, c})
      /\ node'[a].kind = "anchor" /\ node'[a].join = 1
      /\ node'[c].kind = k /\ node'[c].parent = a /\ node'[c].join = 0
  <2>1. NewCorun(t, a, c, k) BY <1>3, <1>4, <1>5, CorunNodes
  <2> QED BY <2>1 DEF NewCorun
<1>7. PICK f : f = [Enter(a) EXCEPT !.pc = "join"] OBVIOUS
<1>8. f \in FrameType /\ f.node = a /\ f.pc = "join" /\ f.at = NoTask /\ Push(w, f)
  BY <1>3, <1>4, <1>7 DEF Enter, FrameType, Places, Nodes
<1>9. Pushed(w, f) /\ stack' \in [Worker -> Seq(FrameType)] BY <1>0, <1>8, PushSlots
<1>10. PICK i : i = NewSlot(w) OBVIOUS
<1>11. /\ i \notin Slots /\ Slots' = Slots \cup {i} /\ At(i)' = f
       /\ \A u \in Slots : At(u)' = At(u) BY <1>9, <1>10 DEF Pushed
<1>12. PICK N : N = {a, c} OBVIOUS
<1>13. /\ Present' = Present \cup N /\ Free' = Free \ N /\ N \cap Present = {}
       /\ Present \subseteq Task /\ N \subseteq Task
       /\ \A u \in N : ~Held(u) /\ scheduled[u] = 0 /\ ~Running1(u)
       /\ \A s \in Slots : At(s).node \in Task \ N /\ At(s).node \in Present
       /\ \A u \in Present : Held(u) => Ancestors(u)' = Ancestors(u)
       /\ \A u \in Task \ N : Graph(u) = {d \in Graph(u)' : d \notin N}
       /\ \A u \in N : Graph(u)' \subseteq N
       /\ \A s \in Slots : At(s).pc = "count" => At(s).at \in Present
       /\ \A u \in Present : Preempted(u)' <=> Preempted(u) BY <1>6, <1>12, GrownFacts
<1>14. scheduled' = [s \in Task |-> scheduled[s] + IF s \in {c} THEN 1 ELSE 0] BY <1>3 DEF ScheduleAll
<1>15. scheduled \in [Task -> Nat] BY <1>0 DEF Typed
<1>16. scheduled' \in [Task -> Nat] BY <1>14, <1>15
<1>17. scheduled'[c] = 1 /\ scheduled'[a] = 0 /\ \A u \in Task \ {c} : scheduled'[u] = scheduled[u]
  BY <1>4, <1>12, <1>13, <1>14, <1>15
<1>18. Forest'
  <2>1. \A u \in Task \ N : scheduled'[u] = scheduled[u] BY <1>12, <1>17
  <2>2. \A u \in N : node'[u].kind = "anchor" => scheduled'[u] = 0 BY <1>6, <1>12, <1>17
  <2> QED BY <1>6, <1>12, <2>1, <2>2, GrownForest
<1>19. \A u \in Task : Running1(u)' <=> Running1(u) \/ u = a BY <1>8, <1>11 DEF Running1
<1>20. /\ \A u \in Task \ N : Preempted(u)' <=> Preempted(u)
       /\ \A u \in N : ~Preempted(u)'
       /\ \A u \in Task \ N : node'[u].kind = node[u].kind /\ node'[u].parent = node[u].parent
                              /\ node'[u].join = node[u].join BY <1>6, <1>12 DEF Grown
<1>21. ASSUME NEW u \in Task PROVE Held(u)' <=> Held(u) \/ u \in N
  <2>1. CASE u = a BY <1>12, <1>19, <2>1 DEF Held
  <2>2. CASE u = c BY <1>12, <1>17, <2>2 DEF Held
  <2>3. CASE u \notin N BY <1>12, <1>17, <1>19, <1>20, <2>3 DEF Held
  <2> QED BY <1>12, <2>1, <2>2, <2>3
<1>22. ASSUME NEW u \in Task PROVE Flight(u)' = IF u = a THEN {c} ELSE IF u = c THEN {} ELSE Flight(u)
  <2>1. Graph(u)' = {d \in Present' : node'[d].parent = u} /\ Present' \subseteq Task BY DEF Graph, Present
  <2>2. node'[a].parent = NoTask BY <1>6 DEF Grown
  <2>3. u # NoTask BY TaskFacts
  <2>4. a \notin Graph(u)' /\ (c \in Graph(u)' <=> u = a) BY <1>6, <1>12, <1>13, <2>1, <2>2, <2>3
  <2>5. CASE u \in N
    <3>1. Graph(u)' = IF u = a THEN {c} ELSE {} BY <1>4, <1>12, <1>13, <2>4, <2>5
    <3>2. Held(c)' BY <1>4, <1>12, <1>21
    <3> QED BY <1>4, <1>12, <2>5, <3>1, <3>2 DEF Flight
  <2>6. CASE u \notin N
    <3>1. Graph(u)' = Graph(u) BY <1>12, <1>13, <2>4, <2>6
    <3>2. \A d \in Graph(u) : Held(d)' <=> Held(d) BY <1>12, <1>13, <1>21 DEF Graph
    <3> QED BY <1>12, <2>6, <3>1, <3>2 DEF Flight
  <2> QED BY <2>5, <2>6
<1>23. Single'
  <2>1. \A s \in Slots : At(s).node # a BY <1>12, <1>13
  <2> QED BY <1>0, <1>8, <1>11, <2>1 DEF Placed, Single
<1>24. Stacked'
  <2>1. \A s \in Slots : node'[At(s).node].kind = node[At(s).node].kind BY <1>13, <1>20
  <2>2. node'[f.node].kind = "anchor" BY <1>6, <1>8
  <2> QED BY <1>5, <1>9, <2>1, <2>2, StackedPushed
<1>25. ASSUME NEW s \in Slots' PROVE Says(s)'
  <2>1. CASE s = i
    <3>1. a \in Present' /\ scheduled'[a] = 0 /\ ~Preempted(a)' BY <1>12, <1>13, <1>17, <1>20
    <3> QED BY <1>8, <1>11, <2>1, <3>1 DEF Says
  <2>2. CASE s # i
    <3>1. s \in Slots /\ At(s)' = At(s) BY <1>11, <2>2
    <3>2. PICK u : u = At(s).node OBVIOUS
    <3>3. u \in Present /\ Held(u) /\ scheduled[u] = 0 /\ u \in Task \ N BY <1>13, <3>1, <3>2, HeldFacts
    <3>4. scheduled'[u] = 0 /\ Ancestors(u)' = Ancestors(u) BY <1>12, <1>13, <1>17, <3>3
    <3>5. ASSUME At(s).pc = "count" PROVE Preempted(At(s).at)' <=> Preempted(At(s).at)
      <4>1. PICK v : v = At(s).at OBVIOUS
      <4>2. Preempted(v)' <=> Preempted(v) BY <1>13, <3>1, <3>5, <4>1
      <4> QED BY <3>1, <4>1, <4>2
    <3> QED BY <1>20, <3>1, <3>2, <3>3, <3>4, <3>5, SaysKept
  <2> QED BY <2>1, <2>2
<1>26. ASSUME NEW u \in Present', scheduled'[u] # 0 PROVE Queued(u)'
  <2>1. u \in Task /\ u # a BY <1>13, <1>17, <1>26
  <2>2. CASE u = c
    <3>1. ~Running1(c)' BY <1>4, <1>12, <1>13, <1>19
    <3> QED BY <1>12, <1>17, <1>20, <2>2, <3>1 DEF Queued
  <2>3. CASE u # c
    <3>1. u \in Task \ N /\ scheduled'[u] = scheduled[u] BY <1>12, <1>17, <2>1, <2>3
    <3>2. Queued(u) BY <1>26, <3>1, HeldFacts
    <3> QED BY <1>19, <1>20, <2>1, <3>1, <3>2 DEF Queued
  <2> QED BY <2>2, <2>3
<1>27. ASSUME NEW u \in Present' PROVE node'[u].join = Cardinality(Flight(u)')
  <2>1. CASE u = a BY <1>6, <1>4, <1>22, <2>1, FS_Singleton
  <2>2. CASE u = c BY <1>6, <1>4, <1>22, <2>2, FS_EmptySet
  <2>3. CASE u \notin N
    <3>1. u \in Present /\ u \in Task \ N BY <1>13, <1>27, <2>3
    <3>2. node[u].join = Cardinality(Flight(u)) BY <1>0, <3>1 DEF Placed
    <3> QED BY <1>12, <1>20, <1>22, <2>3, <3>1, <3>2
  <2> QED BY <1>12, <2>1, <2>2, <2>3
<1>28. ASSUME NEW u \in Present', Flight(u)' # {} PROVE Awaits(u)'
  <2>1. u \in Task BY <1>13
  <2>2. CASE u = a BY <1>8, <1>11, <2>2 DEF Awaits
  <2>3. CASE u # a
    <3>1. u \in Present /\ u \in Task \ N /\ Flight(u) # {} BY <1>12, <1>13, <1>22, <1>28, <2>1, <2>3
    <3>2. Awaits(u) BY <1>0, <3>1 DEF Placed
    <3>3. CASE Preempted(u) /\ ~Running1(u) BY <1>19, <1>20, <2>3, <3>1, <3>3 DEF Awaits
    <3>4. ASSUME NEW s \in Slots, At(s).node = u, At(s).pc = "join" PROVE Awaits(u)'
      <4>1. s \in Slots' /\ At(s)' = At(s) BY <1>11
      <4> QED BY <3>4, <4>1 DEF Awaits
    <3> QED BY <3>2, <3>3, <3>4 DEF Awaits
  <2> QED BY <2>2, <2>3
<1>29. Placed' BY <1>18, <1>23, <1>24, <1>25, <1>26, <1>27, <1>28 DEF Placed
<1>30. node' \in [Task -> NodeType] BY <1>6 DEF Grown
<1> QED BY <1>0, <1>2, <1>9, <1>16, <1>29, <1>30 DEF IInv, Typed

\* The nodes that go with the anchor.
LEMMA CorunReturnsNodes ==
    ASSUME IInv, NEW a \in Present, Held(a), Flight(a) = {}, node[a].kind = "anchor",
           NEW G, G = Descendants(a) \cup {a}, node' = Cleared([node EXCEPT ![a] = Absent], a)
    PROVE  /\ Shape(a, G) /\ Gone(G) /\ node' \in [Task -> NodeType]
           /\ \A u \in Task \ G : node'[u] = node[u]
           /\ \A u \in G : node'[u] = Absent /\ scheduled[u] = 0 /\ (u # a => ~Held(u))
<1>0. Typed /\ Placed BY DEF IInv
<1>1. node \in [Task -> NodeType] /\ a \in Task /\ Present \subseteq Task BY <1>0 DEF Typed, Present
<1>2. PICK D : D = Descendants(a) OBVIOUS
<1>3. /\ \A d \in D : d \in Present /\ ~Held(d) /\ d # Root /\ d # a
      /\ Closed(Present \ D) /\ Graph(a) \ {a} \subseteq D BY <1>2, NothingBelow
<1>4. G = D \cup {a} BY <1>2
<1>5. a # Root BY <1>0 DEF Placed, Forest
<1>6. Closed(Present \ G)
  <2>1. ASSUME NEW s \in Present \ G PROVE node[s].parent \in (Present \ G) \cup {NoTask}
    <3>1. s \in Present \ D /\ s # a BY <1>4
    <3>2. node[s].parent \in (Present \ D) \cup {NoTask} BY <1>3, <3>1 DEF Closed
    <3>3. node[s].parent # a BY <1>3, <3>1 DEF Graph
    <3> QED BY <1>4, <3>2, <3>3
  <2> QED BY <1>1, <2>1 DEF Closed
<1>7. Gone(G) BY <1>3, <1>4, <1>5, <1>6 DEF Gone
<1>8. Absent \in NodeType
  <2>1. "none" \in {"none", "static", "subflow", "anchor"} /\ NoTask \in Nodes /\ 0 \in Nat /\ FALSE \in BOOLEAN
    BY DEF Nodes
  <2> QED BY <2>1 DEF Absent, NodeType
<1>9. node' = [s \in Task |-> IF s \in D THEN Absent ELSE [node EXCEPT ![a] = Absent][s]] BY <1>2 DEF Cleared
<1>10. \A u \in G : node'[u] = Absent BY <1>1, <1>3, <1>4, <1>9
<1>11. \A u \in Task \ G : node'[u] = node[u] BY <1>1, <1>4, <1>9
<1>12. node' \in [Task -> NodeType] BY <1>1, <1>8, <1>9
<1>13. Shape(a, G) BY <1>3, <1>4, <1>10, <1>11 DEF Shape, Free, Preempted
<1>14. ASSUME NEW u \in G PROVE scheduled[u] = 0 /\ (u # a => ~Held(u))
  <2>1. CASE u = a BY <1>0, <2>1 DEF Placed, Forest
  <2>2. CASE u # a
    <3>1. ~Held(u) /\ u \in Task BY <1>1, <1>3, <1>4, <2>2
    <3> QED BY <1>0, <3>1 DEF Held, Typed
  <2> QED BY <2>1, <2>2
<1> QED BY <1>7, <1>10, <1>11, <1>12, <1>13, <1>14

\* A corun returns when nothing of its graph is in hand, and its nodes go.
LEMMA CorunReturnsPlaced == ASSUME IInv, NEW w \in Worker, CorunReturns(w) PROVE IInv'
<1>0. Typed /\ Placed BY DEF IInv
<1>1. PICK a : a = Top(w).node OBVIOUS
<1>2. PICK caller : caller = stack[w][2] OBVIOUS
<1>3. PICK f : f = [caller EXCEPT !.pc = "raise", !.at = caller.node] OBVIOUS
<1>4. /\ Running(w, "join") /\ node[a].kind = "anchor" /\ node[a].join = 0
      /\ node' = Cleared([node EXCEPT ![a] = Absent], a)
      /\ reported' = (reported \/ node[a].eptr)
      /\ UNCHANGED <<topology, scheduled, round, threw>>
      /\ Pop(w) \/ stack' = [stack EXCEPT ![w] = <<f>> \o SubSeq(@, 3, Len(@))]
  BY <1>1, <1>2, <1>3 DEF CorunReturns
<1>5. /\ a \in Task /\ a \in Present /\ Held(a) /\ stack[w] # <<>>
      /\ TopSlot(w) \in Slots /\ At(TopSlot(w)) = Top(w) BY <1>1, <1>4, RunningFacts DEF Running, Invocation
<1>6. Flight(a) = {} BY <1>4, <1>5, NoneLeft
<1>7. PICK G : G = Descendants(a) \cup {a} OBVIOUS
<1>8. /\ Shape(a, G) /\ Gone(G) /\ node' \in [Task -> NodeType]
      /\ \A u \in Task \ G : node'[u] = node[u]
      /\ \A u \in G : node'[u] = Absent /\ scheduled[u] = 0 /\ (u # a => ~Held(u))
  BY <1>4, <1>5, <1>6, <1>7, CorunReturnsNodes
<1>9. PICK top : top = TopSlot(w) OBVIOUS
<1>10. PICK bel : bel = Below(top) OBVIOUS
<1>11. /\ top \in Slots /\ At(top).node = a /\ top[2] > 1 /\ At(bel).pc = "work" /\ bel \in Slots
       /\ top = <<w, Len(stack[w])>>
  <2>1. top \in Slots /\ At(top).node = a BY <1>1, <1>5, <1>9
  <2>2. top[2] > 1 /\ At(bel).pc = "work" BY <1>0, <1>4, <1>10, <2>1 DEF Placed, Stacked
  <2> QED BY <1>0, <1>9, <1>10, <2>1, <2>2, AboveBelow DEF TopSlot
<1>12. Len(stack[w]) >= 2 /\ At(bel) = caller /\ bel # top
  <2>1. stack[w] \in Seq(FrameType) BY <1>0 DEF Typed
  <2>2. Len(stack[w]) \in Nat BY <2>1
  <2>3. top[1] = w /\ top[2] = Len(stack[w]) BY <1>11
  <2>4. bel = <<w, Len(stack[w]) - 1>> BY <1>10, <2>3 DEF Below
  <2>5. bel[1] = w /\ bel[2] = Len(stack[w]) - 1 BY <2>4
  <2>6. Len(stack[w]) + 1 - bel[2] = 2 BY <2>2, <2>5
  <2>7. bel # top BY <2>2, <2>3, <2>5
  <2> QED BY <1>2, <1>11, <2>2, <2>3, <2>5, <2>6, <2>7 DEF At
<1>13. PICK t : t = caller.node OBVIOUS
<1>14. /\ caller \in FrameType /\ t \in Task /\ t \in Present /\ Held(t) /\ scheduled[t] = 0 /\ ~Preempted(t)
       /\ node[t].kind # "anchor"
  <2>1. Says(bel) BY <1>0, <1>11 DEF Placed
  <2>2. caller \in FrameType BY <1>0, <1>11, <1>12, SlotFrames
  <2>3. t \in Present /\ Held(t) /\ scheduled[t] = 0 BY <1>11, <1>12, <1>13, HeldFacts
  <2> QED BY <1>11, <1>12, <1>13, <2>1, <2>2, <2>3 DEF Says, Present
<1>15. f \in FrameType /\ f.node = t /\ f.pc = "raise" /\ f.at = t
  BY <1>3, <1>13, <1>14 DEF FrameType, Places, Nodes
<1>16. \A s \in Slots : node'[At(s).node].kind = node[At(s).node].kind \/ s = top
  <2>1. ASSUME NEW s \in Slots, s # top PROVE At(s).node \in Task \ G
    <3>1. At(s).node \in Present /\ Held(At(s).node) BY HeldFacts
    <3>2. At(s).node # a BY <1>0, <1>11, <2>1 DEF Placed, Single
    <3> QED BY <1>8, <3>1, <3>2 DEF Present
  <2> QED BY <1>8, <2>1
<1>17. /\ Slots' = Slots \ {top}
       /\ \A s \in Slots' : At(s)' = At(s) \/ (s = bel /\ At(s)' = f)
       /\ Stacked' /\ stack' \in [Worker -> Seq(FrameType)]
  <2>1. ASSUME Pop(w)
        PROVE  /\ Slots' = Slots \ {top} /\ \A s \in Slots' : At(s)' = At(s)
               /\ Stacked' /\ stack' \in [Worker -> Seq(FrameType)]
    <3>1. Popped(w) /\ stack' \in [Worker -> Seq(FrameType)] BY <1>0, <1>5, <2>1, PopSlots
    <3>2. Stacked' BY <1>5, <1>9, <1>16, <3>1, StackedPopped
    <3> QED BY <1>9, <3>1, <3>2 DEF Popped
  <2>2. ASSUME stack' = [stack EXCEPT ![w] = <<f>> \o SubSeq(@, 3, Len(@))]
        PROVE  /\ Slots' = Slots \ {top} /\ \A s \in Slots' : At(s)' = At(s) \/ (s = bel /\ At(s)' = f)
               /\ Stacked' /\ stack' \in [Worker -> Seq(FrameType)]
    <3>1. Fallen(w, f) /\ stack' \in [Worker -> Seq(FrameType)] BY <1>0, <1>12, <1>15, <2>2, FallSlots
    <3>2. f.node = At(Below(TopSlot(w))).node BY <1>9, <1>10, <1>12, <1>13, <1>15
    <3>3. Stacked' BY <1>5, <1>9, <1>16, <3>1, <3>2, StackedFallen
    <3>4. PICK m : m = TopSlot(w)' OBVIOUS
    <3>5. Slots' = Slots \ {top} /\ m = bel /\ At(m)' = f /\ \A s \in Slots' \ {m} : At(s)' = At(s)
      BY <1>9, <1>10, <3>1, <3>4 DEF Fallen
    <3> QED BY <3>1, <3>3, <3>5
  <2> QED BY <1>4, <2>1, <2>2
<1>18. \A s \in Slots' : At(s)'.node = At(s).node /\ s \in Slots BY <1>12, <1>13, <1>15, <1>17
<1>19. Present' = Present \ G /\ Free' = Free \cup G /\ G \subseteq Present /\ Present \subseteq Task
  BY <1>8, ShapePresent
<1>20. \A s \in Slots : At(s).node = a => s = top BY <1>0, <1>11 DEF Placed, Single
<1>21. \A u \in Task : Running1(u)' <=> Running1(u) /\ u # a BY <1>11, <1>17, <1>18, <1>20 DEF Running1
<1>22. \A u \in Task \ G : Preempted(u)' <=> Preempted(u) BY <1>8 DEF Preempted
<1>23. a \in G BY <1>7
<1>24. \A u \in Task \ G : Held(u)' <=> Held(u) BY <1>4, <1>21, <1>22, <1>23 DEF Held
<1>25. node[a].parent = NoTask BY <1>0, <1>4, <1>5 DEF Placed, Forest
<1>26. ASSUME NEW u \in Task \ G PROVE Flight(u)' = Flight(u)
  <2>1. ASSUME NEW d \in Flight(u) PROVE d \in Flight(u)'
    <3>1. d \in Present /\ node[d].parent = u /\ Held(d) BY DEF Flight, Graph
    <3>2. d # a BY <1>25, <3>1, TaskFacts
    <3>3. d \in Task \ G BY <1>8, <1>19, <3>1, <3>2
    <3>4. d \in Present' /\ node'[d].parent = u /\ Held(d)' BY <1>8, <1>19, <1>24, <3>1, <3>3
    <3> QED BY <3>4 DEF Flight, Graph
  <2>2. ASSUME NEW d \in Flight(u)' PROVE d \in Flight(u)
    <3>1. d \in Present' /\ node'[d].parent = u /\ Held(d)' BY DEF Flight, Graph
    <3>2. d \in Task \ G /\ d \in Present BY <1>19, <3>1
    <3>3. node[d].parent = u /\ Held(d) BY <1>8, <1>24, <3>1, <3>2
    <3> QED BY <3>2, <3>3 DEF Flight, Graph
  <2> QED BY <2>1, <2>2
<1>27. \A u \in Present : Held(u) => Ancestors(u)' = Ancestors(u)
  <2>1. \A u \in Present : Held(u) => node'[u].parent = node[u].parent
    BY <1>8, <1>19, <1>25 DEF Absent
  <2> QED BY <2>1, AncestorsHeld
<1>28. Single' BY <1>0, <1>18 DEF Placed, Single
<1>29. Forest'
  <2>1. Preempted(a)' => Preempted(a) BY <1>8, <1>23 DEF Preempted, Absent
  <2>2. \A u \in G : scheduled'[u] = 0 BY <1>4, <1>8
  <2>3. \A u \in Task : scheduled'[u] # 0 => scheduled[u] # 0 BY <1>4
  <2> QED BY <1>5, <1>8, <2>1, <2>2, <2>3, ForestKept
<1>30. ASSUME NEW s \in Slots' PROVE Says(s)'
  <2>1. s \in Slots /\ s # top BY <1>17
  <2>2. PICK u : u = At(s).node OBVIOUS
  <2>3. u \in Present /\ Held(u) /\ scheduled[u] = 0 /\ u # a BY <1>20, <2>1, <2>2, HeldFacts
  <2>4. u \in Task \ G BY <1>8, <1>19, <2>3
  <2>5. u \in Present' /\ scheduled'[u] = 0 /\ node'[u] = node[u] /\ Ancestors(u)' = Ancestors(u)
        /\ (Preempted(u)' <=> Preempted(u)) BY <1>4, <1>8, <1>19, <1>22, <1>27, <2>3, <2>4
  <2>6. CASE s = bel /\ At(s)' = f
    <3>1. u = t BY <1>12, <1>13, <2>2, <2>6
    <3>2. t \in Ancestors(t) BY <1>14, AncestorFacts
    <3> QED BY <1>14, <1>15, <2>5, <2>6, <3>1, <3>2 DEF Says
  <2>7. CASE At(s)' = At(s)
    <3>1. ASSUME At(s).pc = "count" PROVE Preempted(At(s).at)' <=> Preempted(At(s).at)
      <4>1. Says(s) BY <1>0, <2>1 DEF Placed
      <4>2. At(s).at = node[u].parent /\ node[u].parent # NoTask BY <2>2, <3>1, <4>1 DEF Says
      <4>3. PICK p : p = node[u].parent OBVIOUS
      <4>4. p \in Present /\ Held(p) /\ u \in Flight(p) BY <2>3, <4>2, <4>3, HeldFacts
      <4>5. p # a BY <1>6, <4>4
      <4>6. p \in Task \ G BY <1>8, <1>19, <4>4, <4>5
      <4>7. Preempted(p)' <=> Preempted(p) BY <1>22, <4>6
      <4>8. At(s)'.at = p /\ At(s).at = p BY <2>7, <4>2, <4>3
      <4> QED BY <2>7, <4>7, <4>8
    <3> QED BY <2>1, <2>2, <2>5, <2>7, <3>1, SaysKept
  <2> QED BY <1>17, <2>6, <2>7
<1>31. ASSUME NEW u \in Present', scheduled'[u] # 0 PROVE Queued(u)'
  <2>1. u \in Task \ G /\ u \in Present /\ scheduled[u] # 0 BY <1>4, <1>19, <1>31
  <2>2. Queued(u) BY <1>0, <2>1 DEF Placed
  <2> QED BY <1>4, <1>21, <1>22, <2>1, <2>2 DEF Queued
<1>32. ASSUME NEW u \in Present' PROVE node'[u].join = Cardinality(Flight(u)')
  <2>1. u \in Task \ G /\ u \in Present BY <1>19
  <2>2. node[u].join = Cardinality(Flight(u)) BY <1>0, <2>1 DEF Placed
  <2> QED BY <1>8, <1>26, <2>1, <2>2
<1>33. ASSUME NEW u \in Present', Flight(u)' # {} PROVE Awaits(u)'
  <2>1. u \in Task \ G /\ u \in Present /\ Flight(u) # {} BY <1>19, <1>26, <1>33
  <2>2. Awaits(u) /\ u # a BY <1>0, <1>23, <2>1 DEF Placed
  <2>3. CASE Preempted(u) /\ ~Running1(u) BY <1>21, <1>22, <2>1, <2>3 DEF Awaits
  <2>4. ASSUME NEW s \in Slots, At(s).node = u, At(s).pc = "join" PROVE Awaits(u)'
    <3>1. s # top /\ s # bel BY <1>11, <2>2, <2>4
    <3>2. s \in Slots' /\ At(s)' = At(s) BY <1>17, <3>1
    <3> QED BY <2>4, <3>2 DEF Awaits
  <2> QED BY <2>2, <2>3, <2>4 DEF Awaits
<1>34. Placed' BY <1>17, <1>28, <1>29, <1>30, <1>31, <1>32, <1>33 DEF Placed
<1>35. reported' \in BOOLEAN
  <2>1. node[a] \in NodeType /\ reported \in BOOLEAN BY <1>0, <1>5 DEF Typed
  <2> QED BY <1>4
<1> QED BY <1>0, <1>4, <1>8, <1>17, <1>34, <1>35 DEF IInv, Typed

-----------------------------------------------------------------------------
(* The invariant *)

\* At first the root is scheduled, and there is nothing else.
LEMMA InitPlaced == SubflowAssumption /\ Init => IInv
<1> SUFFICES ASSUME SubflowAssumption, Init PROVE IInv OBVIOUS
<1>1. Root \in Task /\ NoTask \notin Task BY ConstantFacts
<1>2. PICK r : r = Made("subflow", NoTask) OBVIOUS
<1>3. /\ r \in NodeType /\ r.kind = "subflow" /\ r.parent = NoTask /\ r.nstate = {} /\ r.join = 0
  BY <1>2 DEF Made, Absent, NodeType, Nodes
<1>4. Absent \in NodeType /\ Absent.kind = "none" /\ Absent.nstate = {}
  <2>1. "none" \in {"none", "static", "subflow", "anchor"} /\ NoTask \in Nodes /\ 0 \in Nat /\ FALSE \in BOOLEAN
    BY DEF Nodes
  <2> QED BY <2>1 DEF Absent, NodeType
<1>5. node = [t \in Task |-> IF t = Root THEN r ELSE Absent] BY <1>2 DEF Init
<1>6. node \in [Task -> NodeType] /\ node[Root] = r /\ \A t \in Task \ {Root} : node[t] = Absent
  BY <1>1, <1>3, <1>4, <1>5
<1>7. /\ scheduled \in [Task -> Nat] /\ scheduled[Root] = 1 /\ \A t \in Task \ {Root} : scheduled[t] = 0
  BY <1>1 DEF Init
<1>8. stack = [w \in Worker |-> <<>>] /\ stack \in [Worker -> Seq(FrameType)] BY DEF Init
<1>9. topology \in [estate : SUBSET Flags, eptr : BOOLEAN] BY DEF Init
<1>10. Typed BY <1>6, <1>7, <1>8, <1>9 DEF Init, Typed
<1>11. Slots = {} BY <1>8 DEF Slots
<1>12. Present = {Root} /\ Free = Task \ {Root}
  <2>1. Present = {Root} BY <1>1, <1>3, <1>4, <1>6 DEF Present
  <2> QED BY <2>1 DEF Free
<1>13. \A t \in Task : Graph(t) = {} BY <1>1, <1>3, <1>6, <1>12 DEF Graph
<1>14. \A t \in Task : ~Preempted(t) BY <1>3, <1>4, <1>6 DEF Preempted
<1>15. Single /\ Stacked /\ \A s \in Slots : Says(s) BY <1>11 DEF Single, Stacked
<1>16. Forest BY <1>3, <1>6, <1>7, <1>12 DEF Forest
<1>17. Queued(Root) BY <1>1, <1>7, <1>11, <1>14 DEF Queued, Running1
<1>18. \A t \in Present : Flight(t) = {} BY <1>1, <1>12, <1>13 DEF Flight
<1>19. \A t \in Present : node[t].join = Cardinality(Flight(t)) BY <1>3, <1>6, <1>12, <1>18, FS_EmptySet
<1>20. Placed BY <1>12, <1>15, <1>16, <1>17, <1>18, <1>19 DEF Placed
<1> QED BY <1>10, <1>20 DEF IInv

\* Every step keeps the invariant.
LEMMA NextPlaced == IInv /\ [Next]_subflowVars => IInv'
<1> SUFFICES ASSUME IInv, [Next]_subflowVars PROVE IInv' OBVIOUS
<1>1. CASE UNCHANGED subflowVars
  <2>1. UNCHANGED <<node, stack, scheduled, topology, round, threw, reported>> BY <1>1 DEF subflowVars
  <2>2. Root \in Task BY TaskFacts
  <2>3. /\ Shape(Root, {}) /\ Gone({}) /\ node' \in [Task -> NodeType]
        /\ (\A u \in Task : node'[u].join = node[u].join) /\ (Preempted(Root)' <=> Preempted(Root))
    BY <2>1, NoNode
  <2>4. Placed' BY <2>1, <2>2, <2>3, StillPlaced
  <2> QED BY <2>1, <2>4 DEF IInv, Typed
<1>2. CASE Cancel BY <1>2, CancelPlaced
<1>3. ASSUME NEW w \in Worker, Step(w) PROVE IInv'
  <2>1. CASE \E t \in Task : Take(w, t) BY <2>1, TakePlaced
  <2>2. CASE Resume(w) \/ Skip(w) \/ Call(w) BY <2>2, ResumePlaced, SkipPlaced, CallPlaced
  <2>3. CASE Callable(w)
    <3>1. CASE \E k \in {"static", "subflow"} : Emplace(w, k) BY <3>1, EmplacePlaced
    <3>2. CASE Corun(w, "static") BY <3>2, CorunPlaced
    <3>3. CASE Retain(w) \/ JoinEmpty(w) \/ Join(w) BY <3>3, RetainPlaced, JoinEmptyPlaced, JoinPlaced
    <3>4. CASE Throw(w) \/ Return(w) BY <3>4, ThrowPlaced, ReturnPlaced
    <3> QED BY <2>3, <3>1, <3>2, <3>3, <3>4 DEF Callable
  <2>4. CASE JoinReturns(w) \/ CorunReturns(w) BY <2>4, JoinReturnsPlaced, CorunReturnsPlaced
  <2>5. CASE RaisePass(w) \/ RaiseAnchor(w) \/ RaiseTopology(w) \/ Store(w)
    BY <2>5, RaisePassPlaced, RaiseAnchorPlaced, RaiseTopologyPlaced, StorePlaced
  <2>6. CASE Preempt(w) \/ Leave(w) \/ Over(w) BY <2>6, PreemptPlaced, LeavePlaced, OverPlaced
  <2>7. CASE ReadParent(w) \/ CountParent(w) BY <2>7, ReadParentPlaced, CountParentPlaced
  <2>8. CASE Repeat(w) \/ Finish(w) BY <2>8, RepeatPlaced, FinishPlaced
  <2> QED BY <1>3, <2>1, <2>2, <2>3, <2>4, <2>5, <2>6, <2>7, <2>8 DEF Step
<1> QED BY <1>1, <1>2, <1>3 DEF Next

\* The nodes, their counters and what the executor has in hand agree at all times (see
\* Typed and Placed).
THEOREM SubflowPlaced == SubflowAssumption => (Spec => []IInv)
<1>1. SubflowAssumption /\ Init => IInv BY InitPlaced
<1>2. IInv /\ [Next]_subflowVars => IInv' BY NextPlaced
<1> QED BY <1>1, <1>2, PTL DEF Spec

\* Places by their height and by their index.
LEMMA FramesAndSlots ==
    ASSUME Typed
    PROVE  /\ \A g \in Frames : \E s \in Slots : /\ At(s) = FrameOf(g)
                                                 /\ g = <<s[1], Len(stack[s[1]]) + 1 - s[2]>>
           /\ \A s \in Slots : \E g \in Frames : FrameOf(g) = At(s)
<1>1. ASSUME NEW g \in Frames
      PROVE  \E s \in Slots : /\ At(s) = FrameOf(g) /\ g = <<s[1], Len(stack[s[1]]) + 1 - s[2]>>
  <2>1. PICK w \in Worker : \E j \in DOMAIN stack[w] : g = <<w, j>> BY DEF Frames
  <2>2. PICK i \in DOMAIN stack[w] : g = <<w, i>> BY <2>1
  <2>3. stack[w] \in Seq(FrameType) BY DEF Typed
  <2>4. Len(stack[w]) \in Nat /\ i \in 1 .. Len(stack[w]) BY <2>2, <2>3
  <2>5. PICK d \in 1 .. Len(stack[w]) : d = Len(stack[w]) + 1 - i BY <2>4
  <2>6. Len(stack[w]) + 1 - d = i BY <2>4, <2>5
  <2>7. <<w, d>> \in Slots BY DEF Slots
  <2>8. At(<<w, d>>) = stack[w][i] BY <2>6 DEF At
  <2> QED BY <2>2, <2>6, <2>7, <2>8 DEF FrameOf
<1>2. ASSUME NEW s \in Slots PROVE \E g \in Frames : FrameOf(g) = At(s)
  <2>1. PICK w \in Worker : \E e \in 1 .. Len(stack[w]) : s = <<w, e>> BY DEF Slots
  <2>2. PICK d \in 1 .. Len(stack[w]) : s = <<w, d>> BY <2>1
  <2>3. stack[w] \in Seq(FrameType) /\ Len(stack[w]) \in Nat BY DEF Typed
  <2>4. PICK i \in DOMAIN stack[w] : i = Len(stack[w]) + 1 - d BY <2>3
  <2>5. <<w, i>> \in Frames BY DEF Frames
  <2>6. FrameOf(<<w, i>>) = At(s) BY <2>2, <2>4 DEF FrameOf, At
  <2> QED BY <2>5, <2>6
<1> QED BY <1>1, <1>2

\* A task is invoked once at most.
LEMMA InvokedOnce ==
    ASSUME IInv, NEW t \in Task
    PROVE  /\ Invoked(t) = {} <=> ~Running1(t)
           /\ Cardinality(Invoked(t)) \in {0, 1}
           /\ Cardinality(Invoked(t)) = 1 <=> Running1(t)
<1>0. Typed /\ Single BY DEF IInv, Placed
<1>1. ASSUME NEW g \in Frames, NEW h \in Frames, FrameOf(g).node = FrameOf(h).node PROVE g = h
  <2>1. PICK s \in Slots : At(s) = FrameOf(g) /\ g = <<s[1], Len(stack[s[1]]) + 1 - s[2]>>
    BY <1>0, FramesAndSlots
  <2>2. PICK u \in Slots : At(u) = FrameOf(h) /\ h = <<u[1], Len(stack[u[1]]) + 1 - u[2]>>
    BY <1>0, FramesAndSlots
  <2>3. s = u BY <1>0, <1>1, <2>1, <2>2 DEF Single
  <2> QED BY <2>1, <2>2, <2>3
<1>2. ASSUME Running1(t) PROVE \E g : Invoked(t) = {g}
  <2>1. PICK s \in Slots : At(s).node = t BY <1>2 DEF Running1
  <2>2. PICK g \in Frames : FrameOf(g) = At(s) BY <1>0, FramesAndSlots
  <2>3. g \in Invoked(t) BY <2>1, <2>2 DEF Invoked
  <2>4. \A h \in Invoked(t) : h = g BY <1>1, <2>1, <2>2 DEF Invoked
  <2> QED BY <2>3, <2>4
<1>3. ASSUME ~Running1(t) PROVE Invoked(t) = {}
  <2>1. ASSUME NEW g \in Invoked(t) PROVE FALSE
    <3>1. g \in Frames /\ FrameOf(g).node = t BY DEF Invoked
    <3>2. PICK s \in Slots : At(s) = FrameOf(g) BY <1>0, <3>1, FramesAndSlots
    <3> QED BY <1>3, <3>1, <3>2 DEF Running1
  <2> QED BY <2>1
<1>4. CASE Running1(t)
  <2>1. PICK g : Invoked(t) = {g} BY <1>2, <1>4
  <2>2. Cardinality({g}) = 1 BY FS_Singleton
  <2> QED BY <1>4, <2>1, <2>2
<1>5. CASE ~Running1(t) BY <1>3, <1>5, FS_EmptySet
<1> QED BY <1>4, <1>5

\* A task is in one place, what the executor has in hand is still there, and the counters
\* are exact.
LEMMA PlacedConsistent == IInv => Consistent
<1> SUFFICES ASSUME IInv PROVE Consistent OBVIOUS
<1>0. Typed /\ Placed BY DEF IInv
<1>1. ASSUME NEW t \in Task PROVE scheduled[t] + Cardinality(Invoked(t)) <= 1
  <2>1. Cardinality(Invoked(t)) \in {0, 1} /\ (Cardinality(Invoked(t)) = 1 <=> Running1(t)) BY InvokedOnce
  <2>2. scheduled[t] # 0 => scheduled[t] = 1 /\ ~Running1(t)
    <3>1. ASSUME scheduled[t] # 0 PROVE Queued(t) BY <3>1, HeldFacts
    <3> QED BY <3>1 DEF Queued
  <2> QED BY <2>1, <2>2
<1>2. ASSUME NEW t \in Free PROVE scheduled[t] = 0 /\ \A f \in Frames : t \notin {FrameOf(f).node, FrameOf(f).at}
  <2>1. t \in Task /\ t \notin Present /\ scheduled[t] = 0 BY <1>0, <1>2 DEF Placed, Forest, Free
  <2>2. ASSUME NEW f \in Frames PROVE t # FrameOf(f).node /\ t # FrameOf(f).at
    <3>1. PICK s \in Slots : At(s) = FrameOf(f) BY <1>0, FramesAndSlots
    <3>2. PICK u : u = At(s).node OBVIOUS
    <3>3. u \in Present /\ Held(u) BY <3>2, HeldFacts
    <3>4. \A a \in Ancestors(u) : a \in Present BY <3>3, HeldClosed
    <3>5. At(s).at \in Ancestors(u) \cup {NoTask} BY <1>0, <3>2 DEF Placed, Says
    <3>6. t # NoTask BY <2>1, TaskFacts
    <3> QED BY <2>1, <3>1, <3>2, <3>3, <3>4, <3>5, <3>6
  <2> QED BY <2>1, <2>2
<1>3. InOnePlace BY <1>1, <1>2 DEF InOnePlace
<1>4. ASSUME NEW t \in Present PROVE node[t].join = Cardinality({c \in Graph(t) : InFlight(c)})
  <2>1. \A c \in Graph(t) : InFlight(c) <=> Held(c)
    <3>1. ASSUME NEW c \in Graph(t) PROVE InFlight(c) <=> Held(c)
      <4>1. c \in Task BY DEF Graph, Present
      <4>2. Invoked(c) # {} <=> Running1(c) BY <4>1, InvokedOnce
      <4> QED BY <4>2 DEF InFlight, Held, Preempted
    <3> QED BY <3>1
  <2>2. {c \in Graph(t) : InFlight(c)} = Flight(t) BY <2>1 DEF Flight
  <2> QED BY <1>0, <2>2 DEF Placed
<1> QED BY <1>3, <1>4 DEF Consistent, JoinExact

\* No task is scheduled or invoked twice at a time, and a join counter is the number of
\* tasks of the graph that are still in hand (_schedule_graph_with_parent, _tear_down_nonasync).
THEOREM SubflowConsistent == SubflowAssumption => (Spec => []Consistent)
<1>1. IInv => Consistent BY PlacedConsistent
<1> QED BY <1>1, SubflowPlaced, PTL

-----------------------------------------------------------------------------
(* A graph is run once *)

\* A step that keeps the nodes K.  The nodes T are looked at on their own: those that are
\* new, those that are set up again, R, below which nothing is left, and those at work.
Mild(K, T, R) ==
    /\ K \subseteq Present /\ Closed(K) /\ R \subseteq T \cap K
    /\ \A u \in K : node'[u].kind = node[u].kind /\ node'[u].parent = node[u].parent
    /\ \A u \in K \ R : "CANCELLED" \in node[u].estate => "CANCELLED" \in node'[u].estate
    /\ "CANCELLED" \in topology.estate => "CANCELLED" \in topology'.estate
    /\ \A u \in K \ T : /\ node'[u].ran = node[u].ran
                        /\ "JOINED" \in node'[u].nstate <=> "JOINED" \in node[u].nstate
                        /\ Preempted(u)' <=> Preempted(u)
                        /\ node'[u].eptr => node[u].eptr \/ "CANCELLED" \in node'[u].estate
    /\ \A v \in R : Flight(v) = {}
    /\ \A u \in Present' \ K : u \in T /\ node'[u].parent \in T \cup {NoTask}

\* What a step of this kind keeps of the nodes K.
LEMMA MildKept ==
    ASSUME IInv, NEW K, NEW T, NEW R, Mild(K, T, R)
    PROVE  /\ \A u \in K : node[u].parent \notin R =>
                 /\ IsCancelled(u) => IsCancelled(u)'
                 /\ node'[u].ran = node[u].ran => (Done(u) => Done(u)') /\ (Fresh(u) => Fresh(u)')
           /\ \A u \in Present : Held(u) /\ u \notin R => \A a \in Ancestors(u) : a \notin R
           /\ \A u \in Present : Held(u) => node[u].parent \notin R
           /\ \A u \in Present' \ T : Graph(u)' \subseteq Graph(u) \cap K /\ u \in K
           /\ \A u \in K : Graph(u) \cap K \subseteq Graph(u)'
<1>0. Typed /\ Placed BY DEF IInv
<1>1. K \subseteq Task /\ Present \subseteq Task BY DEF Mild, Present
<1>2. \A u \in K : Ancestors(u)' = Ancestors(u) BY AncestorsKept DEF Mild
<1>3. ASSUME NEW u \in K, node[u].parent \notin R PROVE IsCancelled(u) => IsCancelled(u)'
  <2>1. InTopology(u)' <=> InTopology(u) BY <1>2 DEF InTopology, Root
  <2>2. node'[u].parent = node[u].parent BY DEF Mild
  <2>3. node[u].parent # NoTask => node[u].parent \in K BY DEF Mild, Closed
  <2>4. node[u].parent # NoTask /\ "CANCELLED" \in node[node[u].parent].estate
          => "CANCELLED" \in node'[node[u].parent].estate BY <1>3, <2>3 DEF Mild
  <2>5. "CANCELLED" \in topology.estate => "CANCELLED" \in topology'.estate BY DEF Mild
  <2> QED BY <2>1, <2>2, <2>4, <2>5 DEF IsCancelled
<1>4. ASSUME NEW u \in Present, Held(u), u \notin R, NEW a \in Ancestors(u) PROVE a \notin R
  <2>1. SUFFICES ASSUME a \in R PROVE FALSE OBVIOUS
  <2>2. a \in Present /\ Flight(a) = {} BY <2>1 DEF Mild
  <2>3. u \in Descendants(a) BY <1>4, <2>1 DEF Descendants
  <2> QED BY <1>4, <2>2, <2>3, NothingBelow
<1>5. ASSUME NEW u \in Present, Held(u) PROVE node[u].parent \notin R
  <2>1. SUFFICES ASSUME node[u].parent \in R PROVE FALSE OBVIOUS
  <2>2. node[u].parent \in Task BY <1>1, <2>1 DEF Mild
  <2>3. u \in Flight(node[u].parent) BY <1>5, <2>2, HeldFacts, TaskFacts
  <2> QED BY <2>1, <2>3 DEF Mild
<1>6. ASSUME NEW u \in Present' \ T PROVE Graph(u)' \subseteq Graph(u) \cap K /\ u \in K
  <2>1. u \in K BY DEF Mild
  <2>2. ASSUME NEW c \in Graph(u)' PROVE c \in Graph(u) \cap K
    <3>1. c \in Present' /\ node'[c].parent = u BY DEF Graph
    <3>2. c \in K
      <4>1. u # NoTask BY <1>1, <2>1, TaskFacts
      <4> QED BY <3>1, <4>1 DEF Mild
    <3> QED BY <3>1, <3>2 DEF Mild, Graph
  <2> QED BY <2>1, <2>2
<1>7. ASSUME NEW u \in K, NEW c \in Graph(u) \cap K PROVE c \in Graph(u)'
  <2>1. c \in Task /\ node[c].kind # "none" /\ node[c].parent = u BY DEF Graph, Present
  <2>2. node'[c].kind # "none" /\ node'[c].parent = u BY <2>1 DEF Mild
  <2> QED BY <2>1, <2>2 DEF Graph, Present
<1>8. ASSUME NEW u \in K, node[u].parent \notin R, node'[u].ran = node[u].ran
      PROVE  (Done(u) => Done(u)') /\ (Fresh(u) => Fresh(u)') BY <1>3, <1>8 DEF Done, Fresh
<1> QED BY <1>3, <1>4, <1>5, <1>6, <1>7, <1>8

\* What is left to show of a step: what it does to the nodes T and the frames F.
LEMMA OnceKept ==
    ASSUME IInv, Once, NEW K, NEW T, NEW R, Mild(K, T, R), NEW F,
           \A c \in T \cap K : node[c].parent \in T \cup {NoTask} \/ (Held(c) /\ Done(c)'),
           \A u \in K \ T : /\ scheduled'[u] # 0 => scheduled[u] # 0
                            /\ Held(u) => Held(u)' \/ Done(u)',
           \A s \in Slots' \ F : s \in Slots /\ At(s)' = At(s) /\ At(s).node \in K \ T /\ At(s).at \in K \cup {NoTask},
           \A t \in T \cap Present' : NodeOnce(t)',
           \A s \in F \cap Slots' : FrameOnce(s)'
    PROVE  Once'
<1>0. Typed /\ Placed BY DEF IInv
<1>1. /\ \A u \in K : node[u].parent \notin R =>
            /\ IsCancelled(u) => IsCancelled(u)'
            /\ node'[u].ran = node[u].ran => (Done(u) => Done(u)') /\ (Fresh(u) => Fresh(u)')
      /\ \A u \in Present : Held(u) /\ u \notin R => \A a \in Ancestors(u) : a \notin R
      /\ \A u \in Present : Held(u) => node[u].parent \notin R
      /\ \A u \in Present' \ T : Graph(u)' \subseteq Graph(u) \cap K /\ u \in K BY MildKept
<1>2. K \subseteq Present /\ R \subseteq T BY DEF Mild
<1>3. \A u \in K \ T : Held(u) => (Done(u) => Done(u)') /\ (Fresh(u) => Fresh(u)')
  BY <1>1, <1>2 DEF Mild
<1>4. ASSUME NEW u \in K \ T, NEW c \in Graph(u)'
      PROVE  /\ c \in Graph(u) \cap K
             /\ Done(c) => Done(c)'
             /\ c \notin T => (Fresh(c) => Fresh(c)')
             /\ c \in T => Held(c) /\ Done(c)'
  <2>1. u \in Task BY <1>2 DEF Present
  <2>2. u \in Present' BY <2>1, <1>2 DEF Mild, Present
  <2>3. c \in Graph(u) \cap K BY <1>1, <2>2
  <2>4. node[c].parent = u /\ u # NoTask BY <2>1, <2>3, TaskFacts DEF Graph
  <2>5. c \in T => Held(c) /\ Done(c)' BY <2>3, <2>4
  <2>6. c \notin T => (Done(c) => Done(c)') /\ (Fresh(c) => Fresh(c)')
    BY <1>1, <1>2, <2>3, <2>4 DEF Mild
  <2> QED BY <2>3, <2>5, <2>6
<1>5. ASSUME NEW u \in Present' PROVE NodeOnce(u)'
  <2>1. SUFFICES ASSUME u \notin T PROVE NodeOnce(u)' OBVIOUS
  <2>2. u \in K \ T /\ u \in Present /\ NodeOnce(u) BY <1>1, <1>2, <2>1 DEF Once
  <2>3. node'[u].ran <= 1 BY <2>2 DEF Mild, NodeOnce
  <2>4. ASSUME scheduled'[u] # 0 PROVE Fresh(u)'
    <3>1. scheduled[u] # 0 BY <2>2, <2>4
    <3>2. Held(u) BY <2>2, <3>1, HeldFacts DEF Present
    <3> QED BY <1>3, <2>2, <3>1, <3>2 DEF NodeOnce
  <2>5. ASSUME "JOINED" \in node'[u].nstate, NEW c \in Graph(u)' PROVE Done(c)'
    <3>1. "JOINED" \in node[u].nstate BY <2>2, <2>5 DEF Mild
    <3>2. c \in Graph(u) /\ (Done(c) => Done(c)') BY <1>4, <2>2
    <3> QED BY <2>2, <3>1, <3>2 DEF NodeOnce
  <2>6. ASSUME Preempted(u)' PROVE Done(u)'
    <3>1. Preempted(u) BY <2>2, <2>6 DEF Mild
    <3> QED BY <1>3, <2>2, <3>1 DEF NodeOnce, Held
  <2>7. node'[u].eptr => "CANCELLED" \in node'[u].estate BY <1>2, <2>2 DEF Mild, NodeOnce
  <2> QED BY <2>3, <2>4, <2>5, <2>6, <2>7 DEF NodeOnce
<1>6. ASSUME NEW s \in Slots' PROVE FrameOnce(s)'
  <2>1. SUFFICES ASSUME s \notin F PROVE FrameOnce(s)' OBVIOUS
  <2>2. s \in Slots /\ At(s)' = At(s) /\ At(s).at \in K \cup {NoTask} /\ FrameOnce(s) /\ Says(s)
    BY <1>0, <2>1 DEF Once, Placed
  <2>3. PICK u : u = At(s).node OBVIOUS
  <2>4. u \in K \ T /\ Held(u) /\ u \in Present /\ u \notin R BY <1>2, <2>1, <2>2, <2>3, HeldFacts
  <2>5. /\ node'[u].kind = node[u].kind /\ (Preempted(u)' <=> Preempted(u))
        /\ "JOINED" \in node'[u].nstate <=> "JOINED" \in node[u].nstate BY <2>4 DEF Mild
  <2>6. At(s).pc = "begin" /\ ~Preempted(u)' => Fresh(u)' BY <1>3, <2>2, <2>3, <2>4, <2>5 DEF FrameOnce
  <2>7. At(s).pc # "begin" /\ node'[u].kind # "anchor" => Done(u)'
    BY <1>3, <2>2, <2>3, <2>4, <2>5 DEF FrameOnce
  <2>8. ASSUME At(s).pc \in {"work", "raise", "store", "leave"}, "JOINED" \notin node'[u].nstate,
               NEW c \in Graph(u)'
        PROVE  Fresh(c)'
    <3>1. c \in Graph(u) /\ Fresh(c) BY <1>4, <2>2, <2>3, <2>4, <2>5, <2>8 DEF FrameOnce
    <3>2. c \notin T
      <4>1. SUFFICES ASSUME c \in T PROVE FALSE OBVIOUS
      <4>2. c \in Flight(u) BY <1>4, <2>4, <3>1, <4>1 DEF Flight
      <4> QED BY <2>2, <2>3, <2>8, <4>2, HeldFacts
    <3> QED BY <1>4, <2>4, <3>1, <3>2
  <2>9. ASSUME At(s).pc = "join", node'[u].kind = "subflow"
        PROVE  "JOINED" \notin node'[u].nstate /\ \A c \in Graph(u)' : Held(c)' \/ Done(c)'
    <3>1. "JOINED" \notin node[u].nstate /\ \A c \in Graph(u) : Held(c) \/ Done(c)
      BY <2>2, <2>3, <2>5, <2>9 DEF FrameOnce
    <3>2. ASSUME NEW c \in Graph(u)' PROVE Held(c)' \/ Done(c)'
      <4>1. CASE c \in T BY <1>4, <2>4, <4>1
      <4>2. CASE c \notin T
        <5>1. c \in Graph(u) /\ c \in K \ T /\ (Done(c) => Done(c)') BY <1>4, <2>4, <4>2
        <5> QED BY <3>1, <5>1
      <4> QED BY <4>1, <4>2
    <3> QED BY <2>5, <3>1, <3>2
  <2>10. ASSUME At(s).pc = "raise" PROVE At(s).at = u \/ "CANCELLED" \in node'[u].estate
    BY <2>2, <2>3, <2>4, <2>10 DEF FrameOnce, Mild
  <2>11. ASSUME At(s).pc = "store" PROVE "CANCELLED" \in node'[At(s).at].estate
    <3>1. PICK a : a = At(s).at OBVIOUS
    <3>2. "CANCELLED" \in node[a].estate BY <2>2, <2>11, <3>1 DEF FrameOnce
    <3>3. a # NoTask /\ a \in K /\ a \in Ancestors(u) BY <2>2, <2>3, <2>11, <3>1 DEF Says
    <3>4. a \notin R BY <1>1, <2>4, <3>3
    <3> QED BY <3>1, <3>2, <3>3, <3>4 DEF Mild
  <2>12. At(s)'.node = u BY <2>2, <2>3
  <2> QED BY <2>2, <2>3, <2>6, <2>7, <2>8, <2>9, <2>10, <2>11, <2>12 DEF FrameOnce
<1> QED BY <1>5, <1>6 DEF Once

\* What is known of a worker at a place of the code.
LEMMA OnceRunning ==
    ASSUME IInv, Once, NEW w \in Worker, NEW x, Running(w, x), NEW t, t = Top(w).node
    PROVE  /\ node[t].ran <= 1
           /\ "JOINED" \in node[t].nstate => \A c \in Graph(t) : Done(c)
           /\ Preempted(t) => Done(t)
           /\ node[t].eptr => "CANCELLED" \in node[t].estate
           /\ x = "begin" /\ ~Preempted(t) => Fresh(t)
           /\ x # "begin" /\ node[t].kind # "anchor" => Done(t)
           /\ x \in {"work", "raise", "store", "leave"} /\ "JOINED" \notin node[t].nstate =>
                 \A c \in Graph(t) : Fresh(c)
           /\ x = "join" /\ node[t].kind = "subflow" =>
                 "JOINED" \notin node[t].nstate /\ \A c \in Graph(t) : Held(c) \/ Done(c)
           /\ x = "raise" => Top(w).at = t \/ "CANCELLED" \in node[t].estate
           /\ x = "store" => "CANCELLED" \in node[Top(w).at].estate
<1>1. t \in Present /\ TopSlot(w) \in Slots /\ At(TopSlot(w)) = Top(w) /\ Top(w).pc = x
  BY RunningFacts DEF Running, Invocation
<1>2. NodeOnce(t) /\ FrameOnce(TopSlot(w)) BY <1>1 DEF Once
<1>3. PICK f : f = Top(w) OBVIOUS
<1>4. At(TopSlot(w)) = f /\ f.node = t /\ f.pc = x BY <1>1, <1>3
<1> QED BY <1>2, <1>3, <1>4 DEF NodeOnce, FrameOnce

\* A worker goes on inside of an invocation.
LEMMA OnceLocal ==
    ASSUME IInv, Once, NEW w \in Worker, NEW x, Running(w, x), NEW f, Changed(w, f),
           NEW t, t = Top(w).node, f.node = t, f.pc \notin {"begin", "join"}, UNCHANGED scheduled,
           Flight(t) = {}, ~Preempted(t)',
           NEW G, Gone(G), Shape(t, G), \A u \in G : ~Held(u),
           \A u \in Present \ G : "CANCELLED" \in node[u].estate => "CANCELLED" \in node'[u].estate,
           "CANCELLED" \in topology.estate => "CANCELLED" \in topology'.estate,
           \A u \in Present \ (G \cup {t}) :
               /\ node'[u].ran = node[u].ran
               /\ "JOINED" \in node'[u].nstate <=> "JOINED" \in node[u].nstate
               /\ node'[u].eptr => node[u].eptr \/ "CANCELLED" \in node'[u].estate,
           node'[t].ran = 1 \/ (node'[t].ran = node[t].ran /\ Done(t)),
           "JOINED" \in node'[t].nstate => \A c \in Graph(t) \ (G \cup {t}) : Done(c),
           node'[t].eptr => "CANCELLED" \in node'[t].estate,
           f.pc \in {"work", "raise", "store", "leave"} /\ "JOINED" \notin node'[t].nstate =>
               \A c \in Graph(t) \ (G \cup {t}) : Fresh(c),
           f.pc = "raise" => f.at = t \/ "CANCELLED" \in node'[t].estate,
           f.pc = "store" => "CANCELLED" \in node'[f.at].estate
    PROVE  Once'
<1>0. Typed /\ Placed BY DEF IInv
<1>1. t \in Task /\ t \in Present /\ Held(t) /\ scheduled[t] = 0 /\ TopSlot(w) \in Slots /\ At(TopSlot(w)) = Top(w)
  BY RunningFacts DEF Running, Invocation
<1>2. PICK top : top = TopSlot(w) OBVIOUS
<1>3. /\ Slots' = Slots /\ top \in Slots /\ At(top).node = t /\ At(top)' = f
      /\ \A u \in Slots \ {top} : At(u)' = At(u) BY <1>1, <1>2 DEF Changed
<1>4. PICK K : K = Present \ G OBVIOUS
<1>5. PICK T : T = {t} OBVIOUS
<1>6. Present' = K /\ K \subseteq Present /\ Present \subseteq Task /\ t \in K BY <1>1, <1>4, ShapePresent
<1>7. \A u \in Task \ G : node'[u].kind = node[u].kind /\ node'[u].parent = node[u].parent BY DEF Shape
<1>8. \A u \in K \ T : Preempted(u)' <=> Preempted(u) BY <1>4, <1>5, <1>6 DEF Shape
<1>9. Mild(K, T, {})
  <2>1. Closed(K) BY <1>4 DEF Gone
  <2>2. \A u \in K : node'[u].kind = node[u].kind /\ node'[u].parent = node[u].parent BY <1>4, <1>6, <1>7
  <2> QED BY <1>4, <1>5, <1>6, <1>8, <2>1, <2>2 DEF Mild
<1>10. /\ \A u \in K : /\ IsCancelled(u) => IsCancelled(u)'
                       /\ node'[u].ran = node[u].ran => (Done(u) => Done(u)') /\ (Fresh(u) => Fresh(u)')
  BY <1>9, MildKept
<1>11. Done(t)' BY <1>6, <1>10 DEF Done
<1>12. t \notin Graph(t) BY <1>1 DEF Flight
<1>13. ASSUME NEW c \in Graph(t)'
       PROVE  c \in Graph(t) \ (G \cup {t}) /\ (Done(c) => Done(c)') /\ (Fresh(c) => Fresh(c)')
  <2>1. c \in K /\ node'[c].parent = t BY <1>6 DEF Graph
  <2>2. c \in Graph(t) /\ c \notin G BY <1>4, <1>6, <1>7, <2>1 DEF Graph
  <2>3. c # t BY <1>12, <2>2
  <2> QED BY <1>4, <1>10, <2>1, <2>2, <2>3
<1>14. NodeOnce(t)'
  <2>1. node'[t].ran <= 1 BY <1>1 DEF Once, NodeOnce
  <2> QED BY <1>1, <1>11, <1>13, <2>1 DEF NodeOnce
<1>15. FrameOnce(top)'
  <2>1. PICK n : n = f.node OBVIOUS
  <2>2. At(top)' = f /\ n = t BY <1>3, <2>1
  <2> QED BY <1>11, <1>13, <2>1, <2>2 DEF FrameOnce
<1>16. ASSUME NEW s \in Slots' \ {top}
       PROVE  s \in Slots /\ At(s)' = At(s) /\ At(s).node \in K \ T /\ At(s).at \in K \cup {NoTask}
  <2>1. s \in Slots /\ At(s)' = At(s) BY <1>3
  <2>2. PICK u : u = At(s).node OBVIOUS
  <2>3. u \in Present /\ Held(u) BY <2>1, <2>2, HeldFacts
  <2>4. u # t BY <1>0, <1>3, <2>1, <2>2 DEF Placed, Single
  <2>5. At(s).at \in Ancestors(u) \cup {NoTask} BY <1>0, <2>1, <2>2 DEF Placed, Says
  <2>6. \A a \in Ancestors(u) : a \in Present /\ Held(a) BY <2>3, HeldClosed
  <2>7. At(s).at \in K \cup {NoTask} BY <1>4, <2>5, <2>6
  <2> QED BY <1>4, <1>5, <2>1, <2>2, <2>3, <2>4, <2>7
<1>17. ASSUME NEW u \in K \ T PROVE (scheduled'[u] # 0 => scheduled[u] # 0) /\ (Held(u) => Held(u)' \/ Done(u)')
  <2>1. Running1(u)' <=> Running1(u)
    <3>1. \A s \in Slots : At(s)'.node = At(s).node BY <1>3
    <3> QED BY <1>3, <3>1 DEF Running1
  <2> QED BY <1>8, <2>1 DEF Held
<1>18. PICK F : F = {top} OBVIOUS
<1>19. \A c \in T \cap K : node[c].parent \in T \cup {NoTask} \/ (Held(c) /\ Done(c)') BY <1>1, <1>5, <1>11
<1>20. \A s \in Slots' \ F : s \in Slots /\ At(s)' = At(s) /\ At(s).node \in K \ T /\ At(s).at \in K \cup {NoTask}
  BY <1>16, <1>18
<1>21. (\A u \in T \cap Present' : NodeOnce(u)') /\ \A s \in F \cap Slots' : FrameOnce(s)'
  BY <1>5, <1>14, <1>15, <1>18
<1> QED BY <1>9, <1>17, <1>19, <1>20, <1>21, OnceKept

\* A step that changes no node.
LEMMA OnceQuiet ==
    ASSUME IInv, Once, NEW w \in Worker, NEW x, Running(w, x), x # "join", NEW f, Changed(w, f),
           NEW t, t = Top(w).node, f.node = t, f.pc \notin {"begin", "join"}, UNCHANGED <<node, scheduled>>,
           ~Preempted(t), Done(t),
           "CANCELLED" \in topology.estate => "CANCELLED" \in topology'.estate,
           f.pc \in {"work", "raise", "store", "leave"} => x \in {"work", "raise", "store", "leave"},
           f.pc = "raise" => f.at = t \/ "CANCELLED" \in node[t].estate,
           f.pc = "store" => "CANCELLED" \in node[f.at].estate
    PROVE  Once'
<1>1. /\ "JOINED" \in node[t].nstate => \A c \in Graph(t) : Done(c)
      /\ node[t].eptr => "CANCELLED" \in node[t].estate
      /\ x \in {"work", "raise", "store", "leave"} /\ "JOINED" \notin node[t].nstate =>
            \A c \in Graph(t) : Fresh(c) BY OnceRunning
<1>2. Flight(t) = {} BY RunningFacts DEF Running, Invocation
<1>3. Shape(t, {}) /\ Gone({}) /\ ~Preempted(t)' BY NoNode
<1>4. PICK G : G = {} OBVIOUS
<1>5. Shape(t, G) /\ Gone(G) /\ (\A u \in G : ~Held(u)) /\ \A S : S \ (G \cup {t}) \subseteq S BY <1>3, <1>4
<1>6. /\ \A u \in Present \ G : "CANCELLED" \in node[u].estate => "CANCELLED" \in node'[u].estate
      /\ \A u \in Present \ (G \cup {t}) :
               /\ node'[u].ran = node[u].ran
               /\ "JOINED" \in node'[u].nstate <=> "JOINED" \in node[u].nstate
               /\ node'[u].eptr => node[u].eptr \/ "CANCELLED" \in node'[u].estate
      /\ node'[t].ran = node[t].ran
      /\ "JOINED" \in node'[t].nstate => \A c \in Graph(t) \ (G \cup {t}) : Done(c)
      /\ node'[t].eptr => "CANCELLED" \in node'[t].estate
      /\ f.pc \in {"work", "raise", "store", "leave"} /\ "JOINED" \notin node'[t].nstate =>
               \A c \in Graph(t) \ (G \cup {t}) : Fresh(c)
      /\ f.pc = "raise" => f.at = t \/ "CANCELLED" \in node'[t].estate
      /\ f.pc = "store" => "CANCELLED" \in node'[f.at].estate BY <1>1
<1> QED BY <1>2, <1>3, <1>5, <1>6, OnceLocal

\* A step that changes one node.
\* The node a becomes r while the worker goes on in t.
Marking(t, f, a, r) ==
    /\ node' = [node EXCEPT ![a] = r]
    /\ r.kind = node[a].kind /\ r.parent = node[a].parent /\ r.join = node[a].join /\ r.ran = node[a].ran
    /\ "CANCELLED" \in node[a].estate => "CANCELLED" \in r.estate
    /\ r.eptr => "CANCELLED" \in r.estate
    /\ a # t => r.nstate = node[a].nstate
    /\ ~Preempted(t)'
    /\ "JOINED" \in node'[t].nstate => \A c \in Graph(t) : Done(c)
    /\ f.pc \in {"work", "raise", "store", "leave"} /\ "JOINED" \notin node'[t].nstate =>
           \A c \in Graph(t) : Fresh(c)
    /\ f.pc = "raise" => f.at = t \/ "CANCELLED" \in node'[t].estate
    /\ f.pc = "store" => "CANCELLED" \in node'[f.at].estate

\* A step that changes nothing but marks of the node of its frame.
LEMMA OnceMarked ==
    ASSUME IInv, Once, NEW w \in Worker, NEW x, Running(w, x), NEW f, Changed(w, f),
           NEW t, t = Top(w).node, f.node = t, f.pc \notin {"begin", "join"}, UNCHANGED <<topology, scheduled>>,
           Flight(t) = {}, Done(t),
           NEW a \in Present, NEW r \in NodeType, Marking(t, f, a, r)
    PROVE  Once'
<1>0. /\ node' = [node EXCEPT ![a] = r]
      /\ r.kind = node[a].kind /\ r.parent = node[a].parent /\ r.join = node[a].join /\ r.ran = node[a].ran
      /\ "CANCELLED" \in node[a].estate => "CANCELLED" \in r.estate
      /\ r.eptr => "CANCELLED" \in r.estate
      /\ a # t => r.nstate = node[a].nstate BY DEF Marking
<1>1. t \in Task /\ t \in Present /\ Present \subseteq Task BY RunningFacts DEF Present, Running, Invocation
<1>2. Shape(t, {}) /\ Gone({}) /\ node'[a] = r /\ \A u \in Task \ {a} : node'[u] = node[u]
  BY <1>0, <1>1, OneNode
<1>3. PICK G : G = {} OBVIOUS
<1>4. Shape(t, G) /\ Gone(G) /\ (\A u \in G : ~Held(u)) /\ \A S : S \ (G \cup {t}) \subseteq S BY <1>2, <1>3
<1>5. \A u \in Present : NodeOnce(u) BY DEF Once
<1>6. \A u \in Present : "CANCELLED" \in node[u].estate => "CANCELLED" \in node'[u].estate BY <1>0, <1>1, <1>2
<1>7. \A u \in Present : node'[u].eptr => "CANCELLED" \in node'[u].estate BY <1>0, <1>1, <1>2, <1>5 DEF NodeOnce
<1>8. \A u \in Present : node'[u].ran = node[u].ran BY <1>0, <1>1, <1>2
<1>9. \A u \in Present \ {t} : node'[u].nstate = node[u].nstate BY <1>0, <1>1, <1>2
<1>10. /\ \A u \in Present \ G : "CANCELLED" \in node[u].estate => "CANCELLED" \in node'[u].estate
       /\ \A u \in Present \ (G \cup {t}) :
                /\ node'[u].ran = node[u].ran
                /\ "JOINED" \in node'[u].nstate <=> "JOINED" \in node[u].nstate
                /\ node'[u].eptr => node[u].eptr \/ "CANCELLED" \in node'[u].estate
       /\ node'[t].ran = node[t].ran
       /\ "JOINED" \in node'[t].nstate => \A c \in Graph(t) \ (G \cup {t}) : Done(c)
       /\ node'[t].eptr => "CANCELLED" \in node'[t].estate
       /\ f.pc \in {"work", "raise", "store", "leave"} /\ "JOINED" \notin node'[t].nstate =>
                \A c \in Graph(t) \ (G \cup {t}) : Fresh(c)
       /\ f.pc = "raise" => f.at = t \/ "CANCELLED" \in node'[t].estate
       /\ f.pc = "store" => "CANCELLED" \in node'[f.at].estate
       /\ ~Preempted(t)' BY <1>1, <1>4, <1>6, <1>7, <1>8, <1>9 DEF Marking
<1> QED BY <1>4, <1>10, OnceLocal

\* The frame does not change.
LEMMA SameStack ==
    ASSUME Typed, NEW w \in Worker, stack[w] # <<>>, UNCHANGED stack
    PROVE  Changed(w, Top(w))
<1>1. At(TopSlot(w)) = Top(w) BY TopFrame
<1>2. Slots' = Slots /\ (\A s : At(s)' = At(s)) /\ At(TopSlot(w))' = At(TopSlot(w)) /\ \A v : TopSlot(v)' = TopSlot(v)
  BY DEF Slots, At, TopSlot
<1> QED BY <1>1, <1>2 DEF Changed

\* A frame that only goes to another place.
LEMMA GotoChanged ==
    ASSUME IInv, NEW w \in Worker, NEW x, Running(w, x), NEW y \in Places, Goto(w, y), NEW t, t = Top(w).node
    PROVE  \E f \in FrameType : Changed(w, f) /\ f.node = t /\ f.pc = y /\ f.at = Top(w).at
<1>1. stack[w] # <<>> /\ Top(w) \in FrameType BY RunningFacts DEF Running, Invocation
<1>2. PICK f : f = [Top(w) EXCEPT !.pc = y] OBVIOUS
<1>3. f \in FrameType /\ f.node = t /\ f.pc = y /\ f.at = Top(w).at BY <1>1, <1>2 DEF FrameType
<1>4. Become(w, f) BY <1>2 DEF Goto
<1>5. Changed(w, f) BY <1>1, <1>3, <1>4, BecomeSlots DEF IInv
<1> QED BY <1>3, <1>5

\* A task of a cancelled graph is passed over, which counts as done.
LEMMA SkipOnce == ASSUME IInv, Once, NEW w \in Worker, Skip(w) PROVE Once'
<1>1. PICK t : t = Top(w).node OBVIOUS
<1>2. /\ Running(w, "begin") /\ ~Preempted(t) /\ Goto(w, "finish") /\ UNCHANGED <<node, topology, scheduled>>
      /\ IsCancelled(t) BY <1>1 DEF Skip, Preempted
<1>3. "finish" \in Places BY DEF Places
<1>4. PICK f \in FrameType : Changed(w, f) /\ f.node = t /\ f.pc = "finish" BY <1>1, <1>2, <1>3, GotoChanged
<1>5. Done(t) BY <1>2 DEF Done
<1> QED BY <1>1, <1>2, <1>4, <1>5, OnceQuiet

\* A callable returns.
LEMMA ReturnOnce == ASSUME IInv, Once, NEW w \in Worker, Return(w) PROVE Once'
<1>1. PICK t : t = Top(w).node OBVIOUS
<1>2. Running(w, "work") /\ Goto(w, "leave") /\ UNCHANGED <<node, topology, scheduled>> BY DEF Return
<1>3. "leave" \in Places BY DEF Places
<1>4. PICK f \in FrameType : Changed(w, f) /\ f.node = t /\ f.pc = "leave" BY <1>1, <1>2, <1>3, GotoChanged
<1>5. Done(t) /\ ~Preempted(t) BY <1>1, <1>2, RunningFacts, OnceRunning DEF Running, Invocation
<1> QED BY <1>1, <1>2, <1>4, <1>5, OnceQuiet

\* A task without a subflow is left.
LEMMA LeaveOnce == ASSUME IInv, Once, NEW w \in Worker, Leave(w) PROVE Once'
<1>1. PICK t : t = Top(w).node OBVIOUS
<1>2. Running(w, "leave") /\ UNCHANGED <<node, topology, scheduled>> BY DEF Leave
<1>3. PICK y \in {"finish", "over"} : Goto(w, y) BY DEF Leave
<1>4. y \in Places BY <1>3 DEF Places
<1>5. PICK f \in FrameType : Changed(w, f) /\ f.node = t /\ f.pc = y BY <1>1, <1>2, <1>3, <1>4, GotoChanged
<1>6. Done(t) /\ ~Preempted(t) BY <1>1, <1>2, RunningFacts, OnceRunning DEF Running, Invocation
<1>7. f.pc \in {"finish", "over"} BY <1>3, <1>5
<1> QED BY <1>1, <1>2, <1>5, <1>6, <1>7, OnceQuiet

\* A callable throws.
LEMMA ThrowOnce == ASSUME IInv, Once, NEW w \in Worker, Throw(w) PROVE Once'
<1>1. PICK t : t = Top(w).node OBVIOUS
<1>2. PICK f : f = [Top(w) EXCEPT !.pc = "raise", !.at = t] OBVIOUS
<1>3. Running(w, "work") /\ Become(w, f) /\ UNCHANGED <<node, topology, scheduled>> BY <1>1, <1>2 DEF Throw
<1>4. t \in Task /\ ~Preempted(t) /\ Top(w) \in FrameType /\ stack[w] # <<>> /\ node[t].kind # "anchor"
  BY <1>1, <1>3, RunningFacts DEF Running, Invocation
<1>5. f \in FrameType /\ f.node = t /\ f.pc = "raise" /\ f.at = t
  BY <1>1, <1>2, <1>4 DEF FrameType, Places, Nodes
<1>6. Changed(w, f) BY <1>3, <1>4, <1>5, BecomeSlots DEF IInv
<1>7. Done(t) BY <1>1, <1>3, <1>4, OnceRunning
<1> QED BY <1>1, <1>3, <1>4, <1>5, <1>6, <1>7, OnceQuiet

\* An exception arrives at the topology.
LEMMA RaiseTopologyOnce == ASSUME IInv, Once, NEW w \in Worker, RaiseTopology(w) PROVE Once'
<1>1. PICK t : t = Top(w).node OBVIOUS
<1>2. PICK y : y = IF "EXCEPTION" \notin topology.estate THEN "leave" ELSE "store" OBVIOUS
<1>3. PICK f : f = [Top(w) EXCEPT !.pc = y, !.at = t] OBVIOUS
<1>4. /\ Running(w, "raise") /\ Top(w).at = NoTask /\ Become(w, f) /\ UNCHANGED <<node, scheduled>>
      /\ topology'.estate = topology.estate \cup Failed BY <1>1, <1>2, <1>3 DEF RaiseTopology
<1>5. t \in Task /\ ~Preempted(t) /\ Top(w) \in FrameType /\ stack[w] # <<>> /\ node[t].kind # "anchor"
  BY <1>1, <1>4, RunningFacts DEF Running, Invocation
<1>6. y \in {"leave", "store"} BY <1>2
<1>7. f \in FrameType /\ f.node = t /\ f.pc = y /\ f.at = t
  BY <1>1, <1>3, <1>5, <1>6 DEF FrameType, Places, Nodes
<1>8. Changed(w, f) BY <1>4, <1>5, <1>7, BecomeSlots DEF IInv
<1>9. Done(t) /\ (Top(w).at = t \/ "CANCELLED" \in node[t].estate) BY <1>1, <1>4, <1>5, OnceRunning
<1>10. "CANCELLED" \in node[f.at].estate BY <1>4, <1>5, <1>7, <1>9, TaskFacts
<1>11. "CANCELLED" \in topology.estate => "CANCELLED" \in topology'.estate BY <1>4
<1>12. f.pc \in {"leave", "store"} BY <1>6, <1>7
<1> QED BY <1>1, <1>4, <1>5, <1>7, <1>8, <1>9, <1>10, <1>11, <1>12, OnceQuiet

\* A task that ends looks at its parent.
LEMMA ReadParentOnce == ASSUME IInv, Once, NEW w \in Worker, ReadParent(w) PROVE Once'
<1>1. PICK t : t = Top(w).node OBVIOUS
<1>2. PICK p : p = node[t].parent OBVIOUS
<1>3. PICK again : again = ("PREEMPTED" \in node[p].nstate) OBVIOUS
<1>4. PICK f : f = [Top(w) EXCEPT !.pc = "count", !.at = p, !.again = again] OBVIOUS
<1>5. Running(w, "finish") /\ p # NoTask /\ Become(w, f) /\ UNCHANGED <<node, topology, scheduled>>
  BY <1>1, <1>2, <1>3, <1>4 DEF ReadParent
<1>6. /\ node[t].kind # "anchor" /\ t \in Task /\ t \in Present /\ Held(t) /\ ~Preempted(t)
      /\ Top(w) \in FrameType /\ stack[w] # <<>> BY <1>1, <1>5, RunningFacts DEF Running, Invocation
<1>7. p \in Present /\ p \in Task BY <1>2, <1>5, <1>6, HeldFacts DEF Present
<1>8. again \in BOOLEAN BY <1>3
<1>9. f \in FrameType /\ f.node = t /\ f.pc = "count"
  BY <1>1, <1>4, <1>6, <1>7, <1>8 DEF FrameType, Places, Nodes
<1>10. Changed(w, f) BY <1>5, <1>6, <1>9, BecomeSlots DEF IInv
<1>11. Done(t) BY <1>1, <1>5, <1>6, OnceRunning
<1> QED BY <1>1, <1>5, <1>6, <1>9, <1>10, <1>11, OnceQuiet

\* A subflow that was left is entered again for its end.
LEMMA ResumeOnce == ASSUME IInv, Once, NEW w \in Worker, Resume(w) PROVE Once'
<1>1. PICK t : t = Top(w).node OBVIOUS
<1>2. /\ Running(w, "begin") /\ Preempted(t) /\ Goto(w, "over") /\ UNCHANGED <<topology, scheduled>>
      /\ node' = [node EXCEPT ![t].nstate = @ \ {"PREEMPTED"}] BY <1>1 DEF Resume, Preempted
<1>3. Flight(t) = {} /\ t \in Task /\ t \in Present /\ node[t] \in NodeType
  BY <1>1, <1>2, RunningFacts DEF Running, Invocation
<1>4. "over" \in Places BY DEF Places
<1>5. PICK r : r = [node[t] EXCEPT !.nstate = @ \ {"PREEMPTED"}] OBVIOUS
<1>6. /\ r \in NodeType /\ r.kind = node[t].kind /\ r.parent = node[t].parent /\ r.join = node[t].join
      /\ r.nstate = node[t].nstate \ {"PREEMPTED"} /\ r.ran = node[t].ran /\ r.estate = node[t].estate
      /\ r.eptr = node[t].eptr BY <1>3, <1>5 DEF NodeType
<1>7. node' = [node EXCEPT ![t] = r] BY <1>2, <1>5
<1>8. node'[t] = r BY <1>3, <1>6, <1>7, OneNode
<1>9. ~Preempted(t)' BY <1>6, <1>8 DEF Preempted
<1>10. PICK f \in FrameType : Changed(w, f) /\ f.node = t /\ f.pc = "over" BY <1>1, <1>2, <1>4, GotoChanged
<1>11. /\ "JOINED" \in node[t].nstate => \A c \in Graph(t) : Done(c)
       /\ Done(t) /\ (node[t].eptr => "CANCELLED" \in node[t].estate) BY <1>1, <1>2, OnceRunning
<1>12. "JOINED" \in node'[t].nstate => \A c \in Graph(t) : Done(c) BY <1>6, <1>8, <1>11
<1>13. f.pc \notin {"begin", "join"} /\ f.pc \notin {"work", "raise", "store", "leave"} BY <1>10
<1>14. "CANCELLED" \in node[t].estate => "CANCELLED" \in r.estate BY <1>6
<1>15. r.eptr => "CANCELLED" \in r.estate BY <1>6, <1>11
<1>16. Marking(t, f, t, r)
  BY <1>1, <1>2, <1>3, <1>6, <1>7, <1>9, <1>10, <1>11, <1>12, <1>13, <1>14, <1>15 DEF Marking
<1> QED BY <1>1, <1>2, <1>3, <1>6, <1>7, <1>9, <1>10, <1>11, <1>12, <1>13, <1>14, <1>15, <1>16, OnceMarked

\* An exception goes on, through a graph that was cancelled by it,
LEMMA RaisePassOnce == ASSUME IInv, Once, NEW w \in Worker, RaisePass(w) PROVE Once'
<1>1. PICK t : t = Top(w).node OBVIOUS
<1>2. PICK a : a = Top(w).at OBVIOUS
<1>3. PICK f : f = [Top(w) EXCEPT !.at = node[a].parent] OBVIOUS
<1>4. /\ Running(w, "raise") /\ a # NoTask /\ Become(w, f) /\ UNCHANGED <<topology, scheduled>>
      /\ node' = [node EXCEPT ![a].estate = @ \cup Failed] BY <1>2, <1>3 DEF RaisePass
<1>5. /\ node[t].kind # "anchor" /\ Flight(t) = {} /\ t \in Task /\ t \in Present /\ Held(t) /\ ~Preempted(t)
      /\ Top(w) \in FrameType /\ Top(w).pc = "raise" /\ a \in Ancestors(t) /\ stack[w] # <<>>
  BY <1>1, <1>2, <1>4, RunningFacts DEF Running, Invocation, Names
<1>6. a \in Present /\ a \in Task BY <1>5, HeldClosed DEF Present
<1>7. node[a] \in NodeType /\ node[a].parent \in Nodes /\ node[a].estate \in SUBSET Flags
  <2>1. node[a] \in NodeType BY <1>6 DEF IInv, Typed
  <2> QED BY <2>1 DEF NodeType
<1>8. f \in FrameType /\ f.node = t /\ f.pc = "raise" /\ f.at = node[a].parent
  BY <1>1, <1>3, <1>5, <1>7 DEF FrameType
<1>9. Changed(w, f) BY <1>4, <1>5, <1>8, BecomeSlots DEF IInv
<1>10. PICK r : r = [node[a] EXCEPT !.estate = @ \cup Failed] OBVIOUS
<1>11. /\ r \in NodeType /\ r.kind = node[a].kind /\ r.parent = node[a].parent /\ r.join = node[a].join
       /\ r.nstate = node[a].nstate /\ r.ran = node[a].ran /\ "CANCELLED" \in r.estate
  <2>1. node[a].estate \cup Failed \in SUBSET Flags BY <1>7 DEF Failed, Flags
  <2> QED BY <1>7, <1>10, <2>1 DEF NodeType, Failed
<1>12. node' = [node EXCEPT ![a] = r] BY <1>4, <1>10
<1>13. node'[a] = r /\ \A u \in Task \ {a} : node'[u] = node[u] BY <1>5, <1>6, <1>11, <1>12, OneNode
<1>14. node'[t].nstate = node[t].nstate BY <1>5, <1>11, <1>13
<1>15. ~Preempted(t)' BY <1>5, <1>14 DEF Preempted
<1>16. /\ "JOINED" \in node[t].nstate => \A c \in Graph(t) : Done(c)
       /\ "JOINED" \notin node[t].nstate => \A c \in Graph(t) : Fresh(c)
       /\ Done(t) /\ (a = t \/ "CANCELLED" \in node[t].estate)
  BY <1>1, <1>2, <1>4, <1>5, OnceRunning
<1>17. "CANCELLED" \in node'[t].estate BY <1>5, <1>11, <1>13, <1>16
<1>18. /\ "JOINED" \in node'[t].nstate => \A c \in Graph(t) : Done(c)
       /\ "JOINED" \notin node'[t].nstate => \A c \in Graph(t) : Fresh(c) BY <1>14, <1>16
<1>19. f.pc \notin {"begin", "join"} /\ f.pc # "store" BY <1>8
<1>20. Marking(t, f, a, r)
  BY <1>1, <1>4, <1>5, <1>6, <1>8, <1>9, <1>11, <1>12, <1>15, <1>16, <1>17, <1>18, <1>19 DEF Marking
<1> QED
  BY <1>1, <1>4, <1>5, <1>6, <1>8, <1>9, <1>11, <1>12, <1>15, <1>16, <1>17, <1>18, <1>19, <1>20, OnceMarked

\* or stops.
LEMMA RaiseAnchorOnce == ASSUME IInv, Once, NEW w \in Worker, RaiseAnchor(w) PROVE Once'
<1>1. PICK t : t = Top(w).node OBVIOUS
<1>2. PICK a : a = Top(w).at OBVIOUS
<1>3. PICK b : b = IF "EXCEPTION" \in node[a].estate THEN t ELSE a OBVIOUS
<1>0. PICK f : f = [Top(w) EXCEPT !.pc = "store", !.at = b] OBVIOUS
<1>4. /\ Running(w, "raise") /\ a # NoTask /\ Become(w, f) /\ UNCHANGED <<topology, scheduled>>
      /\ node' = [node EXCEPT ![a].estate = @ \cup Failed] BY <1>0, <1>1, <1>2, <1>3 DEF RaiseAnchor
<1>5. /\ node[t].kind # "anchor" /\ Flight(t) = {} /\ t \in Task /\ t \in Present /\ Held(t) /\ ~Preempted(t)
      /\ Top(w) \in FrameType /\ Top(w).pc = "raise" /\ a \in Ancestors(t) /\ stack[w] # <<>>
  BY <1>1, <1>2, <1>4, RunningFacts DEF Running, Invocation, Names
<1>6. a \in Present /\ a \in Task BY <1>5, HeldClosed DEF Present
<1>7. node[a] \in NodeType /\ node[a].estate \in SUBSET Flags
  <2>1. node[a] \in NodeType BY <1>6 DEF IInv, Typed
  <2> QED BY <2>1 DEF NodeType
<1>8. b \in {t, a} /\ b \in Task BY <1>3, <1>5, <1>6
<1>9. f \in FrameType /\ f.node = t /\ f.pc = "store" /\ f.at = b
  BY <1>0, <1>1, <1>5, <1>8 DEF FrameType, Places, Nodes
<1>18. Changed(w, f) BY <1>4, <1>5, <1>9, BecomeSlots DEF IInv
<1>10. PICK r : r = [node[a] EXCEPT !.estate = @ \cup Failed] OBVIOUS
<1>11. /\ r \in NodeType /\ r.kind = node[a].kind /\ r.parent = node[a].parent /\ r.join = node[a].join
       /\ r.nstate = node[a].nstate /\ r.ran = node[a].ran /\ "CANCELLED" \in r.estate
  <2>1. node[a].estate \cup Failed \in SUBSET Flags BY <1>7 DEF Failed, Flags
  <2> QED BY <1>7, <1>10, <2>1 DEF NodeType, Failed
<1>12. node' = [node EXCEPT ![a] = r] BY <1>4, <1>10
<1>13. node'[a] = r /\ \A u \in Task \ {a} : node'[u] = node[u] BY <1>5, <1>6, <1>11, <1>12, OneNode
<1>14. node'[t].nstate = node[t].nstate BY <1>5, <1>11, <1>13
<1>15. ~Preempted(t)' BY <1>5, <1>14 DEF Preempted
<1>16. /\ "JOINED" \in node[t].nstate => \A c \in Graph(t) : Done(c)
       /\ "JOINED" \notin node[t].nstate => \A c \in Graph(t) : Fresh(c)
       /\ Done(t) /\ (a = t \/ "CANCELLED" \in node[t].estate)
  BY <1>1, <1>2, <1>4, <1>5, OnceRunning
<1>17. "CANCELLED" \in node'[f.at].estate
  <2>1. "CANCELLED" \in node'[t].estate BY <1>5, <1>11, <1>13, <1>16
  <2> QED BY <1>8, <1>9, <1>11, <1>13, <2>1
<1>19. Marking(t, f, a, r)
  BY <1>1, <1>4, <1>5, <1>6, <1>9, <1>11, <1>12, <1>14, <1>15, <1>16, <1>17, <1>18 DEF Marking
<1> QED BY <1>1, <1>4, <1>5, <1>6, <1>9, <1>11, <1>12, <1>14, <1>15, <1>16, <1>17, <1>18, <1>19, OnceMarked

\* It is kept by a node whose graph is cancelled.
LEMMA StoreOnce == ASSUME IInv, Once, NEW w \in Worker, Store(w) PROVE Once'
<1>1. PICK t : t = Top(w).node OBVIOUS
<1>2. PICK a : a = Top(w).at OBVIOUS
<1>4. /\ Running(w, "store") /\ Goto(w, "leave") /\ UNCHANGED <<topology, scheduled>>
      /\ node' = [node EXCEPT ![a].eptr = TRUE] BY <1>2 DEF Store
<1>5. /\ node[t].kind # "anchor" /\ Flight(t) = {} /\ t \in Task /\ t \in Present /\ Held(t) /\ ~Preempted(t)
      /\ a \in Ancestors(t) BY <1>1, <1>2, <1>4, RunningFacts DEF Running, Invocation, Names
<1>6. a \in Present /\ a \in Task BY <1>5, HeldClosed DEF Present
<1>7. node[a] \in NodeType BY <1>6 DEF IInv, Typed
<1>8. "leave" \in Places BY DEF Places
<1>9. PICK f \in FrameType : Changed(w, f) /\ f.node = t /\ f.pc = "leave" BY <1>1, <1>4, <1>8, GotoChanged
<1>10. PICK r : r = [node[a] EXCEPT !.eptr = TRUE] OBVIOUS
<1>11. /\ r \in NodeType /\ r.kind = node[a].kind /\ r.parent = node[a].parent /\ r.join = node[a].join
       /\ r.nstate = node[a].nstate /\ r.ran = node[a].ran /\ r.estate = node[a].estate
  BY <1>7, <1>10 DEF NodeType
<1>12. node' = [node EXCEPT ![a] = r] BY <1>4, <1>10
<1>13. node'[a] = r /\ \A u \in Task \ {a} : node'[u] = node[u] BY <1>5, <1>6, <1>11, <1>12, OneNode
<1>14. node'[t].nstate = node[t].nstate BY <1>5, <1>11, <1>13
<1>15. ~Preempted(t)' BY <1>5, <1>14 DEF Preempted
<1>16. /\ "JOINED" \in node[t].nstate => \A c \in Graph(t) : Done(c)
       /\ "JOINED" \notin node[t].nstate => \A c \in Graph(t) : Fresh(c)
       /\ Done(t) /\ "CANCELLED" \in node[a].estate BY <1>1, <1>2, <1>4, <1>5, OnceRunning
<1>17. Marking(t, f, a, r) BY <1>1, <1>4, <1>5, <1>6, <1>9, <1>11, <1>12, <1>14, <1>15, <1>16 DEF Marking
<1> QED BY <1>1, <1>4, <1>5, <1>6, <1>9, <1>11, <1>12, <1>14, <1>15, <1>16, <1>17, OnceMarked

\* The subflow is to be retained.
LEMMA RetainOnce == ASSUME IInv, Once, NEW w \in Worker, Retain(w) PROVE Once'
<1>1. PICK t : t = Top(w).node OBVIOUS
<1>2. PICK r : r = [node[t] EXCEPT !.nstate = @ \cup {"RETAIN"}] OBVIOUS
<1>3. /\ Running(w, "work") /\ node' = [node EXCEPT ![t] = r]
      /\ UNCHANGED <<topology, scheduled, stack>> BY <1>1, <1>2 DEF Retain
<1>4. /\ node[t].kind # "anchor" /\ Flight(t) = {} /\ t \in Task /\ t \in Present /\ ~Preempted(t)
      /\ node[t] \in NodeType /\ stack[w] # <<>> /\ Top(w).pc = "work"
        BY <1>1, <1>3, RunningFacts DEF Running, Invocation
<1>5. /\ r \in NodeType /\ r.kind = node[t].kind /\ r.parent = node[t].parent /\ r.join = node[t].join
      /\ "PREEMPTED" \in r.nstate <=> "PREEMPTED" \in node[t].nstate BY <1>2, <1>4, MarkedNode
<1>6. /\ r.nstate = node[t].nstate \cup {"RETAIN"} /\ r.ran = node[t].ran /\ r.estate = node[t].estate
      /\ r.eptr = node[t].eptr BY <1>2, <1>4 DEF NodeType
<1>7. node'[t] = r BY <1>3, <1>4, <1>5, OneNode
<1>8. ~Preempted(t)' BY <1>4, <1>5, <1>7 DEF Preempted
<1>9. PICK f : f = Top(w) OBVIOUS
<1>10. Changed(w, f) /\ f.node = t /\ f.pc = "work" BY <1>1, <1>3, <1>4, <1>9, SameStack DEF IInv
<1>11. /\ "JOINED" \in node[t].nstate => \A c \in Graph(t) : Done(c)
       /\ "JOINED" \notin node[t].nstate => \A c \in Graph(t) : Fresh(c)
       /\ Done(t) /\ (node[t].eptr => "CANCELLED" \in node[t].estate)
  BY <1>1, <1>3, <1>4, OnceRunning
<1>12. "JOINED" \in node'[t].nstate <=> "JOINED" \in node[t].nstate BY <1>6, <1>7
<1>13. Marking(t, f, t, r) BY <1>1, <1>3, <1>4, <1>5, <1>6, <1>8, <1>10, <1>11, <1>12 DEF Marking
<1> QED BY <1>1, <1>3, <1>4, <1>5, <1>6, <1>8, <1>10, <1>11, <1>12, <1>13, OnceMarked

\* An empty graph has run.
LEMMA JoinEmptyOnce == ASSUME IInv, Once, NEW w \in Worker, JoinEmpty(w) PROVE Once'
<1>1. PICK t : t = Top(w).node OBVIOUS
<1>2. PICK r : r = [node[t] EXCEPT !.nstate = @ \cup {"JOINED"}] OBVIOUS
<1>3. /\ Running(w, "work") /\ node' = [node EXCEPT ![t] = r] /\ Graph(t) = {}
      /\ UNCHANGED <<topology, scheduled, stack>> BY <1>1, <1>2 DEF JoinEmpty
<1>4. /\ node[t].kind # "anchor" /\ Flight(t) = {} /\ t \in Task /\ t \in Present /\ ~Preempted(t)
      /\ node[t] \in NodeType /\ stack[w] # <<>> /\ Top(w).pc = "work"
        BY <1>1, <1>3, RunningFacts DEF Running, Invocation
<1>5. /\ r \in NodeType /\ r.kind = node[t].kind /\ r.parent = node[t].parent /\ r.join = node[t].join
      /\ "PREEMPTED" \in r.nstate <=> "PREEMPTED" \in node[t].nstate BY <1>2, <1>4, MarkedNode
<1>6. r.ran = node[t].ran /\ r.estate = node[t].estate /\ r.eptr = node[t].eptr
  BY <1>2, <1>4 DEF NodeType
<1>7. node'[t] = r BY <1>3, <1>4, <1>5, OneNode
<1>8. ~Preempted(t)' BY <1>4, <1>5, <1>7 DEF Preempted
<1>9. PICK f : f = Top(w) OBVIOUS
<1>10. Changed(w, f) /\ f.node = t /\ f.pc = "work" BY <1>1, <1>3, <1>4, <1>9, SameStack DEF IInv
<1>11. Done(t) /\ (node[t].eptr => "CANCELLED" \in node[t].estate) BY <1>1, <1>3, <1>4, OnceRunning
<1>12. \A c \in Graph(t) : Done(c) /\ Fresh(c) BY <1>3
<1>13. Marking(t, f, t, r) BY <1>1, <1>3, <1>4, <1>5, <1>6, <1>8, <1>10, <1>11, <1>12 DEF Marking
<1> QED BY <1>1, <1>3, <1>4, <1>5, <1>6, <1>8, <1>10, <1>11, <1>12, <1>13, OnceMarked

\* A join that did not fail has run all of the graph.
LEMMA JoinReturnsOnce == ASSUME IInv, Once, NEW w \in Worker, JoinReturns(w) PROVE Once'
<1>1. PICK t : t = Top(w).node OBVIOUS
<1>2. PICK r : r = [node[t] EXCEPT !.estate = @ \ {"ANCHORED"}, !.eptr = FALSE,
                                   !.nstate = IF node[t].eptr THEN @ ELSE @ \cup {"JOINED"}] OBVIOUS
<1>3. PICK g : g = [Top(w) EXCEPT !.pc = "raise", !.at = t] OBVIOUS
<1>0. PICK h : h = [Top(w) EXCEPT !.pc = "work"] OBVIOUS
<1>4. /\ Running(w, "join") /\ UNCHANGED <<topology, scheduled>>
      /\ node[t].kind = "subflow" /\ node[t].join = 0
      /\ \E f \in {g, h} : Become(w, f) BY <1>0, <1>1, <1>3 DEF JoinReturns, Goto
<1>5. /\ t \in Task /\ t \in Present /\ Held(t) /\ node[t] \in NodeType /\ Top(w) \in FrameType /\ ~Preempted(t)
      /\ stack[w] # <<>> BY <1>1, <1>4, RunningFacts DEF Running, Invocation
<1>6. Flight(t) = {} BY <1>4, <1>5, NoneLeft
<1>7. node' = [node EXCEPT ![t] = r]
  <2>1. node' = [node EXCEPT ![t].estate = @ \ {"ANCHORED"}, ![t].eptr = FALSE,
                             ![t].nstate = IF node[t].eptr THEN @ ELSE @ \cup {"JOINED"}]
    BY <1>1 DEF JoinReturns
  <2>2. node \in [Task -> NodeType] BY DEF IInv, Typed
  <2> QED BY <1>2, <1>5, <2>1, <2>2 DEF NodeType
<1>8. PICK m : m = IF node[t].eptr THEN node[t].nstate ELSE node[t].nstate \cup {"JOINED"} OBVIOUS
<1>9. /\ r \in NodeType /\ r.kind = node[t].kind /\ r.parent = node[t].parent /\ r.join = node[t].join
      /\ r.nstate = m /\ r.ran = node[t].ran /\ r.estate = node[t].estate \ {"ANCHORED"} /\ r.eptr = FALSE
  <2>1. m \in SUBSET Marks BY <1>5, <1>8 DEF NodeType, Marks
  <2>2. r = [node[t] EXCEPT !.estate = @ \ {"ANCHORED"}, !.eptr = FALSE, !.nstate = m]
    BY <1>2, <1>5, <1>8 DEF NodeType
  <2>3. node[t].estate \ {"ANCHORED"} \in SUBSET Flags BY <1>5 DEF NodeType
  <2> QED BY <1>5, <2>1, <2>2, <2>3 DEF NodeType
<1>10. "PREEMPTED" \in r.nstate <=> "PREEMPTED" \in node[t].nstate BY <1>8, <1>9
<1>11. node'[t] = r BY <1>5, <1>7, <1>9, <1>10, OneNode
<1>12. ~Preempted(t)' BY <1>5, <1>10, <1>11 DEF Preempted
<1>13. PICK f \in {g, h} : Become(w, f) BY <1>4
<1>14. f \in FrameType /\ f.node = t /\ f.pc \in {"raise", "work"} /\ (f.pc = "raise" => f.at = t)
  BY <1>0, <1>1, <1>3, <1>5, <1>13 DEF FrameType, Places, Nodes
<1>15. Changed(w, f) BY <1>5, <1>13, <1>14, BecomeSlots DEF IInv
<1>16. /\ Done(t) /\ "JOINED" \notin node[t].nstate /\ \A c \in Graph(t) : Held(c) \/ Done(c)
       /\ node[t].eptr => "CANCELLED" \in node[t].estate BY <1>1, <1>4, OnceRunning
<1>17. \A c \in Graph(t) : Done(c) BY <1>6, <1>16 DEF Flight
<1>18. ASSUME "JOINED" \notin node'[t].nstate, NEW c \in Graph(t) PROVE Fresh(c)
  <2>1. "CANCELLED" \in node[t].estate BY <1>8, <1>9, <1>11, <1>16, <1>18
  <2>2. node[c].parent = t /\ t # NoTask BY <1>5, TaskFacts DEF Graph
  <2> QED BY <2>1, <2>2 DEF Fresh, IsCancelled
<1>19. "CANCELLED" \in node[t].estate => "CANCELLED" \in r.estate BY <1>9
<1>20. f.pc \notin {"begin", "join"} /\ f.pc # "store" BY <1>14
<1>21. Marking(t, f, t, r)
  BY <1>1, <1>4, <1>5, <1>6, <1>7, <1>9, <1>12, <1>14, <1>15, <1>16, <1>17, <1>18, <1>19, <1>20 DEF Marking
<1> QED
  BY <1>1, <1>4, <1>5, <1>6, <1>7, <1>9, <1>12, <1>14, <1>15, <1>16, <1>17, <1>18, <1>19, <1>20, <1>21, OnceMarked

\* A subflow is called once, and begins with an empty graph.
LEMMA CallOnce == ASSUME IInv, Once, NEW w \in Worker, Call(w) PROVE Once'
<1>1. PICK t : t = Top(w).node OBVIOUS
<1>2. /\ Running(w, "begin") /\ ~Preempted(t) /\ ~IsCancelled(t) /\ Goto(w, "work")
      /\ UNCHANGED <<topology, scheduled>>
      /\ node' = Cleared([node EXCEPT ![t].ran = @ + 1, ![t].joins = 0,
                                      ![t].nstate = @ \ {"JOINED", "RETAIN"}], t)
  BY <1>1 DEF Call, Preempted
<1>3. /\ node[t].kind # "anchor" /\ Flight(t) = {} /\ t \in Task /\ t \in Present /\ Held(t)
      /\ node[t] \in NodeType BY <1>1, <1>2, RunningFacts DEF Running, Invocation
<1>4. PICK r : r = [node[t] EXCEPT !.ran = @ + 1, !.joins = 0, !.nstate = @ \ {"JOINED", "RETAIN"}] OBVIOUS
<1>5. /\ r \in NodeType /\ r.kind = node[t].kind /\ r.parent = node[t].parent /\ r.join = node[t].join
      /\ r.nstate = node[t].nstate \ {"JOINED", "RETAIN"} /\ r.ran = node[t].ran + 1
      /\ r.estate = node[t].estate /\ r.eptr = node[t].eptr
  <2>1. node[t].ran + 1 \in Nat /\ 0 \in Nat /\ node[t].nstate \ {"JOINED", "RETAIN"} \in SUBSET Marks
    BY <1>3 DEF NodeType
  <2> QED BY <1>3, <1>4, <2>1 DEF NodeType
<1>6. [node EXCEPT ![t].ran = @ + 1, ![t].joins = 0, ![t].nstate = @ \ {"JOINED", "RETAIN"}]
        = [node EXCEPT ![t] = r]
  <2>1. node \in [Task -> NodeType] BY DEF IInv, Typed
  <2> QED BY <1>3, <1>4, <2>1 DEF NodeType
<1>7. PICK n : n = [node EXCEPT ![t] = r] OBVIOUS
<1>8. node' = Cleared(n, t) BY <1>2, <1>6, <1>7
<1>9. PICK G : G = Descendants(t) OBVIOUS
<1>10. /\ Shape(t, G) /\ Gone(G) /\ node'[t] = r
       /\ \A u \in Task \ (G \cup {t}) : node'[u] = node[u]
       /\ \A u \in G : ~Held(u) BY <1>3, <1>5, <1>7, <1>8, <1>9, ClearedNodes
<1>11. ~Preempted(t)' BY <1>2, <1>5, <1>10 DEF Preempted
<1>12. "work" \in Places BY DEF Places
<1>13. PICK f \in FrameType : Changed(w, f) /\ f.node = t /\ f.pc = "work" BY <1>1, <1>2, <1>12, GotoChanged
<1>14. Fresh(t) /\ (node[t].eptr => "CANCELLED" \in node[t].estate) BY <1>1, <1>2, OnceRunning
<1>15. node'[t].ran = 1 BY <1>2, <1>5, <1>10, <1>14 DEF Fresh
<1>16. Graph(t) \ (G \cup {t}) = {} BY <1>3, <1>9, NothingBelow
<1>17. \A u \in Present \ G : u = t \/ node'[u] = node[u] BY <1>10 DEF Present
<1>18. /\ \A u \in Present \ G : "CANCELLED" \in node[u].estate => "CANCELLED" \in node'[u].estate
       /\ \A u \in Present \ (G \cup {t}) :
               /\ node'[u].ran = node[u].ran
               /\ "JOINED" \in node'[u].nstate <=> "JOINED" \in node[u].nstate
               /\ node'[u].eptr => node[u].eptr \/ "CANCELLED" \in node'[u].estate
       /\ node'[t].eptr => "CANCELLED" \in node'[t].estate BY <1>5, <1>10, <1>14, <1>17
<1>19. f.pc \notin {"begin", "join"} /\ f.pc # "store" /\ f.pc # "raise" BY <1>13
<1>20. "CANCELLED" \in topology.estate => "CANCELLED" \in topology'.estate BY <1>2
<1> QED BY <1>1, <1>2, <1>3, <1>10, <1>11, <1>13, <1>15, <1>16, <1>18, <1>19, <1>20, OnceLocal

\* A graph that was run goes.
LEMMA OverOnce == ASSUME IInv, Once, NEW w \in Worker, Over(w) PROVE Once'
<1>1. PICK t : t = Top(w).node OBVIOUS
<1>2. /\ Running(w, "over") /\ Goto(w, "finish") /\ UNCHANGED <<topology, scheduled>>
      /\ node' = IF "RETAIN" \in node[t].nstate THEN node ELSE Cleared(node, t) BY <1>1 DEF Over
<1>3. /\ node[t].kind # "anchor" /\ Flight(t) = {} /\ t \in Task /\ t \in Present /\ Held(t) /\ ~Preempted(t)
      /\ node[t] \in NodeType BY <1>1, <1>2, RunningFacts DEF Running, Invocation
<1>4. "finish" \in Places BY DEF Places
<1>5. PICK f \in FrameType : Changed(w, f) /\ f.node = t /\ f.pc = "finish" BY <1>1, <1>2, <1>4, GotoChanged
<1>6. Done(t) /\ (node[t].eptr => "CANCELLED" \in node[t].estate) BY <1>1, <1>2, <1>3, OnceRunning
<1>7. CASE "RETAIN" \in node[t].nstate
  <2>1. UNCHANGED node BY <1>2, <1>7
  <2> QED BY <1>1, <1>2, <1>3, <1>5, <1>6, <2>1, OnceQuiet
<1>8. CASE "RETAIN" \notin node[t].nstate
  <2>1. PICK r : r = node[t] OBVIOUS
  <2>2. node = [node EXCEPT ![t] = r] BY <2>1 DEF IInv, Typed
  <2>3. PICK n : n = [node EXCEPT ![t] = r] OBVIOUS
  <2>4. node' = Cleared(n, t) BY <1>2, <1>8, <2>2, <2>3
  <2>5. PICK G : G = Descendants(t) OBVIOUS
  <2>6. /\ Shape(t, G) /\ Gone(G) /\ node'[t] = r
        /\ \A u \in Task \ (G \cup {t}) : node'[u] = node[u]
        /\ \A u \in G : ~Held(u) BY <1>3, <2>1, <2>3, <2>4, <2>5, ClearedNodes
  <2>7. ~Preempted(t)' BY <1>3, <2>1, <2>6 DEF Preempted
  <2>8. Graph(t) \ (G \cup {t}) = {} BY <1>3, <2>5, NothingBelow
  <2>9. \A u \in Present \ G : node'[u] = node[u] BY <2>1, <2>6 DEF Present
  <2>10. /\ \A u \in Present \ G : "CANCELLED" \in node[u].estate => "CANCELLED" \in node'[u].estate
         /\ \A u \in Present \ (G \cup {t}) :
                 /\ node'[u].ran = node[u].ran
                 /\ "JOINED" \in node'[u].nstate <=> "JOINED" \in node[u].nstate
                 /\ node'[u].eptr => node[u].eptr \/ "CANCELLED" \in node'[u].estate
         /\ node'[t].eptr => "CANCELLED" \in node'[t].estate
         /\ node'[t].ran = node[t].ran BY <1>6, <2>1, <2>6, <2>9
  <2>11. f.pc \notin {"begin", "join"} /\ f.pc \notin {"work", "raise", "store", "leave"} BY <1>5
  <2>12. "CANCELLED" \in topology.estate => "CANCELLED" \in topology'.estate BY <1>2
  <2> QED BY <1>1, <1>2, <1>3, <1>5, <1>6, <2>6, <2>7, <2>8, <2>10, <2>11, <2>12, OnceLocal
<1> QED BY <1>7, <1>8

\* A step that changes no node and no frame.
LEMMA OnceStutter ==
    ASSUME IInv, Once, UNCHANGED <<node, stack, scheduled>>,
           "CANCELLED" \in topology.estate => "CANCELLED" \in topology'.estate
    PROVE  Once'
<1>0. Typed /\ Placed BY DEF IInv
<1>1. PICK K : K = Present OBVIOUS
<1>2. Gone({}) BY NoNode
<1>3. Closed(K)
  <2>1. Present \ {} = Present OBVIOUS
  <2> QED BY <1>1, <1>2, <2>1 DEF Gone
<1>4. Present' = K BY <1>1 DEF Present
<1>5. \A u : Preempted(u)' <=> Preempted(u) BY DEF Preempted
<1>6. Mild(K, {}, {}) BY <1>1, <1>3, <1>4, <1>5 DEF Mild
<1>7. Slots' = Slots /\ \A s : At(s)' = At(s) BY DEF Slots, At
<1>8. ASSUME NEW s \in Slots'
      PROVE  s \in Slots /\ At(s)' = At(s) /\ At(s).node \in K /\ At(s).at \in K \cup {NoTask}
  <2>1. s \in Slots /\ At(s)' = At(s) BY <1>7
  <2>2. PICK u : u = At(s).node OBVIOUS
  <2>3. u \in Present /\ Held(u) BY <2>1, <2>2, HeldFacts
  <2>4. At(s).at \in Ancestors(u) \cup {NoTask} BY <1>0, <2>1, <2>2 DEF Placed, Says
  <2>5. \A a \in Ancestors(u) : a \in Present BY <2>3, HeldClosed
  <2> QED BY <1>1, <2>1, <2>2, <2>3, <2>4, <2>5
<1>9. \A u : Held(u)' <=> Held(u)
  <2>1. \A u : Running1(u)' <=> Running1(u) BY <1>7 DEF Running1
  <2> QED BY <1>5, <2>1 DEF Held
<1>10. \A u \in K \ {} : (scheduled'[u] # 0 => scheduled[u] # 0) /\ (Held(u) => Held(u)' \/ Done(u)') BY <1>9
<1>11. \A s \in Slots' \ {} : s \in Slots /\ At(s)' = At(s) /\ At(s).node \in K \ {} /\ At(s).at \in K \cup {NoTask}
  BY <1>8
<1> QED BY <1>6, <1>10, <1>11, OnceKept

\* After a cancellation everything counts as done.
LEMMA CancelOnce == ASSUME IInv, Once, Cancel PROVE Once'
<1>1. UNCHANGED <<node, stack, scheduled>> /\ topology' = [topology EXCEPT !.estate = @ \cup {"CANCELLED"}]
  BY DEF Cancel
<1>2. topology \in [estate : SUBSET Flags, eptr : BOOLEAN] BY DEF IInv, Typed
<1>3. "CANCELLED" \in topology'.estate BY <1>1, <1>2
<1> QED BY <1>1, <1>3, OnceStutter

\* What an invocation names stays among the nodes that are kept.
LEMMA NamesKept ==
    ASSUME IInv, NEW K, Closed(K), NEW s \in Slots, At(s).node \in K
    PROVE  At(s).at \in K \cup {NoTask}
<1>0. Typed /\ Placed BY DEF IInv
<1>1. PICK u : u = At(s).node OBVIOUS
<1>2. u \in Task /\ u \in K BY <1>0, <1>1, SlotFrames
<1>3. Ancestors(u) \subseteq K BY <1>2, AncestorFacts
<1>4. At(s).at \in Ancestors(u) \cup {NoTask} BY <1>0, <1>1 DEF Placed, Says
<1> QED BY <1>3, <1>4

\* No node changes.
LEMMA MildQuiet ==
    ASSUME IInv, UNCHANGED node, "CANCELLED" \in topology.estate => "CANCELLED" \in topology'.estate
    PROVE  Mild(Present, {}, {}) /\ Closed(Present)
<1>1. Gone({}) BY NoNode
<1>2. Closed(Present)
  <2>1. Present \ {} = Present OBVIOUS
  <2> QED BY <1>1, <2>1 DEF Gone
<1>3. Present' = Present BY DEF Present
<1>4. \A u : Preempted(u)' <=> Preempted(u) BY DEF Preempted
<1> QED BY <1>2, <1>3, <1>4 DEF Mild

\* A worker takes up a scheduled task.
LEMMA TakeOnce == ASSUME IInv, Once, NEW w \in Worker, NEW t \in Task, Take(w, t) PROVE Once'
<1>0. Typed /\ Placed BY DEF IInv
<1>1. PICK f : f = Enter(t) OBVIOUS
<1>2. /\ scheduled[t] > 0 /\ scheduled' = [scheduled EXCEPT ![t] = @ - 1]
      /\ Push(w, f) /\ UNCHANGED <<node, topology>> BY <1>1 DEF Take
<1>3. t \in Present /\ Queued(t)
  <2>1. scheduled[t] # 0 BY <1>2
  <2> QED BY <2>1, HeldFacts
<1>4. scheduled'[t] = 0 /\ \A u \in Task \ {t} : scheduled'[u] = scheduled[u]
  <2>1. scheduled \in [Task -> Nat] /\ scheduled[t] = 1 BY <1>0, <1>3 DEF Typed, Queued
  <2> QED BY <1>2, <2>1
<1>5. f \in FrameType /\ f.node = t /\ f.pc = "begin" /\ f.at = NoTask
  BY <1>1 DEF Enter, FrameType, Places, Nodes
<1>6. Pushed(w, f) BY <1>0, <1>5, <1>2, PushSlots
<1>7. PICK k : k = NewSlot(w) OBVIOUS
<1>8. /\ k \notin Slots /\ Slots' = Slots \cup {k} /\ At(k)' = f
      /\ \A u \in Slots : At(u)' = At(u) BY <1>6, <1>7 DEF Pushed
<1>9. PICK K : K = Present OBVIOUS
<1>10. Mild(K, {}, {}) /\ Closed(K) /\ Present \subseteq Task BY <1>2, <1>9, MildQuiet DEF Present
<1>11. PICK F : F = {k} OBVIOUS
<1>12. ASSUME NEW u \in K \ {} PROVE (scheduled'[u] # 0 => scheduled[u] # 0) /\ (Held(u) => Held(u)')
  <2>1. u \in Task BY <1>9, <1>10
  <2>2. Preempted(u)' <=> Preempted(u) BY <1>2 DEF Preempted
  <2>3. Running1(u) \/ u = t => Running1(u)' BY <1>5, <1>8 DEF Running1
  <2> QED BY <1>2, <1>4, <2>1, <2>2, <2>3 DEF Held
<1>13. ASSUME NEW s \in Slots' \ F
       PROVE  s \in Slots /\ At(s)' = At(s) /\ At(s).node \in K \ {} /\ At(s).at \in K \cup {NoTask}
  <2>1. s \in Slots /\ At(s)' = At(s) BY <1>8, <1>11
  <2>2. At(s).node \in K BY <1>9, <2>1, HeldFacts
  <2> QED BY <1>10, <2>1, <2>2, NamesKept
<1>14. FrameOnce(k)'
  <2>1. NodeOnce(t) BY <1>3 DEF Once
  <2>2. scheduled[t] # 0 BY <1>2
  <2>3. Fresh(t) BY <2>1, <2>2 DEF NodeOnce
  <2>4. Fresh(t)' BY <1>2, <2>3 DEF Fresh, IsCancelled, InTopology, Ancestors, Root
  <2> QED BY <1>5, <1>8, <2>4 DEF FrameOnce
<1>15. \A c \in {} \cap K : node[c].parent \in {} \cup {NoTask} \/ (Held(c) /\ Done(c)') OBVIOUS
<1>16. (\A u \in {} \cap Present' : NodeOnce(u)') /\ \A s \in F \cap Slots' : FrameOnce(s)' BY <1>11, <1>14
<1> QED BY <1>10, <1>12, <1>13, <1>15, <1>16, OnceKept

\* An invocation ends.
LEMMA OncePop ==
    ASSUME IInv, Once, NEW w \in Worker, NEW x, Running(w, x), x # "join", Pop(w), NEW t, t = Top(w).node,
           NEW T, NEW R, Mild(Present, T, R),
           \A c \in T \cap Present : node[c].parent \in T \cup {NoTask} \/ (Held(c) /\ Done(c)'),
           \A u \in Present : scheduled'[u] \in Nat,
           \A u \in Present \ T : scheduled'[u] # 0 <=> scheduled[u] # 0,
           t \in T \/ Done(t)',
           \A u \in T : u = t \/ ~Held(u),
           \A u \in T \cap Present' : NodeOnce(u)'
    PROVE  Once'
<1>0. Typed /\ Placed BY DEF IInv
<1>1. /\ stack[w] # <<>> /\ TopSlot(w) \in Slots /\ At(TopSlot(w)) = Top(w)
      /\ t \in Task /\ t \in Present /\ Held(t) /\ scheduled[t] = 0 BY RunningFacts DEF Running, Invocation
<1>2. Popped(w) BY <1>0, <1>1, PopSlots
<1>3. PICK top : top = TopSlot(w) OBVIOUS
<1>4. /\ Slots' = Slots \ {top} /\ top \in Slots /\ At(top).node = t
      /\ \A u \in Slots' : At(u)' = At(u) BY <1>1, <1>2, <1>3 DEF Popped
<1>5. \A s \in Slots : At(s).node = t => s = top BY <1>0, <1>4 DEF Placed, Single
<1>6. PICK K : K = Present OBVIOUS
<1>7. Mild(K, T, R) /\ Closed(K) /\ K \subseteq Task BY <1>6 DEF Mild, Present
<1>8. ASSUME NEW u \in K \ T PROVE (scheduled'[u] # 0 => scheduled[u] # 0) /\ (Held(u) => Held(u)' \/ Done(u)')
  <2>1. (scheduled'[u] # 0 <=> scheduled[u] # 0) /\ (Preempted(u)' <=> Preempted(u)) BY <1>6, <1>7 DEF Mild
  <2>2. ASSUME Running1(u), u # t PROVE Running1(u)'
    <3>1. PICK s \in Slots : At(s).node = u BY <2>2 DEF Running1
    <3>2. s # top BY <1>4, <2>2, <3>1
    <3> QED BY <1>4, <3>1, <3>2 DEF Running1
  <2>3. u = t => Done(t)' BY <1>8
  <2>4. scheduled[u] \in Nat /\ scheduled[u] > 0 => scheduled[u] # 0 OBVIOUS
  <2>5. u # t /\ Held(u) => scheduled'[u] # 0 \/ Running1(u)' \/ Preempted(u)'
    <3>1. scheduled[u] \in Nat BY <1>0, <1>7 DEF Typed
    <3> QED BY <2>1, <2>2, <2>4, <3>1 DEF Held
  <2>6. ASSUME u # t, Held(u) PROVE Held(u)' \/ Done(u)'
    <3>1. ASSUME scheduled'[u] # 0 PROVE Held(u)' \/ Done(u)'
      <4>1. scheduled'[u] \in Nat BY <1>6
      <4>2. scheduled'[u] > 0 BY <3>1, <4>1
      <4> QED BY <4>2 DEF Held
    <3> QED BY <2>5, <2>6, <3>1 DEF Held
  <2> QED BY <2>1, <2>3, <2>6
<1>9. ASSUME NEW s \in Slots' \ {}
      PROVE  s \in Slots /\ At(s)' = At(s) /\ At(s).node \in K \ T /\ At(s).at \in K \cup {NoTask}
  <2>1. s \in Slots /\ At(s)' = At(s) /\ s # top BY <1>4
  <2>2. At(s).node \in K /\ Held(At(s).node) /\ At(s).node # t BY <1>5, <1>6, <2>1, HeldFacts
  <2> QED BY <1>7, <2>1, <2>2, NamesKept
<1>10. PICK F : F = {} OBVIOUS
<1>11. /\ \A s \in Slots' \ F : s \in Slots /\ At(s)' = At(s) /\ At(s).node \in K \ T /\ At(s).at \in K \cup {NoTask}
       /\ \A s \in F \cap Slots' : FrameOnce(s)' BY <1>9, <1>10
<1>12. \A c \in T \cap K : node[c].parent \in T \cup {NoTask} \/ (Held(c) /\ Done(c)') BY <1>6
<1> QED BY <1>7, <1>8, <1>11, <1>12, OnceKept

\* The run ends.
LEMMA FinishOnce == ASSUME IInv, Once, NEW w \in Worker, Finish(w) PROVE Once'
<1>1. PICK t : t = Top(w).node OBVIOUS
<1>2. Running(w, "finish") /\ Pop(w) /\ UNCHANGED <<node, topology, scheduled>> BY DEF Finish
<1>3. Running(w, "finish") /\ Pop(w) BY <1>2
<1>4. t \in Present /\ node[t].kind # "anchor" BY <1>1, <1>3, RunningFacts DEF Running, Invocation
<1>5. Done(t) BY <1>1, <1>3, <1>4, OnceRunning
<1>6. Done(t)' BY <1>2, <1>5 DEF Done, IsCancelled, InTopology, Ancestors, Root
<1>7. PICK T : T = {} OBVIOUS
<1>8. Mild(Present, T, {}) BY <1>2, <1>7, MildQuiet
<1>9. \A u \in Present : scheduled'[u] \in Nat /\ scheduled'[u] = scheduled[u] BY <1>2 DEF IInv, Typed, Present
<1>10. /\ \A c \in T \cap Present : node[c].parent \in T \cup {NoTask} \/ (Held(c) /\ Done(c)')
       /\ \A u \in T : u = t \/ ~Held(u)
       /\ \A u \in T \cap Present' : NodeOnce(u)' BY <1>7
<1> QED BY <1>1, <1>3, <1>6, <1>8, <1>9, <1>10, OncePop

\* A counter that is counted down changes nothing else.
LEMMA MildCounted ==
    ASSUME IInv, NEW p \in Present, node' = [node EXCEPT ![p].join = @ - 1], UNCHANGED topology
    PROVE  /\ Mild(Present, {}, {}) /\ Closed(Present) /\ Present' = Present
           /\ \A u \in Present : node'[u].ran = node[u].ran /\ (Preempted(u)' <=> Preempted(u))
<1>1. node \in [Task -> NodeType] /\ p \in Task /\ node[p] \in NodeType /\ Present \subseteq Task
  BY DEF IInv, Typed, Present
<1>2. PICK r : r = [node[p] EXCEPT !.join = @ - 1] OBVIOUS
<1>3. node' = [node EXCEPT ![p] = r] BY <1>2
<1>4. /\ r.kind = node[p].kind /\ r.parent = node[p].parent /\ r.nstate = node[p].nstate
      /\ r.estate = node[p].estate /\ r.eptr = node[p].eptr /\ r.ran = node[p].ran
  BY <1>1, <1>2 DEF NodeType
<1>5. \A u \in Task : /\ node'[u].kind = node[u].kind /\ node'[u].parent = node[u].parent
                      /\ node'[u].nstate = node[u].nstate /\ node'[u].estate = node[u].estate
                      /\ node'[u].eptr = node[u].eptr /\ node'[u].ran = node[u].ran
  <2>1. node'[p] = r /\ \A u \in Task \ {p} : node'[u] = node[u] BY <1>1, <1>3
  <2> QED BY <1>4, <2>1
<1>6. Closed(Present) BY DEF IInv, Placed, Forest, Closed, Present
<1>7. Present' = Present BY <1>5 DEF Present
<1>8. \A u \in Task : Preempted(u)' <=> Preempted(u) BY <1>5 DEF Preempted
<1>9. \A u \in Present : u \in Task BY <1>1
<1>10. Mild(Present, {}, {}) BY <1>5, <1>6, <1>7, <1>8, <1>9 DEF Mild
<1> QED BY <1>5, <1>6, <1>7, <1>8, <1>9, <1>10

\* A task leaves the executor's hands, and has run.
LEMMA CountParentOnce == ASSUME IInv, Once, NEW w \in Worker, CountParent(w) PROVE Once'
<1>0. Typed /\ Placed BY DEF IInv
<1>1. PICK t : t = Top(w).node OBVIOUS
<1>2. PICK p : p = Top(w).at OBVIOUS
<1>3. PICK f : f = Enter(p) OBVIOUS
<1>4. /\ Running(w, "count") /\ node' = [node EXCEPT ![p].join = @ - 1]
      /\ IF node[p].join = 1 /\ Top(w).again THEN Become(w, f) ELSE Pop(w)
      /\ UNCHANGED <<topology, scheduled>> BY <1>2, <1>3 DEF CountParent
<1>5. Running(w, "count") BY <1>4
<1>6. /\ t \in Present /\ Held(t) /\ node[t].kind # "anchor" /\ p = node[t].parent /\ p # NoTask
      /\ stack[w] # <<>> /\ TopSlot(w) \in Slots /\ At(TopSlot(w)) = Top(w)
      /\ Top(w).again <=> Preempted(p) BY <1>1, <1>2, <1>5, RunningFacts DEF Running, Invocation, Names
<1>7. p \in Present /\ Held(p) /\ p \in Task BY <1>6, HeldFacts DEF Present
<1>8. /\ Mild(Present, {}, {}) /\ Closed(Present) /\ Present' = Present
      /\ \A u \in Present : node'[u].ran = node[u].ran /\ (Preempted(u)' <=> Preempted(u))
  BY <1>4, <1>7, MildCounted
<1>9. \A u \in Present : (Done(u) => Done(u)')
  <2>1. ASSUME NEW u \in Present PROVE Done(u) => Done(u)'
    <3>1. node[u].parent \notin {} OBVIOUS
    <3> QED BY <1>8, <3>1, MildKept
  <2> QED BY <2>1
<1>10. Done(t)'
  <2>1. Done(t) BY <1>1, <1>5, <1>6, OnceRunning
  <2> QED BY <1>6, <1>9, <2>1
<1>11. PICK T : T = {} OBVIOUS
<1>12. Mild(Present, T, {}) BY <1>8, <1>11
<1>13. \A u \in Present : scheduled'[u] \in Nat /\ scheduled'[u] = scheduled[u] BY <1>4 DEF IInv, Typed, Present
<1>14. /\ \A c \in T \cap Present : node[c].parent \in T \cup {NoTask} \/ (Held(c) /\ Done(c)')
       /\ \A u \in T : u = t \/ ~Held(u)
       /\ \A u \in T \cap Present' : NodeOnce(u)' BY <1>11
<1>15. ASSUME ~ (node[p].join = 1 /\ Top(w).again) PROVE Once'
  <2>1. Pop(w) BY <1>4, <1>15
  <2> QED BY <1>1, <1>5, <1>10, <1>12, <1>13, <1>14, <2>1, OncePop
<1>16. ASSUME node[p].join = 1, Top(w).again PROVE Once'
  <2>1. Become(w, f) /\ Preempted(p) BY <1>4, <1>6, <1>16
  <2>2. f \in FrameType /\ f.node = p /\ f.pc = "begin" /\ f.at = NoTask
    BY <1>3, <1>7 DEF Enter, FrameType, Places, Nodes
  <2>3. Changed(w, f) BY <1>0, <1>6, <2>1, <2>2, BecomeSlots
  <2>4. PICK top : top = TopSlot(w) OBVIOUS
  <2>5. /\ Slots' = Slots /\ top \in Slots /\ At(top).node = t /\ At(top)' = f
        /\ \A u \in Slots \ {top} : At(u)' = At(u) BY <1>1, <1>6, <2>3, <2>4 DEF Changed
  <2>6. PICK F : F = {top} OBVIOUS
  <2>7. ASSUME NEW s \in Slots' \ F
        PROVE  s \in Slots /\ At(s)' = At(s) /\ At(s).node \in Present \ {} /\ At(s).at \in Present \cup {NoTask}
    <3>1. s \in Slots /\ At(s)' = At(s) BY <2>5, <2>6, <2>7
    <3>2. At(s).node \in Present BY <3>1, HeldFacts
    <3> QED BY <1>8, <3>1, <3>2, NamesKept
  <2>8. FrameOnce(top)'
    <3>1. Preempted(p)' BY <1>7, <1>8, <2>1
    <3> QED BY <2>2, <2>5, <3>1 DEF FrameOnce
  <2>9. ASSUME NEW u \in Present \ {} PROVE (scheduled'[u] # 0 => scheduled[u] # 0) /\ (Held(u) => Held(u)' \/ Done(u)')
    <3>1. CASE u = t BY <1>10, <1>13, <3>1
    <3>2. CASE u # t
      <4>1. ASSUME Running1(u) PROVE Running1(u)'
        <5>1. PICK s \in Slots : At(s).node = u BY <4>1 DEF Running1
        <5>2. s # top BY <2>5, <3>2, <5>1
        <5> QED BY <2>5, <5>1, <5>2 DEF Running1
      <4> QED BY <1>4, <1>8, <4>1 DEF Held
    <3> QED BY <3>1, <3>2
  <2>10. \A c \in {} \cap Present : node[c].parent \in {} \cup {NoTask} \/ (Held(c) /\ Done(c)') OBVIOUS
  <2>11. (\A u \in {} \cap Present' : NodeOnce(u)') /\ \A s \in F \cap Slots' : FrameOnce(s)' BY <2>6, <2>8
  <2> QED BY <1>8, <2>7, <2>9, <2>10, <2>11, OnceKept
<1> QED BY <1>15, <1>16

\* The root begins anew; no graph is left below it.
LEMMA RepeatOnce == ASSUME IInv, Once, NEW w \in Worker, Repeat(w) PROVE Once'
<1>0. Typed /\ Placed BY DEF IInv
<1>1. PICK t : t = Top(w).node OBVIOUS
<1>2. PICK r1 : r1 = [node[t] EXCEPT !.nstate = {}, !.estate = {}, !.eptr = FALSE, !.join = 0, !.ran = 0] OBVIOUS
<1>3. PICK r2 : r2 = [node[t] EXCEPT !.ran = 0] OBVIOUS
<1>4. /\ Running(w, "finish") /\ t = Root /\ Pop(w) /\ UNCHANGED topology /\ ScheduleAll({t})
      /\ \/ node' = [SetUp(node, NoTask, {t}) EXCEPT ![t].ran = 0]
         \/ node' = [node EXCEPT ![t].ran = 0] BY <1>1 DEF Repeat
<1>5. Running(w, "finish") /\ Pop(w) BY <1>4
<1>6. /\ t \in Task /\ t \in Present /\ Flight(t) = {} /\ ~Preempted(t) /\ scheduled[t] = 0
      /\ node[t] \in NodeType /\ node[t].parent = NoTask
  <2>1. node[t].parent = NoTask BY <1>0, <1>4 DEF Placed, Forest
  <2>2. /\ t \in Task /\ t \in Present /\ Flight(t) = {} /\ ~Preempted(t) /\ scheduled[t] = 0
        /\ node[t] \in NodeType BY <1>1, <1>5, RunningFacts DEF Running, Invocation
  <2> QED BY <2>1, <2>2
<1>7. PICK r \in {r1, r2} : node' = [node EXCEPT ![t] = r]
  <2>1. node \in [Task -> NodeType] BY <1>0 DEF Typed
  <2>2. CASE node' = [node EXCEPT ![t].ran = 0] BY <1>3, <2>2
  <2>3. CASE node' = [SetUp(node, NoTask, {t}) EXCEPT ![t].ran = 0]
    <3>1. PICK m : m = SetUp(node, NoTask, {t}) OBVIOUS
    <3>2. PICK q : q = [node[t] EXCEPT !.nstate = {}, !.estate = {}, !.eptr = FALSE, !.join = 0] OBVIOUS
    <3>3. m = [s \in Task |-> IF s = t THEN q ELSE node[s]] BY <3>1, <3>2, TaskFacts DEF SetUp
    <3>4. node' = [m EXCEPT ![t].ran = 0] BY <2>3, <3>1
    <3>5. node' = [s \in Task |-> IF s = t THEN [q EXCEPT !.ran = 0] ELSE node[s]] BY <1>6, <3>3, <3>4
    <3>6. [q EXCEPT !.ran = 0] = r1 BY <1>2, <1>6, <3>2 DEF NodeType
    <3>7. node' = [node EXCEPT ![t] = r1] BY <2>1, <3>5, <3>6
    <3> QED BY <3>7
  <2> QED BY <1>4, <2>2, <2>3
<1>8. r.kind = node[t].kind /\ r.parent = node[t].parent /\ r.ran = 0 /\ "PREEMPTED" \notin r.nstate
  <2>1. CASE r = r1 BY <1>2, <1>6, <2>1 DEF NodeType
  <2>2. CASE r = r2 BY <1>3, <1>6, <2>2 DEF NodeType, Preempted
  <2> QED BY <1>7, <2>1, <2>2
<1>9. PICK R : R = IF r = r1 THEN {t} ELSE {} OBVIOUS
<1>10. /\ r = r1 => r.nstate = {} /\ r.eptr = FALSE
       /\ r # r1 => r.nstate = node[t].nstate /\ r.estate = node[t].estate /\ r.eptr = node[t].eptr
  <2>1. r1.nstate = {} /\ r1.eptr = FALSE BY <1>2, <1>6 DEF NodeType
  <2>2. r2.nstate = node[t].nstate /\ r2.estate = node[t].estate /\ r2.eptr = node[t].eptr
    BY <1>3, <1>6 DEF NodeType
  <2> QED BY <1>7, <2>1, <2>2
<1>11. node'[t] = r /\ \A u \in Task \ {t} : node'[u] = node[u] BY <1>0, <1>6, <1>7 DEF Typed
<1>12. ~Preempted(t)' /\ \A u \in Task \ {t} : Preempted(u)' <=> Preempted(u) BY <1>8, <1>11 DEF Preempted
<1>13. Present' = Present /\ Present \subseteq Task BY <1>6, <1>8, <1>11 DEF Present
<1>14. Closed(Present) BY <1>0 DEF Placed, Forest, Closed, Present
<1>15. PICK T : T = {t} OBVIOUS
<1>16. Mild(Present, T, R)
  <2>1. \A u \in Present : node'[u].kind = node[u].kind /\ node'[u].parent = node[u].parent
    BY <1>8, <1>11, <1>13
  <2>2. \A u \in Present \ R : "CANCELLED" \in node[u].estate => "CANCELLED" \in node'[u].estate
    BY <1>9, <1>10, <1>11, <1>13
  <2>3. \A u \in Present \ T : node'[u] = node[u] /\ (Preempted(u)' <=> Preempted(u))
    BY <1>11, <1>12, <1>13, <1>15
  <2>4. R \subseteq T \cap Present /\ \A v \in R : Flight(v) = {} BY <1>6, <1>9, <1>15
  <2> QED BY <1>4, <1>13, <1>14, <2>1, <2>2, <2>3, <2>4 DEF Mild
<1>17. \A u \in Task : scheduled'[u] = scheduled[u] + (IF u \in {t} THEN 1 ELSE 0) BY <1>4 DEF ScheduleAll
<1>18. \A u \in Task : scheduled[u] \in Nat BY <1>0 DEF Typed
<1>19. /\ \A u \in Present : scheduled'[u] \in Nat
       /\ \A u \in Present \ T : scheduled'[u] # 0 <=> scheduled[u] # 0
  BY <1>13, <1>15, <1>17, <1>18
<1>20. NodeOnce(t)'
  <2>1. node'[t].ran = 0 BY <1>8, <1>11
  <2>2. ASSUME "JOINED" \in node'[t].nstate, NEW c \in Graph(t)' PROVE Done(c)'
    <3>1. r # r1 BY <1>10, <1>11, <2>2
    <3>2. R = {} /\ "JOINED" \in node[t].nstate BY <1>9, <1>10, <1>11, <2>2, <3>1
    <3>3. c \in Present /\ node'[c].parent = t BY <1>13 DEF Graph
    <3>4. c # t BY <1>6, <1>8, <1>11, <3>3, TaskFacts
    <3>5. c \in Graph(t) /\ node'[c] = node[c] BY <1>11, <1>13, <3>3, <3>4 DEF Graph
    <3>6. Done(c) BY <1>6, <3>2, <3>5 DEF Once, NodeOnce
    <3>7. node[c].parent \notin R /\ node'[c].ran = node[c].ran BY <3>2, <3>5
    <3> QED BY <1>16, <3>3, <3>6, <3>7, MildKept
  <2>3. node'[t].eptr => "CANCELLED" \in node'[t].estate
    <3>1. node[t].eptr => "CANCELLED" \in node[t].estate BY <1>6 DEF Once, NodeOnce
    <3> QED BY <1>10, <1>11, <3>1
  <2> QED BY <1>12, <2>1, <2>2, <2>3 DEF NodeOnce, Fresh
<1>21. /\ \A c \in T \cap Present : node[c].parent \in T \cup {NoTask} \/ (Held(c) /\ Done(c)')
       /\ t \in T
       /\ \A u \in T : u = t \/ ~Held(u)
       /\ \A u \in T \cap Present' : NodeOnce(u)' BY <1>6, <1>15, <1>20
<1> QED BY <1>1, <1>5, <1>16, <1>19, <1>21, OncePop

\* The tasks A of the graph of t are set up: what is left to show of them.
LEMMA MildSetUp ==
    ASSUME IInv, Once, NEW t \in Present, Held(t), NEW A, NEW r \in NodeType, SetUpDone(t, A, r), A = Graph(t),
           \A c \in A : Fresh(c),
           r.ran = node[t].ran, r.eptr = node[t].eptr,
           "CANCELLED" \in r.estate <=> "CANCELLED" \in node[t].estate,
           "JOINED" \notin r.nstate, Done(t), scheduled'[t] = 0,
           UNCHANGED topology
    PROVE  /\ Mild(Present, {t} \cup A, A) /\ Closed(Present)
           /\ Done(t)' /\ Present' = Present
           /\ \A c \in {t} \cup A : NodeOnce(c)'
           /\ \A c \in A : Fresh(c)'
           /\ "JOINED" \notin node'[t].nstate
<1>0. Typed /\ Placed BY DEF IInv
<1>1. /\ Shape(t, {}) /\ Gone({})
      /\ node'[t] = Counting(r, Cardinality(A))
      /\ \A u \in Task \ (A \cup {t}) : node'[u] = node[u]
      /\ A \in SUBSET Present /\ t \notin A
      /\ \A c \in A : ~Held(c) /\ ~Preempted(c)'
      /\ \A c \in A : node'[c] = Renewed(node[c]) BY DEF SetUpDone
<1>2. t \in Task /\ Present \subseteq Task BY DEF Present
<1>3. Closed(Present)
  <2>1. Present \ {} = Present OBVIOUS
  <2> QED BY <1>1, <2>1 DEF Gone
<1>4. /\ node'[t].ran = node[t].ran /\ node'[t].eptr = node[t].eptr /\ node'[t].nstate = r.nstate
      /\ "CANCELLED" \in node'[t].estate <=> "CANCELLED" \in node[t].estate
  BY <1>1 DEF Counting, NodeType
<1>5. \A c \in A : /\ node'[c].ran = node[c].ran /\ node'[c].nstate = {} /\ node'[c].eptr = FALSE
  <2>1. ASSUME NEW c \in A PROVE node'[c].ran = node[c].ran /\ node'[c].nstate = {} /\ node'[c].eptr = FALSE
    <3>1. node[c] \in NodeType BY <1>0, <1>1, <1>2 DEF Typed
    <3>2. node'[c] = Renewed(node[c]) BY <1>1
    <3> QED BY <3>1, <3>2 DEF Renewed, NodeType
  <2> QED BY <2>1
<1>6. \A v \in A : Flight(v) = {}
  <2>1. ASSUME NEW v \in A, NEW c \in Flight(v) PROVE FALSE
    <3>1. c \in Present /\ Held(c) /\ node[c].parent = v BY DEF Flight, Graph
    <3>2. v \in Task BY <1>1, <1>2
    <3>3. Held(v) BY <3>1, <3>2, HeldFacts, TaskFacts
    <3> QED BY <1>1, <3>3
  <2> QED BY <2>1
<1>7. Present' = Present
  <2>1. Present' = Present \ {} BY <1>1, ShapePresent
  <2> QED BY <2>1
<1>8. \A u \in Task : node'[u].kind = node[u].kind /\ node'[u].parent = node[u].parent BY <1>1 DEF Shape
<1>9. Mild(Present, {t} \cup A, A)
  <2>1. \A u \in Present : node'[u].kind = node[u].kind /\ node'[u].parent = node[u].parent BY <1>2, <1>8
  <2>2. \A u \in Present \ A : u = t \/ node'[u] = node[u] BY <1>1, <1>2
  <2>3. \A u \in Present \ A : "CANCELLED" \in node[u].estate => "CANCELLED" \in node'[u].estate BY <1>4, <2>2
  <2>4. \A u \in Present \ ({t} \cup A) : node'[u] = node[u] /\ (Preempted(u)' <=> Preempted(u))
    <3>1. \A u \in Present \ ({t} \cup A) : node'[u] = node[u] BY <2>2
    <3> QED BY <3>1 DEF Preempted
  <2>5. A \subseteq ({t} \cup A) \cap Present BY <1>1
  <2> QED BY <1>3, <1>6, <1>7, <2>1, <2>3, <2>4, <2>5 DEF Mild
<1>10. \A u \in Present : node[u].parent \notin A /\ node'[u].ran = node[u].ran
                            => (Done(u) => Done(u)') /\ (Fresh(u) => Fresh(u)') BY <1>9, MildKept
<1>11. node[t].parent \notin A
  <2>1. SUFFICES ASSUME node[t].parent \in A PROVE FALSE OBVIOUS
  <2>2. node[t].parent \in Task BY <1>1, <1>2, <2>1
  <2>3. t \in Flight(node[t].parent) BY <2>2, HeldFacts, TaskFacts
  <2> QED BY <1>6, <2>1, <2>3
<1>12. Done(t)' BY <1>4, <1>10, <1>11
<1>13. \A c \in A : Fresh(c)'
  <2>1. ASSUME NEW c \in A PROVE Fresh(c)'
    <3>1. c \in Present /\ node[c].parent = t BY DEF Graph
    <3>2. node[c].parent \notin A BY <1>1, <3>1
    <3> QED BY <1>5, <1>10, <3>1, <3>2
  <2> QED BY <2>1
<1>14. NodeOnce(t)'
  <2>1. NodeOnce(t) BY DEF Once
  <2>2. "JOINED" \notin node'[t].nstate BY <1>4
  <2> QED BY <1>4, <1>12, <2>1, <2>2 DEF NodeOnce
<1>15. ASSUME NEW c \in A PROVE NodeOnce(c)'
  <2>1. NodeOnce(c) BY <1>1 DEF Once
  <2>2. node'[c].ran <= 1 /\ "JOINED" \notin node'[c].nstate /\ ~Preempted(c)' /\ ~node'[c].eptr
    BY <1>1, <1>5, <2>1 DEF NodeOnce
  <2> QED BY <1>13, <2>2 DEF NodeOnce
<1> QED BY <1>3, <1>4, <1>7, <1>9, <1>12, <1>13, <1>14, <1>15

\* A graph that was not joined is run after the callable, and by nobody else.
LEMMA PreemptOnce == ASSUME IInv, Once, NEW w \in Worker, Preempt(w) PROVE Once'
<1>0. Typed /\ Placed BY DEF IInv
<1>1. PICK t : t = Top(w).node OBVIOUS
<1>2. PICK r : r = [node[t] EXCEPT !.nstate = @ \cup {"PREEMPTED"}] OBVIOUS
<1>3. PICK n : n = [node EXCEPT ![t] = r] OBVIOUS
<1>4. PICK A : A = Graph(t) OBVIOUS
<1>5. Running(w, "leave") /\ node[t].kind = "subflow" /\ Pop(w) /\ "JOINED" \notin node[t].nstate
  BY <1>1 DEF Preempt
<1>6. /\ ScheduleAll(A) /\ UNCHANGED topology
      /\ node' = SetUp([node EXCEPT ![t].nstate = @ \cup {"PREEMPTED"}], t, A)
  BY <1>1, <1>4 DEF Preempt
<1>7. Running(w, "leave") /\ Pop(w) BY <1>5
<1>8. t \in Task /\ t \in Present /\ Held(t) /\ scheduled[t] = 0 /\ Flight(t) = {} /\ node[t] \in NodeType
  BY <1>1, <1>7, RunningFacts DEF Running, Invocation
<1>9. /\ r \in NodeType /\ r.kind = node[t].kind /\ r.parent = node[t].parent /\ r.join = node[t].join
      /\ r.nstate = node[t].nstate \cup {"PREEMPTED"} /\ r.ran = node[t].ran /\ r.estate = node[t].estate
      /\ r.eptr = node[t].eptr
  <2>1. node[t].nstate \cup {"PREEMPTED"} \in SUBSET Marks BY <1>8 DEF NodeType, Marks
  <2> QED BY <1>2, <1>8, <2>1 DEF NodeType
<1>10. [node EXCEPT ![t].nstate = @ \cup {"PREEMPTED"}] = n
  <2>1. node \in [Task -> NodeType] BY <1>0 DEF Typed
  <2> QED BY <1>2, <1>3, <1>8, <2>1
<1>11. node' = SetUp(n, t, A) BY <1>6, <1>10
<1>12. SetUpDone(t, A, r) BY <1>3, <1>4, <1>8, <1>9, <1>11, SetUpNodes
<1>13. Done(t) /\ \A c \in A : Fresh(c) BY <1>1, <1>4, <1>5, <1>7, OnceRunning
<1>14. /\ A \in SUBSET Present /\ t \notin A /\ \A c \in A : ~Held(c) /\ node[c].parent = t
  BY <1>4, <1>12 DEF SetUpDone, Graph
<1>15. \A u \in Task : scheduled'[u] = scheduled[u] + (IF u \in A THEN 1 ELSE 0) BY <1>6 DEF ScheduleAll
<1>16. \A u \in Task : scheduled[u] \in Nat BY <1>0 DEF Typed
<1>17. scheduled'[t] = 0 BY <1>8, <1>14, <1>15
<1>18. "JOINED" \notin r.nstate BY <1>5, <1>9
<1>19. PICK T : T = {t} \cup A OBVIOUS
<1>20. /\ Mild(Present, T, A) /\ Done(t)' /\ Present' = Present /\ \A c \in T : NodeOnce(c)'
  BY <1>4, <1>6, <1>8, <1>9, <1>12, <1>13, <1>17, <1>18, <1>19, MildSetUp
<1>21. /\ \A u \in Present : scheduled'[u] \in Nat
       /\ \A u \in Present \ T : scheduled'[u] # 0 <=> scheduled[u] # 0
  <2>1. Present \subseteq Task BY DEF Present
  <2> QED BY <1>15, <1>16, <1>19, <2>1
<1>22. /\ \A c \in T \cap Present : node[c].parent \in T \cup {NoTask} \/ (Held(c) /\ Done(c)')
       /\ \A u \in T : u = t \/ ~Held(u)
       /\ \A u \in T \cap Present' : NodeOnce(u)' BY <1>8, <1>14, <1>19, <1>20
<1> QED BY <1>1, <1>7, <1>20, <1>21, <1>22, OncePop

\* A join runs a graph that was not run.
LEMMA JoinOnce == ASSUME IInv, Once, NEW w \in Worker, Join(w) PROVE Once'
<1>0. Typed /\ Placed BY DEF IInv
<1>1. PICK t : t = Top(w).node OBVIOUS
<1>2. PICK r : r = [node[t] EXCEPT !.estate = @ \cup {"ANCHORED"}, !.joins = @ + 1] OBVIOUS
<1>3. PICK n : n = [node EXCEPT ![t] = r] OBVIOUS
<1>4. PICK A : A = Graph(t) OBVIOUS
<1>5. Running(w, "work") /\ Goto(w, "join") /\ node[t].kind = "subflow" /\ "JOINED" \notin node[t].nstate
  BY <1>1 DEF Join
<1>6. /\ ScheduleAll(A) /\ UNCHANGED topology
      /\ node' = SetUp([node EXCEPT ![t].estate = @ \cup {"ANCHORED"}, ![t].joins = @ + 1], t, A)
  BY <1>1, <1>4 DEF Join
<1>7. Running(w, "work") /\ Goto(w, "join") BY <1>5
<1>8. /\ t \in Task /\ t \in Present /\ Held(t) /\ scheduled[t] = 0 /\ Flight(t) = {} /\ node[t] \in NodeType
      /\ ~Preempted(t) /\ TopSlot(w) \in Slots /\ At(TopSlot(w)) = Top(w)
  BY <1>1, <1>7, RunningFacts DEF Running, Invocation
<1>9. /\ r \in NodeType /\ r.kind = node[t].kind /\ r.parent = node[t].parent /\ r.join = node[t].join
      /\ r.nstate = node[t].nstate /\ r.ran = node[t].ran /\ r.eptr = node[t].eptr
      /\ "CANCELLED" \in r.estate <=> "CANCELLED" \in node[t].estate
  <2>1. node[t].estate \cup {"ANCHORED"} \in SUBSET Flags /\ node[t].joins + 1 \in Nat
    BY <1>8 DEF NodeType, Flags
  <2> QED BY <1>2, <1>8, <2>1 DEF NodeType
<1>10. [node EXCEPT ![t].estate = @ \cup {"ANCHORED"}, ![t].joins = @ + 1] = n
  <2>1. node \in [Task -> NodeType] BY <1>0 DEF Typed
  <2> QED BY <1>2, <1>3, <1>8, <2>1 DEF NodeType
<1>11. node' = SetUp(n, t, A) BY <1>6, <1>10
<1>12. SetUpDone(t, A, r) BY <1>3, <1>4, <1>8, <1>9, <1>11, SetUpNodes
<1>13. Done(t) /\ \A c \in A : Fresh(c) BY <1>1, <1>4, <1>5, <1>7, OnceRunning
<1>14. /\ A \in SUBSET Present /\ t \notin A /\ \A c \in A : ~Held(c) /\ node[c].parent = t
  BY <1>4, <1>12 DEF SetUpDone, Graph
<1>15. \A u \in Task : scheduled'[u] = scheduled[u] + (IF u \in A THEN 1 ELSE 0) BY <1>6 DEF ScheduleAll
<1>16. \A u \in Task : scheduled[u] \in Nat BY <1>0 DEF Typed
<1>17. scheduled'[t] = 0 BY <1>8, <1>14, <1>15
<1>18. "JOINED" \notin r.nstate BY <1>5, <1>9
<1>19. PICK T : T = {t} \cup A OBVIOUS
<1>20. /\ Mild(Present, T, A) /\ Closed(Present) /\ Done(t)' /\ Present' = Present
       /\ \A c \in T : NodeOnce(c)'
       /\ "JOINED" \notin node'[t].nstate
  BY <1>4, <1>6, <1>8, <1>9, <1>12, <1>13, <1>17, <1>18, <1>19, MildSetUp
<1>21. "join" \in Places BY DEF Places
<1>22. PICK f \in FrameType : Changed(w, f) /\ f.node = t /\ f.pc = "join" BY <1>1, <1>7, <1>21, GotoChanged
<1>23. PICK top : top = TopSlot(w) OBVIOUS
<1>24. /\ Slots' = Slots /\ top \in Slots /\ At(top).node = t /\ At(top)' = f
       /\ \A u \in Slots \ {top} : At(u)' = At(u) BY <1>1, <1>8, <1>22, <1>23 DEF Changed
<1>25. PICK F : F = {top} OBVIOUS
<1>26. ASSUME NEW s \in Slots' \ F
       PROVE  s \in Slots /\ At(s)' = At(s) /\ At(s).node \in Present \ T /\ At(s).at \in Present \cup {NoTask}
  <2>1. s \in Slots /\ At(s)' = At(s) /\ s # top BY <1>24, <1>25
  <2>2. At(s).node # t BY <1>0, <1>24, <2>1 DEF Placed, Single
  <2>3. At(s).node \in Present /\ Held(At(s).node) BY <2>1, HeldFacts
  <2>4. At(s).node \notin A BY <1>14, <2>3
  <2> QED BY <1>19, <1>20, <2>1, <2>2, <2>3, <2>4, NamesKept
<1>27. ASSUME NEW u \in Present \ T
       PROVE  (scheduled'[u] # 0 => scheduled[u] # 0) /\ (Held(u) => Held(u)' \/ Done(u)')
  <2>1. u \in Task /\ u \notin A /\ u # t BY <1>19 DEF Present
  <2>2. scheduled'[u] = scheduled[u] BY <1>15, <1>16, <2>1
  <2>3. Preempted(u)' <=> Preempted(u) BY <1>20 DEF Mild
  <2>4. ASSUME Running1(u) PROVE Running1(u)'
    <3>1. PICK s \in Slots : At(s).node = u BY <2>4 DEF Running1
    <3>2. s # top BY <1>24, <2>1, <3>1
    <3> QED BY <1>24, <3>1, <3>2 DEF Running1
  <2> QED BY <2>2, <2>3, <2>4 DEF Held
<1>28. \A c \in T \cap Present : node[c].parent \in T \cup {NoTask} \/ (Held(c) /\ Done(c)')
  BY <1>8, <1>14, <1>19, <1>20
<1>29. FrameOnce(top)'
  <2>1. ASSUME NEW c \in Graph(t)' PROVE Held(c)'
    <3>1. c \in Present /\ node'[c].parent = t BY <1>20 DEF Graph
    <3>2. node[c].parent = t BY <1>20, <3>1 DEF Mild
    <3>3. c \in A /\ c \in Task BY <1>4, <3>1, <3>2 DEF Graph, Present
    <3>4. scheduled'[c] > 0 BY <1>15, <1>16, <3>3
    <3> QED BY <3>4 DEF Held
  <2>2. PICK v : v = f.node OBVIOUS
  <2>3. At(top)' = f /\ v = t BY <1>22, <1>24, <2>2
  <2> QED BY <1>20, <1>22, <2>1, <2>2, <2>3 DEF FrameOnce
<1>30. (\A u \in T \cap Present' : NodeOnce(u)') /\ \A s \in F \cap Slots' : FrameOnce(s)'
  BY <1>20, <1>25, <1>29
<1> QED BY <1>20, <1>26, <1>27, <1>28, <1>30, OnceKept

\* Nodes are added.
LEMMA MildGrown ==
    ASSUME IInv, NEW N, Grown(N), NEW T, N \subseteq T, UNCHANGED topology,
           \A u \in Present : node'[u].ran = node[u].ran /\ node'[u].nstate = node[u].nstate
                              /\ node'[u].estate = node[u].estate /\ node'[u].eptr = node[u].eptr,
           \A u \in N : node'[u].parent \in T \cup {NoTask}
    PROVE  Mild(Present, T, {}) /\ Closed(Present)
<1>1. Present' = Present \cup N /\ N \cap Present = {} /\ Present \subseteq Task
      /\ \A u \in Present : Preempted(u)' <=> Preempted(u) BY GrownFacts
<1>2. Closed(Present) BY DEF IInv, Placed, Forest, Closed, Present
<1>3. \A u \in Present : node'[u].kind = node[u].kind /\ node'[u].parent = node[u].parent BY <1>1 DEF Grown
<1>4. \A u \in Present' \ Present : u \in T /\ node'[u].parent \in T \cup {NoTask} BY <1>1
<1> QED BY <1>1, <1>2, <1>3, <1>4 DEF Mild

\* A new task has not run.
LEMMA EmplaceOnce == ASSUME IInv, Once, NEW w \in Worker, NEW k \in {"static", "subflow"}, Emplace(w, k) PROVE Once'
<1>0. Typed /\ Placed BY DEF IInv
<1>1. PICK t : t = Top(w).node OBVIOUS
<1>2. Running(w, "work") /\ "JOINED" \notin node[t].nstate /\ node[t].kind = "subflow" BY <1>1 DEF Emplace
<1>3. UNCHANGED <<topology, scheduled, stack>> BY DEF Emplace
<1>4. PICK c \in Free : node' = [node EXCEPT ![c] = Made(k, t)] BY <1>1 DEF Emplace
<1>5. Running(w, "work") BY <1>2
<1>6. /\ t \in Task /\ t \in Present /\ Held(t) /\ scheduled[t] = 0 /\ ~Preempted(t)
      /\ TopSlot(w) \in Slots /\ At(TopSlot(w)) = Top(w) /\ Top(w).pc = "work"
  BY <1>1, <1>5, RunningFacts DEF Running, Invocation
<1>7. PICK r : r = Made(k, t) OBVIOUS
<1>8. r \in NodeType /\ r.kind = k /\ r.parent = t /\ r.nstate = {} /\ r.ran = 0 /\ r.eptr = FALSE
  BY <1>6, <1>7 DEF Made, Absent, NodeType, Nodes
<1>9. node \in [Task -> NodeType] /\ c \in Task /\ c \notin Present BY <1>0 DEF Typed, Free
<1>10. node' \in [Task -> NodeType] /\ node'[c] = r /\ \A u \in Task \ {c} : node'[u] = node[u]
  BY <1>4, <1>7, <1>8, <1>9
<1>11. Present \subseteq Task BY DEF Present
<1>12. \A u \in Present : node'[u] = node[u] BY <1>9, <1>10, <1>11
<1>13. PICK N : N = {c} OBVIOUS
<1>14. Grown(N)
  <2>1. \A u \in Task \ {c} : Preempted(u)' <=> Preempted(u) BY <1>10 DEF Preempted
  <2>2. ~Preempted(c)' BY <1>8, <1>10 DEF Preempted
  <2>3. Free \subseteq Task BY DEF Free
  <2> QED BY <1>6, <1>8, <1>10, <1>13, <2>1, <2>2, <2>3 DEF Grown
<1>15. /\ Present' = Present \cup N /\ \A u \in Present : Preempted(u)' <=> Preempted(u)
       /\ ~Held(c) /\ scheduled[c] = 0 BY <1>13, <1>14, GrownFacts
<1>16. PICK T : T = {t, c} OBVIOUS
<1>17. Mild(Present, T, {}) /\ Closed(Present)
  <2>1. N \subseteq T /\ \A u \in N : node'[u].parent \in T \cup {NoTask} BY <1>8, <1>10, <1>13, <1>16
  <2> QED BY <1>3, <1>12, <1>14, <2>1, MildGrown
<1>18. \A u \in Present : (Done(u) => Done(u)') /\ (Fresh(u) => Fresh(u)')
  <2>1. ASSUME NEW u \in Present PROVE (Done(u) => Done(u)') /\ (Fresh(u) => Fresh(u)')
    <3>1. node[u].parent \notin {} /\ node'[u].ran = node[u].ran BY <1>12
    <3> QED BY <1>17, <3>1, MildKept
  <2> QED BY <2>1
<1>19. /\ node[t].ran <= 1 /\ (node[t].eptr => "CANCELLED" \in node[t].estate) /\ Done(t)
       /\ \A d \in Graph(t) : Fresh(d) BY <1>1, <1>2, <1>5, OnceRunning
<1>20. Done(t)' /\ node'[t] = node[t] BY <1>6, <1>12, <1>18, <1>19
<1>21. PICK top : top = TopSlot(w) OBVIOUS
<1>22. Slots' = Slots /\ \A s : At(s)' = At(s) BY <1>3 DEF Slots, At
<1>23. top \in Slots /\ At(top).node = t /\ At(top).pc = "work" BY <1>1, <1>6, <1>21
<1>24. PICK F : F = {top} OBVIOUS
<1>25. ASSUME NEW s \in Slots' \ F
       PROVE  s \in Slots /\ At(s)' = At(s) /\ At(s).node \in Present \ T /\ At(s).at \in Present \cup {NoTask}
  <2>1. s \in Slots /\ At(s)' = At(s) /\ s # top BY <1>22, <1>24
  <2>2. At(s).node # t BY <1>0, <1>23, <2>1 DEF Placed, Single
  <2>3. At(s).node \in Present BY <2>1, HeldFacts
  <2>4. At(s).node # c BY <1>9, <2>3
  <2> QED BY <1>16, <1>17, <2>1, <2>2, <2>3, <2>4, NamesKept
<1>26. ASSUME NEW u \in Present \ T
       PROVE  (scheduled'[u] # 0 => scheduled[u] # 0) /\ (Held(u) => Held(u)' \/ Done(u)')
  <2>1. Running1(u)' <=> Running1(u) BY <1>22 DEF Running1
  <2> QED BY <1>3, <1>15, <2>1 DEF Held
<1>27. \A d \in T \cap Present : node[d].parent \in T \cup {NoTask} \/ (Held(d) /\ Done(d)')
  BY <1>6, <1>9, <1>16, <1>20
<1>28. Fresh(c)' BY <1>8, <1>10 DEF Fresh
<1>29. ASSUME NEW d \in Graph(t)' PROVE Fresh(d)'
  <2>1. d \in Present' /\ node'[d].parent = t BY DEF Graph
  <2>2. CASE d = c BY <1>28, <2>2
  <2>3. CASE d # c
    <3>1. d \in Present BY <1>13, <1>15, <2>1, <2>3
    <3>2. d \in Graph(t) BY <1>12, <2>1, <3>1 DEF Graph
    <3> QED BY <1>18, <1>19, <3>1, <3>2
  <2> QED BY <2>2, <2>3
<1>30. NodeOnce(t)'
  <2>1. scheduled'[t] = 0 /\ ~Preempted(t)' BY <1>3, <1>6, <1>15
  <2> QED BY <1>2, <1>19, <1>20, <2>1 DEF NodeOnce
<1>31. NodeOnce(c)'
  <2>1. ~Preempted(c)' BY <1>8, <1>10 DEF Preempted
  <2> QED BY <1>8, <1>10, <1>28, <2>1 DEF NodeOnce
<1>32. FrameOnce(top)'
  <2>1. PICK f : f = At(top) OBVIOUS
  <2>2. At(top)' = f /\ f.node = t /\ f.pc = "work" BY <1>22, <1>23, <2>1
  <2> QED BY <1>20, <1>29, <2>2 DEF FrameOnce
<1>33. (\A u \in T \cap Present' : NodeOnce(u)') /\ \A s \in F \cap Slots' : FrameOnce(s)'
  BY <1>16, <1>24, <1>30, <1>31, <1>32
<1> QED BY <1>17, <1>25, <1>26, <1>27, <1>33, OnceKept

\* A corun runs a graph of its own.
LEMMA CorunOnce == ASSUME IInv, Once, NEW w \in Worker, NEW k \in {"static", "subflow"}, Corun(w, k) PROVE Once'
<1>0. Typed /\ Placed BY DEF IInv
<1>1. PICK t : t = Top(w).node OBVIOUS
<1>2. Running(w, "work") /\ UNCHANGED topology BY DEF Corun
<1>3. PICK a \in Free, c \in Free :
         /\ a < c
         /\ node' = SetUp([node EXCEPT ![t].joins = @ + 1,
                                       ![a] = [Made("anchor", NoTask) EXCEPT !.estate = {"ANCHORED"}],
                                       ![c] = Made(k, a)], a, {c})
         /\ ScheduleAll({c})
         /\ Push(w, [Enter(a) EXCEPT !.pc = "join"]) BY <1>1 DEF Corun
<1>4. a # c /\ a \in Task /\ c \in Task /\ a \notin Present /\ c \notin Present
  <2>1. a \in Nat /\ c \in Nat /\ a \in Task /\ c \in Task BY TaskFacts DEF Free
  <2> QED BY <1>3, <2>1 DEF Free
<1>5. t \in Present
  <2>1. Running(w, "work") BY <1>2
  <2> QED BY <1>1, <2>1, RunningFacts DEF Running, Invocation
<1>6. PICK N : N = {a, c} OBVIOUS
<1>7. /\ Grown(N)
      /\ node'[a].kind = "anchor" /\ node'[a].parent = NoTask /\ node'[a].nstate = {}
      /\ node'[a].ran = 0 /\ node'[a].eptr = FALSE
      /\ node'[c].parent = a /\ node'[c].nstate = {}
      /\ node'[c].ran = 0 /\ node'[c].eptr = FALSE
      /\ \A u \in Task \ N : /\ node'[u].nstate = node[u].nstate /\ node'[u].estate = node[u].estate
                             /\ node'[u].ran = node[u].ran /\ node'[u].eptr = node[u].eptr
  <2>1. NewCorun(t, a, c, k) BY <1>3, <1>4, <1>5, CorunNodes
  <2> QED BY <1>6, <2>1 DEF NewCorun
<1>8. PICK f : f = [Enter(a) EXCEPT !.pc = "join"] OBVIOUS
<1>9. f \in FrameType /\ f.node = a /\ f.pc = "join" /\ f.at = NoTask /\ Push(w, f)
  BY <1>3, <1>4, <1>8 DEF Enter, FrameType, Places, Nodes
<1>10. Pushed(w, f) BY <1>0, <1>9, PushSlots
<1>11. PICK i : i = NewSlot(w) OBVIOUS
<1>12. /\ i \notin Slots /\ Slots' = Slots \cup {i} /\ At(i)' = f
       /\ \A u \in Slots : At(u)' = At(u) BY <1>10, <1>11 DEF Pushed
<1>13. \A u \in Present : u \in Task \ N BY <1>4, <1>6 DEF Present
<1>14. Mild(Present, N, {}) /\ Closed(Present)
  <2>1. \A u \in N : node'[u].parent \in N \cup {NoTask} BY <1>6, <1>7
  <2> QED BY <1>2, <1>7, <1>13, <2>1, MildGrown
<1>15. \A u \in Task \ {c} : scheduled'[u] = scheduled[u]
  <2>1. scheduled' = [s \in Task |-> scheduled[s] + IF s \in {c} THEN 1 ELSE 0] BY <1>3 DEF ScheduleAll
  <2>2. \A u \in Task : scheduled[u] \in Nat BY <1>0 DEF Typed
  <2> QED BY <2>1, <2>2
<1>16. \A u \in Present : Preempted(u)' <=> Preempted(u) BY <1>7, GrownFacts
<1>17. PICK F : F = {i} OBVIOUS
<1>18. ASSUME NEW s \in Slots' \ F
       PROVE  s \in Slots /\ At(s)' = At(s) /\ At(s).node \in Present \ N /\ At(s).at \in Present \cup {NoTask}
  <2>1. s \in Slots /\ At(s)' = At(s) BY <1>12, <1>17
  <2>2. At(s).node \in Present BY <2>1, HeldFacts
  <2> QED BY <1>13, <1>14, <2>1, <2>2, NamesKept
<1>19. ASSUME NEW u \in Present \ N
       PROVE  (scheduled'[u] # 0 => scheduled[u] # 0) /\ (Held(u) => Held(u)' \/ Done(u)')
  <2>1. Running1(u) => Running1(u)' BY <1>12 DEF Running1
  <2>2. scheduled'[u] = scheduled[u] BY <1>6, <1>13, <1>15
  <2> QED BY <1>16, <2>1, <2>2 DEF Held
<1>20. \A d \in N \cap Present : node[d].parent \in N \cup {NoTask} \/ (Held(d) /\ Done(d)') BY <1>13
<1>21. NodeOnce(a)' /\ NodeOnce(c)'
  <2>1. Fresh(a)' /\ Fresh(c)' BY <1>7 DEF Fresh
  <2>2. ~Preempted(a)' /\ ~Preempted(c)' BY <1>7 DEF Preempted
  <2> QED BY <1>7, <2>1, <2>2 DEF NodeOnce
<1>22. FrameOnce(i)' BY <1>7, <1>9, <1>12 DEF FrameOnce
<1>23. (\A u \in N \cap Present' : NodeOnce(u)') /\ \A s \in F \cap Slots' : FrameOnce(s)'
  BY <1>6, <1>17, <1>21, <1>22
<1> QED BY <1>14, <1>18, <1>19, <1>20, <1>23, OnceKept

\* That graph goes with the corun.
LEMMA CorunReturnsOnce == ASSUME IInv, Once, NEW w \in Worker, CorunReturns(w) PROVE Once'
<1>0. Typed /\ Placed BY DEF IInv
<1>1. PICK a : a = Top(w).node OBVIOUS
<1>2. PICK caller : caller = stack[w][2] OBVIOUS
<1>3. PICK f : f = [caller EXCEPT !.pc = "raise", !.at = caller.node] OBVIOUS
<1>4. /\ Running(w, "join") /\ node[a].kind = "anchor" /\ node[a].join = 0
      /\ node' = Cleared([node EXCEPT ![a] = Absent], a)
      /\ UNCHANGED <<topology, scheduled>>
      /\ Pop(w) \/ stack' = [stack EXCEPT ![w] = <<f>> \o SubSeq(@, 3, Len(@))]
  BY <1>1, <1>2, <1>3 DEF CorunReturns
<1>5. /\ a \in Task /\ a \in Present /\ Held(a) /\ stack[w] # <<>>
      /\ TopSlot(w) \in Slots /\ At(TopSlot(w)) = Top(w) BY <1>1, <1>4, RunningFacts DEF Running, Invocation
<1>6. Flight(a) = {} BY <1>4, <1>5, NoneLeft
<1>7. PICK G : G = Descendants(a) \cup {a} OBVIOUS
<1>8. /\ Shape(a, G) /\ Gone(G)
      /\ \A u \in Task \ G : node'[u] = node[u]
      /\ \A u \in G : node'[u] = Absent /\ scheduled[u] = 0 /\ (u # a => ~Held(u))
  BY <1>4, <1>5, <1>6, <1>7, CorunReturnsNodes
<1>9. PICK top : top = TopSlot(w) OBVIOUS
<1>10. PICK bel : bel = Below(top) OBVIOUS
<1>11. /\ top \in Slots /\ At(top).node = a /\ top[2] > 1 /\ At(bel).pc = "work" /\ bel \in Slots
       /\ top = <<w, Len(stack[w])>>
  <2>1. top \in Slots /\ At(top).node = a BY <1>1, <1>5, <1>9
  <2>2. top[2] > 1 /\ At(bel).pc = "work" BY <1>0, <1>4, <1>10, <2>1 DEF Placed, Stacked
  <2> QED BY <1>0, <1>9, <1>10, <2>1, <2>2, AboveBelow DEF TopSlot
<1>12. Len(stack[w]) >= 2 /\ At(bel) = caller /\ bel # top
  <2>1. stack[w] \in Seq(FrameType) BY <1>0 DEF Typed
  <2>2. Len(stack[w]) \in Nat BY <2>1
  <2>3. top[1] = w /\ top[2] = Len(stack[w]) BY <1>11
  <2>4. bel = <<w, Len(stack[w]) - 1>> BY <1>10, <2>3 DEF Below
  <2>5. bel[1] = w /\ bel[2] = Len(stack[w]) - 1 BY <2>4
  <2>6. Len(stack[w]) + 1 - bel[2] = 2 BY <2>2, <2>5
  <2>7. bel # top BY <2>2, <2>3, <2>5
  <2> QED BY <1>2, <1>11, <2>2, <2>3, <2>5, <2>6, <2>7 DEF At
<1>13. PICK t : t = caller.node OBVIOUS
<1>14. caller \in FrameType /\ t \in Task /\ t \in Present /\ Held(t) /\ node[t].kind # "anchor"
  <2>1. Says(bel) BY <1>0, <1>11 DEF Placed
  <2>2. caller \in FrameType BY <1>0, <1>11, <1>12, SlotFrames
  <2>3. t \in Present /\ Held(t) BY <1>11, <1>12, <1>13, HeldFacts
  <2> QED BY <1>11, <1>12, <1>13, <2>1, <2>2, <2>3 DEF Says, Present
<1>15. f \in FrameType /\ f.node = t /\ f.pc = "raise" /\ f.at = t
  BY <1>3, <1>13, <1>14 DEF FrameType, Places, Nodes
<1>16. /\ Slots' = Slots \ {top}
       /\ \A s \in Slots' : At(s)' = At(s) \/ (s = bel /\ At(s)' = f)
  <2>1. ASSUME Pop(w) PROVE Slots' = Slots \ {top} /\ \A s \in Slots' : At(s)' = At(s)
    <3>1. Popped(w) BY <1>0, <1>5, <2>1, PopSlots
    <3> QED BY <1>9, <3>1 DEF Popped
  <2>2. ASSUME stack' = [stack EXCEPT ![w] = <<f>> \o SubSeq(@, 3, Len(@))]
        PROVE  Slots' = Slots \ {top} /\ \A s \in Slots' : At(s)' = At(s) \/ (s = bel /\ At(s)' = f)
    <3>1. Fallen(w, f) BY <1>0, <1>12, <1>15, <2>2, FallSlots
    <3>2. PICK m : m = TopSlot(w)' OBVIOUS
    <3>3. Slots' = Slots \ {top} /\ m = bel /\ At(m)' = f /\ \A s \in Slots' \ {m} : At(s)' = At(s)
      BY <1>9, <1>10, <3>1, <3>2 DEF Fallen
    <3> QED BY <3>3
  <2> QED BY <1>4, <2>1, <2>2
<1>17. \A s \in Slots : At(s).node = a => s = top BY <1>0, <1>11 DEF Placed, Single
<1>18. PICK K : K = Present \ G OBVIOUS
<1>19. Present' = K /\ K \subseteq Task \ G /\ K \subseteq Present /\ a \in G BY <1>7, <1>8, <1>18, ShapePresent
<1>20. \A u \in K : node'[u] = node[u] /\ (Preempted(u)' <=> Preempted(u)) BY <1>8, <1>19 DEF Preempted
<1>21. PICK T : T = {} OBVIOUS
<1>22. Mild(K, T, {}) /\ Closed(K)
  <2>1. Closed(K) BY <1>8, <1>18 DEF Gone
  <2> QED BY <1>4, <1>19, <1>20, <1>21, <2>1 DEF Mild
<1>23. \A u \in K : (Done(u) => Done(u)') /\ (Fresh(u) => Fresh(u)')
  <2>1. ASSUME NEW u \in K PROVE (Done(u) => Done(u)') /\ (Fresh(u) => Fresh(u)')
    <3>1. node[u].parent \notin {} /\ node'[u].ran = node[u].ran BY <1>20
    <3> QED BY <1>22, <3>1, MildKept
  <2> QED BY <2>1
<1>24. ASSUME NEW s \in Slots, s # top PROVE At(s).node \in K
  <2>1. At(s).node \in Present /\ Held(At(s).node) /\ At(s).node # a BY <1>17, <1>24, HeldFacts
  <2> QED BY <1>8, <1>18, <2>1
<1>25. PICK F : F = {bel} OBVIOUS
<1>26. ASSUME NEW s \in Slots' \ F
       PROVE  s \in Slots /\ At(s)' = At(s) /\ At(s).node \in K \ T /\ At(s).at \in K \cup {NoTask}
  <2>1. s \in Slots /\ At(s)' = At(s) /\ s # top BY <1>16, <1>25
  <2>2. At(s).node \in K BY <1>24, <2>1
  <2> QED BY <1>21, <1>22, <2>1, <2>2, NamesKept
<1>27. ASSUME NEW u \in K \ T
       PROVE  (scheduled'[u] # 0 => scheduled[u] # 0) /\ (Held(u) => Held(u)' \/ Done(u)')
  <2>1. ASSUME Running1(u) PROVE Running1(u)'
    <3>1. PICK s \in Slots : At(s).node = u BY <2>1 DEF Running1
    <3>2. u # a BY <1>18, <1>19
    <3>3. s # top BY <1>11, <3>1, <3>2
    <3>4. s \in Slots' /\ (At(s)' = At(s) \/ (s = bel /\ At(s)' = f)) BY <1>16, <3>3
    <3>5. At(s)'.node = u BY <1>12, <1>13, <1>15, <3>1, <3>4
    <3> QED BY <3>4, <3>5 DEF Running1
  <2> QED BY <1>4, <1>20, <2>1 DEF Held
<1>28. FrameOnce(bel)'
  <2>1. t \in K BY <1>11, <1>12, <1>13, <1>24
  <2>2. FrameOnce(bel) BY <1>11 DEF Once
  <2>3. Done(t) /\ ("JOINED" \notin node[t].nstate => \A c \in Graph(t) : Fresh(c))
    BY <1>11, <1>12, <1>13, <1>14, <2>2 DEF FrameOnce
  <2>4. Done(t)' /\ node'[t] = node[t] BY <1>20, <1>23, <2>1, <2>3
  <2>5. ASSUME NEW c \in Graph(t)' PROVE c \in Graph(t) /\ (Fresh(c) => Fresh(c)')
    <3>1. c \in K /\ node'[c].parent = t BY <1>19 DEF Graph
    <3>2. c \in Graph(t) BY <1>19, <1>20, <3>1 DEF Graph
    <3> QED BY <1>23, <3>1, <3>2
  <2>6. PICK g : g = At(bel)' OBVIOUS
  <2>7. g.node = t /\ (g.pc = "work" \/ (g.pc = "raise" /\ g.at = t))
    BY <1>11, <1>12, <1>13, <1>15, <1>16, <2>6
  <2>8. "JOINED" \notin node'[t].nstate => \A c \in Graph(t)' : Fresh(c)' BY <2>3, <2>4, <2>5
  <2> QED BY <2>4, <2>6, <2>7, <2>8 DEF FrameOnce
<1>29. /\ \A c \in T \cap K : node[c].parent \in T \cup {NoTask} \/ (Held(c) /\ Done(c)')
       /\ \A u \in T \cap Present' : NodeOnce(u)'
       /\ \A s \in F \cap Slots' : FrameOnce(s)' BY <1>21, <1>25, <1>28
<1> QED BY <1>22, <1>26, <1>27, <1>29, OnceKept

\* At first nothing has run.
LEMMA InitOnce == Init => Once
<1> SUFFICES ASSUME Init PROVE Once OBVIOUS
<1>1. Slots = {} BY DEF Init, Slots
<1>2. \A t \in Task : node[t] = (IF t = Root THEN Made("subflow", NoTask) ELSE Absent) BY DEF Init
<1>3. ASSUME NEW t \in Present PROVE NodeOnce(t)
  <2>1. PICK r : r = Made("subflow", NoTask) OBVIOUS
  <2>2. r.ran = 0 /\ r.nstate = {} /\ r.eptr = FALSE BY <2>1 DEF Made, Absent
  <2>3. node[t] = r
    <3>1. t \in Task /\ node[t].kind # "none" BY DEF Present
    <3>2. Absent.kind = "none" BY DEF Absent
    <3> QED BY <1>2, <2>1, <3>1, <3>2
  <2>4. node[t].ran = 0 /\ node[t].nstate = {} /\ node[t].eptr = FALSE BY <2>2, <2>3
  <2> QED BY <2>4 DEF NodeOnce, Fresh, Preempted
<1> QED BY <1>1, <1>3 DEF Once

\* Every step keeps that a graph is run once.
LEMMA NextOnce == IInv /\ Once /\ [Next]_subflowVars => Once'
<1> SUFFICES ASSUME IInv, Once, [Next]_subflowVars PROVE Once' OBVIOUS
<1>1. ASSUME UNCHANGED subflowVars PROVE Once'
  <2>1. UNCHANGED <<node, stack, scheduled, topology>> BY <1>1 DEF subflowVars
  <2> QED BY <2>1, OnceStutter
<1>2. ASSUME NEW w \in Worker, Step(w) PROVE Once'
  <2>1. ASSUME NEW t \in Task, Take(w, t) PROVE Once' BY <2>1, TakeOnce
  <2>2. ASSUME NEW k \in {"static", "subflow"}, Emplace(w, k) PROVE Once' BY <2>2, EmplaceOnce
  <2>3. ASSUME Corun(w, "static") PROVE Once' BY <2>3, CorunOnce
  <2>4. ASSUME Retain(w) \/ JoinEmpty(w) \/ Join(w) \/ Throw(w) \/ Return(w) PROVE Once'
    BY <2>4, RetainOnce, JoinEmptyOnce, JoinOnce, ThrowOnce, ReturnOnce
  <2>5. ASSUME Callable(w) PROVE Once' BY <2>2, <2>3, <2>4, <2>5 DEF Callable
  <2>6. ASSUME Resume(w) \/ Skip(w) \/ Call(w) PROVE Once' BY <2>6, ResumeOnce, SkipOnce, CallOnce
  <2>7. ASSUME JoinReturns(w) \/ CorunReturns(w) PROVE Once' BY <2>7, JoinReturnsOnce, CorunReturnsOnce
  <2>8. ASSUME RaisePass(w) \/ RaiseAnchor(w) \/ RaiseTopology(w) \/ Store(w) PROVE Once'
    BY <2>8, RaisePassOnce, RaiseAnchorOnce, RaiseTopologyOnce, StoreOnce
  <2>9. ASSUME Preempt(w) \/ Leave(w) \/ Over(w) PROVE Once' BY <2>9, PreemptOnce, LeaveOnce, OverOnce
  <2>10. ASSUME ReadParent(w) \/ CountParent(w) \/ Repeat(w) \/ Finish(w) PROVE Once'
    BY <2>10, ReadParentOnce, CountParentOnce, RepeatOnce, FinishOnce
  <2> QED BY <1>2, <2>1, <2>5, <2>6, <2>7, <2>8, <2>9, <2>10 DEF Step
<1>3. ASSUME Cancel PROVE Once' BY <1>3, CancelOnce
<1> QED BY <1>1, <1>2, <1>3 DEF Next

\* A graph is run once, and after a join that did not fail all of it has run.
LEMMA OnceJoins == Once => JoinsOnce
BY DEF Once, NodeOnce, Done, JoinsOnce

\* The graph of a subflow is run once, and after a join that did not fail all of it has run
\* (join, _invoke_subflow_task).
THEOREM SubflowJoinsOnce == SubflowAssumption => (Spec => []JoinsOnce)
<1>1. Init => Once BY InitOnce
<1>2. IInv /\ Once /\ [Next]_subflowVars => Once' BY NextOnce
<1>3. Once => JoinsOnce BY OnceJoins
<1> QED BY <1>1, <1>2, <1>3, SubflowPlaced, PTL DEF Spec
=============================================================================
