------------------------- MODULE WorkStealingProofs -------------------------
(***************************************************************************)
(* First, for any finite set of waiters: the event count never holds more  *)
(* signals than announced waiters.  Then, for any number of workers,       *)
(* buffers, clients and tasks: the worker loop follows the event count's   *)
(* protocol, a task is in one place until it is finished, a worker's own   *)
(* queue is empty while it waits, no wake-up is lost, and no worker leaves *)
(* while work remains.                                                     *)
(***************************************************************************)
EXTENDS WorkStealing, FiniteSetTheorems, TLAPS

(* The event count. *)

ECInv == ECTypeOK /\ SignalsBounded

\* The announced waiters can be counted.
LEMMA AnnouncedFinite ==
    /\ IsFiniteSet(Announced)
    /\ Cardinality(Announced) \in Nat
<1>1. Announced \subseteq Waiters BY DEF Announced, In
<1>2. IsFiniteSet(Announced) BY <1>1, WaitersAssumption, FS_Subset
<1> QED BY <1>2, FS_CardinalityType

\* Announcing one more waiter adds one to their number.
LEMMA AnnounceOne ==
    ASSUME ECTypeOK, NEW w \in Waiters, phase[w] # "prewait",
           phase' = [phase EXCEPT ![w] = "prewait"]
    PROVE  Cardinality(Announced') = Cardinality(Announced) + 1
<1>1. Announced' = Announced \cup {w} /\ w \notin Announced BY DEF Announced, In, ECTypeOK
<1> QED BY <1>1, AnnouncedFinite, FS_AddElement

\* A waiter that stops being announced takes one from their number.
LEMMA RetractOne ==
    ASSUME ECTypeOK, NEW w \in Waiters, phase[w] = "prewait",
           NEW p \in Phase \ {"prewait"},
           phase' = [phase EXCEPT ![w] = p]
    PROVE  /\ Cardinality(Announced') = Cardinality(Announced) - 1
           /\ Cardinality(Announced) > 0
<1>1. Announced' = Announced \ {w} /\ w \in Announced BY DEF Announced, In, ECTypeOK
<1>2. Cardinality(Announced) # 0 BY <1>1, AnnouncedFinite, FS_EmptySet
<1>3. Cardinality(Announced \ {w}) = Cardinality(Announced) - 1
  BY <1>1, AnnouncedFinite, FS_RemoveElement
<1> QED BY <1>1, <1>2, <1>3, AnnouncedFinite

\* A step of a waiter that is not announced, to a phase other than that, keeps
\* their number.
LEMMA KeepAnnounced ==
    ASSUME ECTypeOK, NEW w \in Waiters, phase[w] # "prewait",
           NEW p \in Phase \ {"prewait"},
           phase' = [phase EXCEPT ![w] = p]
    PROVE  Announced' = Announced
BY DEF Announced, In, ECTypeOK

\* The initial state has no announced waiter and no signal.
LEMMA ECInitInv == ECInit => ECInv
<1> SUFFICES ASSUME ECInit PROVE ECInv OBVIOUS
<1>1. ECTypeOK BY DEF ECInit, ECTypeOK, Phase
<1>2. SignalsBounded BY AnnouncedFinite DEF ECInit, SignalsBounded
<1> QED BY <1>1, <1>2 DEF ECInv

\* Every operation of the event count preserves its invariant.
LEMMA ECNextInv == ECInv /\ [ECNext]_ecVars => ECInv'
<1> SUFFICES ASSUME ECInv, [ECNext]_ecVars PROVE ECInv' OBVIOUS
<1> USE DEF ECInv
<1>1. ASSUME NEW w \in Waiters, PrepareWait(w) PROVE ECInv'
  <2>1. ECTypeOK' BY <1>1 DEF PrepareWait, ECTypeOK, Phase
  <2>2. Cardinality(Announced') = Cardinality(Announced) + 1 BY <1>1, AnnounceOne DEF PrepareWait
  <2> QED BY <1>1, <2>1, <2>2, AnnouncedFinite DEF PrepareWait, SignalsBounded, ECTypeOK
<1>2. ASSUME NEW w \in Waiters, CommitWait(w) PROVE ECInv'
  <2>1. CASE signals > 0
    <3>1. /\ signals' = signals - 1
          /\ phase' = [phase EXCEPT ![w] = "out"] BY <1>2, <2>1 DEF CommitWait
    <3>2. Cardinality(Announced') = Cardinality(Announced) - 1
      BY <1>2, <3>1, RetractOne DEF CommitWait, Phase
    <3>3. ECTypeOK' BY <2>1, <3>1 DEF ECTypeOK, Phase
    <3> QED BY <3>1, <3>2, <3>3, AnnouncedFinite DEF SignalsBounded, ECTypeOK
  <2>2. CASE ~(signals > 0)
    <3>1. /\ signals' = signals /\ signals = 0
          /\ phase' = [phase EXCEPT ![w] = "parked"] BY <1>2, <2>2 DEF CommitWait
    <3>2. /\ Cardinality(Announced') = Cardinality(Announced) - 1
          /\ Cardinality(Announced) > 0 BY <1>2, <3>1, RetractOne DEF CommitWait, Phase
    <3>3. ECTypeOK' BY <3>1 DEF ECTypeOK, Phase
    <3> QED BY <3>1, <3>2, <3>3, AnnouncedFinite DEF SignalsBounded, ECTypeOK
  <2> QED BY <2>1, <2>2
<1>3. ASSUME NEW w \in Waiters, CancelWait(w) PROVE ECInv'
  <2>1. /\ Cardinality(Announced') = Cardinality(Announced) - 1
        /\ Cardinality(Announced) > 0 BY <1>3, RetractOne DEF CancelWait, Phase
  <2>2. ECTypeOK' BY <1>3, <2>1, AnnouncedFinite DEF CancelWait, ECTypeOK, Phase
  <2> QED BY <1>3, <2>1, <2>2, AnnouncedFinite DEF CancelWait, SignalsBounded, ECTypeOK
<1>4. ASSUME NEW w \in Waiters, Resume(w) PROVE ECInv'
  <2>1. Announced' = Announced BY <1>4, KeepAnnounced DEF Resume, Phase
  <2> QED BY <1>4, <2>1 DEF Resume, SignalsBounded, ECTypeOK, Phase
<1>5. CASE NotifyOne
  <2>1. CASE signals < Cardinality(Announced) /\ signals' = signals + 1 /\ UNCHANGED phase
    BY <2>1, AnnouncedFinite DEF SignalsBounded, ECTypeOK, Announced, In
  <2>2. ASSUME NEW w \in Parked, phase' = [phase EXCEPT ![w] = "woken"], UNCHANGED signals
        PROVE  ECInv'
    <3>1. w \in Waiters /\ phase[w] = "parked" BY DEF Parked, In
    <3>2. Announced' = Announced BY <2>2, <3>1, KeepAnnounced DEF Phase
    <3> QED BY <2>2, <3>1, <3>2 DEF SignalsBounded, ECTypeOK, Phase
  <2>3. CASE UNCHANGED ecVars BY <2>3 DEF ecVars, SignalsBounded, ECTypeOK, Announced, In
  <2> QED BY <1>5, <2>1, <2>2, <2>3 DEF NotifyOne
<1>6. CASE NotifyAll
  <2>1. ECTypeOK' BY <1>6, AnnouncedFinite DEF NotifyAll, ECTypeOK, Phase
  <2>2. Announced' = Announced BY <1>6 DEF NotifyAll, ECTypeOK, Announced, In
  <2> QED BY <1>6, <2>1, <2>2, AnnouncedFinite DEF NotifyAll, SignalsBounded
<1>7. CASE UNCHANGED ecVars BY <1>7 DEF ecVars, SignalsBounded, ECTypeOK, Announced, In
<1> QED BY <1>1, <1>2, <1>3, <1>4, <1>5, <1>6, <1>7 DEF ECNext

\* A signal is always backed by an announced waiter that will consume it or hand
\* it back: the assertion of _check_state, for any number of waiters.
THEOREM SignalsBoundedAlways == ECSpec => []SignalsBounded
<1>1. ECInv => SignalsBounded BY DEF ECInv
<1> QED BY ECInitInv, ECNextInv, <1>1, PTL DEF ECSpec

----------------------------------------------------------------------------
(* The scheduler *)

\* The event count's waiters are the workers; every worker and every buffer has a
\* queue; no worker's own id is the last victim.
LEMMA SetsOfIds ==
    /\ Waiters = Workers
    /\ Workers \subseteq Queues
    /\ Buffers \subseteq Queues
    /\ \A w \in Workers : NumWorkers + NumBuckets - 1 # w
BY SchedulerAssumption DEF Workers, Queues, Buffers

----------------------------------------------------------------------------
(* The scheduler is a client of the event count. *)

\* Every step of the scheduler is an operation of the event count or leaves it
\* alone.
LEMMA StepOfEventCount == [Next]_vars => [ECNext]_ecVars
<1> SUFFICES ASSUME [Next]_vars PROVE [ECNext]_ecVars OBVIOUS
<1>1. ASSUME NEW w \in Workers, WorkerStep(w) PROVE [ECNext]_ecVars
  <2>1. w \in Waiters BY SetsOfIds
  <2>2. CASE Prepare(w) BY <2>1, <2>2 DEF Prepare, ECNext
  <2>3. CASE Cancel(w) BY <2>1, <2>3 DEF Cancel, ECNext
  <2>4. CASE Commit(w) BY <2>1, <2>4 DEF Commit, ECNext
  <2>5. CASE Wake(w) BY <2>1, <2>5 DEF Wake, ECNext
  <2>6. CASE Notify(w) BY <2>6 DEF Notify, ECNext
  <2>7. CASE Explore(w) \/ Check(w) \/ CheckDone(w) \/ Schedule(w) \/ Finish(w) \/ Pop(w)
    BY <2>7 DEF Explore, Check, CheckDone, Schedule, Finish, Pop, ecVars
  <2> QED BY <1>1, <2>2, <2>3, <2>4, <2>5, <2>6, <2>7 DEF WorkerStep
<1>2. ASSUME NEW c \in Client, Submit(c) \/ ClientStep(c) PROVE [ECNext]_ecVars
  BY <1>2 DEF Submit, ClientStep, ClientPush, ClientNotify, ClientNotifyAll, ECNext, ecVars
<1>3. CASE WaitForAll \/ Shutdown
  BY <1>3 DEF WaitForAll, Shutdown, SetDone, ShutdownNotify, Join, ECNext, ecVars
<1>4. CASE Terminated \/ UNCHANGED vars BY <1>4 DEF Terminated, vars, ecVars
<1> QED BY <1>1, <1>2, <1>3, <1>4 DEF Next

\* The scheduler with the notifier in it implements the event count.
THEOREM ImplementsEventCount == Spec => ECSpec
<1>1. Init => ECInit BY DEF Init
<1> QED BY <1>1, StepOfEventCount, PTL DEF Spec, ECSpec

----------------------------------------------------------------------------
(* Types *)

\* The initial state has the right types.
LEMMA TypeInit == Init => TypeOK
<1> SUFFICES ASSUME Init PROVE TypeOK OBVIOUS
<1>1. ECTypeOK BY ECInitInv DEF Init, ECInv
<1>2. queue \in [Queues -> Seq(Task)] BY DEF Init
<1>3. vtm \in [Workers -> Queues] BY SetsOfIds DEF Init
<1> QED BY <1>1, <1>2, <1>3 DEF Init, TypeOK, WorkerPC

\* A step that steals gives the thief a task and leaves a sequence of tasks.
LEMMA StealType ==
    ASSUME TypeOK, NEW w \in Workers, NEW q \in Queues, StealFrom(w, q)
    PROVE  /\ queue' \in [Queues -> Seq(Task)]
           /\ task' \in [Workers -> Task \cup {NoTask}]
           /\ vtm' \in [Workers -> Queues]
<1>1. queue[q] \in Seq(Task) /\ queue[q] # <<>> BY DEF TypeOK, StealFrom
<1>2. Head(queue[q]) \in Task /\ Tail(queue[q]) \in Seq(Task) BY <1>1
<1> QED BY <1>2 DEF TypeOK, StealFrom

\* Pushing a task keeps a queue a sequence of tasks.
LEMMA PushType ==
    ASSUME TypeOK, NEW q \in Queues, NEW t \in Task, Push(q, t)
    PROVE  queue' \in [Queues -> Seq(Task)]
<1>1. Append(queue[q], t) \in Seq(Task) BY DEF TypeOK
<1> QED BY <1>1 DEF TypeOK, Push

\* Popping yields a task or none and keeps the queue a sequence of tasks.
LEMMA PopType ==
    ASSUME TypeOK, NEW w \in Workers, queue[w] # <<>>
    PROVE  /\ queue[w] \in Seq(Task)
           /\ Len(queue[w]) \in Nat \ {0}
           /\ queue[w][Len(queue[w])] \in Task
           /\ SubSeq(queue[w], 1, Len(queue[w]) - 1) \in Seq(Task)
           /\ Len(SubSeq(queue[w], 1, Len(queue[w]) - 1)) = Len(queue[w]) - 1
           /\ \A i \in 1 .. Len(queue[w]) - 1 :
                 SubSeq(queue[w], 1, Len(queue[w]) - 1)[i] = queue[w][i]
<1>1. queue[w] \in Seq(Task) BY SetsOfIds DEF TypeOK
<1>2. Len(queue[w]) \in Nat \ {0} BY <1>1
<1>3. \A i \in 1 .. Len(queue[w]) : queue[w][i] \in Task BY <1>1
<1>4. SubSeq(queue[w], 1, Len(queue[w]) - 1) \in Seq(Task) BY <1>1, <1>2, <1>3
<1> QED BY <1>1, <1>2, <1>3, <1>4

\* Moving a worker to another point of its loop keeps the type of pc.
LEMMA GotoType ==
    ASSUME TypeOK, NEW w \in Workers, NEW l \in WorkerPC, Goto(w, l)
    PROVE  pc' \in [Workers -> WorkerPC]
BY DEF TypeOK, Goto

\* The types are preserved by every step.
LEMMA TypeNext == TypeOK /\ SignalsBounded /\ WaitProtocol /\ [Next]_vars => TypeOK'
<1> SUFFICES ASSUME TypeOK, SignalsBounded, WaitProtocol, [Next]_vars PROVE TypeOK' OBVIOUS
<1>0. ECTypeOK' BY StepOfEventCount, ECNextInv DEF ECInv, TypeOK
<1>1. ASSUME NEW w \in Workers, WorkerStep(w) PROVE TypeOK'
  <2>0. chk \in [Workers -> Nat] /\ steals \in [Workers -> Nat] BY DEF TypeOK
  <2>1. CASE Explore(w)
    <3>0. UNCHANGED <<created, finished, chk, clientVars, ownerVars>> BY <2>1 DEF Explore
    <3>1. PICK q \in Queues : StealFrom(w, q) \/ FailToSteal(w, q) BY <2>1 DEF Explore, TypeOK
    <3>2. CASE StealFrom(w, q)
      <4>1. pc' \in [Workers -> WorkerPC] BY <3>2, GotoType DEF StealFrom, WorkerPC
      <4> QED BY <1>0, <3>0, <3>2, <4>1, StealType DEF StealFrom, TypeOK, clientVars, ownerVars
    <3>3. CASE FailToSteal(w, q)
      <4>1. pc' \in [Workers -> WorkerPC] BY <3>3, GotoType DEF FailToSteal, WorkerPC
      <4>2. steals' \in [Workers -> Nat] BY <3>3 DEF FailToSteal, TypeOK
      <4>3. UNCHANGED <<queue, task, vtm>> BY <3>3 DEF FailToSteal
      <4> QED BY <1>0, <3>0, <4>1, <4>2, <4>3 DEF TypeOK, clientVars, ownerVars
    <3> QED BY <3>1, <3>2, <3>3
  <2>2. CASE Prepare(w) \/ CheckDone(w) \/ Notify(w)
    <3>1. pc' \in [Workers -> WorkerPC] BY <2>2, GotoType DEF Prepare, CheckDone, Notify, WorkerPC
    <3>0. chk' = chk \/ chk' = [chk EXCEPT ![w] = 0] BY <2>2 DEF Prepare, CheckDone, Notify
    <3>2. chk' \in [Workers -> Nat] BY <2>0, <3>0
    <3>3. UNCHANGED <<queue, created, finished, task, vtm, steals, clientVars, ownerVars>>
      BY <2>2 DEF Prepare, CheckDone, Notify
    <3> QED BY <1>0, <3>1, <3>2, <3>3 DEF TypeOK, clientVars, ownerVars
  <2>3. CASE Cancel(w) \/ Commit(w) \/ Wake(w)
    <3>1. pc' \in [Workers -> WorkerPC]
      BY <2>3, GotoType DEF Cancel, Commit, Wake, GotoExplore, WorkerPC
    <3>2. steals' \in [Workers -> Nat] BY <2>3 DEF Cancel, Commit, Wake, GotoExplore, TypeOK
    <3> QED BY <1>0, <2>3, <3>1, <3>2 DEF Cancel, Commit, Wake, TypeOK, clientVars, ownerVars
  <2>4. CASE Check(w)
    <3>1. QueueAt(chk[w]) \in Queues BY <2>4, SchedulerAssumption DEF Check, QueueAt, Queues
    <3>2. pc' \in [Workers -> WorkerPC] BY <2>4, GotoType DEF Check, WorkerPC, TypeOK
    <3>3. /\ vtm' = vtm \/ vtm' = [vtm EXCEPT ![w] = QueueAt(chk[w])]
          /\ chk' = chk \/ chk' = [chk EXCEPT ![w] = @ + 1] BY <2>4 DEF Check
    <3>4. vtm' \in [Workers -> Queues] BY <3>1, <3>3 DEF TypeOK
    <3>5. chk' \in [Workers -> Nat] BY <3>3 DEF TypeOK
    <3> QED BY <1>0, <2>4, <3>2, <3>4, <3>5 DEF Check, TypeOK, clientVars, ownerVars
  <2>5. CASE Schedule(w)
    <3>1. queue' \in [Queues -> Seq(Task)] BY <2>5, PushType, SetsOfIds DEF Schedule
    <3>2. pc' \in [Workers -> WorkerPC] BY <2>5, GotoType DEF Schedule, WorkerPC
    <3> QED BY <1>0, <2>5, <3>1, <3>2 DEF Schedule, TypeOK, clientVars, ownerVars
  <2>6. CASE Finish(w)
    <3>1. finished' \in SUBSET Task BY <2>6 DEF Finish, TypeOK, WaitProtocol
    <3>2. pc' \in [Workers -> WorkerPC] BY <2>6, GotoType DEF Finish, WorkerPC, TypeOK
    <3>3. task' \in [Workers -> Task \cup {NoTask}] /\ created' \in SUBSET Task
      BY <2>6 DEF Finish, TypeOK
    <3> QED BY <1>0, <2>6, <3>1, <3>2, <3>3 DEF Finish, TypeOK, clientVars, ownerVars
  <2>7. CASE Pop(w)
    <3>1. pc' \in [Workers -> WorkerPC] BY <2>7, GotoType DEF Pop, GotoExplore, WorkerPC
    <3>2. CASE queue[w] = <<>>
      <4>1. steals' \in [Workers -> Nat] /\ UNCHANGED <<queue, task>>
        BY <2>0, <2>7, <3>2 DEF Pop, GotoExplore
      <4> QED BY <1>0, <2>7, <3>1, <4>1 DEF Pop, TypeOK, clientVars, ownerVars
    <3>3. CASE queue[w] # <<>>
      <4>1. /\ task' = [task EXCEPT ![w] = queue[w][Len(queue[w])]]
            /\ queue' = [queue EXCEPT ![w] = SubSeq(@, 1, Len(@) - 1)]
            /\ UNCHANGED steals BY <2>7, <3>3 DEF Pop
      <4>2. task' \in [Workers -> Task \cup {NoTask}] BY <3>3, <4>1, PopType DEF TypeOK
      <4>3. queue' \in [Queues -> Seq(Task)] BY <3>3, <4>1, PopType DEF TypeOK
      <4> QED BY <1>0, <2>7, <3>1, <4>1, <4>2, <4>3 DEF Pop, TypeOK, clientVars, ownerVars
    <3> QED BY <3>2, <3>3
  <2> QED BY <1>1, <2>1, <2>2, <2>3, <2>4, <2>5, <2>6, <2>7 DEF WorkerStep
<1>2. ASSUME NEW c \in Client, Submit(c) PROVE TypeOK'
  <2>1. PICK b \in SUBSET (Task \ created) \ {{}} :
          /\ created' = created \cup b
          /\ batch' = [batch EXCEPT ![c] = b]
          /\ owed' = [owed EXCEPT ![c] = Cardinality(b)] BY <1>2 DEF Submit
  <2>2. Cardinality(b) \in Nat BY TaskAssumption, FS_Subset, FS_CardinalityType
  <2> QED BY <1>0, <1>2, <2>1, <2>2 DEF Submit, TypeOK, workerVars, ownerVars
<1>3. ASSUME NEW c \in Client, ClientPush(c) PROVE TypeOK'
  <2>1. queue' \in [Queues -> Seq(Task)] BY <1>3, PushType, SetsOfIds DEF ClientPush, TypeOK
  <2>2. cpc' \in [Client -> {"idle", "push", "notify", "notifyall"}] BY <1>3 DEF ClientPush, TypeOK
  <2>3. batch' \in [Client -> SUBSET Task] BY <1>3 DEF ClientPush, TypeOK
  <2> QED BY <1>0, <1>3, <2>1, <2>2, <2>3 DEF ClientPush, TypeOK, workerVars, ownerVars
<1>4. ASSUME NEW c \in Client, ClientNotify(c) \/ ClientNotifyAll(c) PROVE TypeOK'
  <2>1. cpc' \in [Client -> {"idle", "push", "notify", "notifyall"}]
    BY <1>4 DEF ClientNotify, ClientNotifyAll, TypeOK
  <2>2. owed' \in [Client -> Int] BY <1>4 DEF ClientNotify, ClientNotifyAll, TypeOK
  <2> QED BY <1>0, <1>4, <2>1, <2>2 DEF ClientNotify, ClientNotifyAll, TypeOK, workerVars, ownerVars
<1>5. CASE WaitForAll \/ ShutdownNotify \/ Join
  BY <1>0, <1>5 DEF WaitForAll, ShutdownNotify, Join, TypeOK, workerVars, clientVars
<1>7. CASE SetDone
  <2>1. done' \in [Workers -> BOOLEAN] BY <1>7 DEF SetDone, TypeOK
  <2> QED BY <1>0, <1>7, <2>1 DEF SetDone, TypeOK, workerVars, clientVars
<1>6. CASE Terminated \/ UNCHANGED vars
  BY <1>0, <1>6 DEF Terminated, vars, TypeOK, workerVars, clientVars, ownerVars
<1> QED BY <1>1, <1>2, <1>3, <1>4, <1>5, <1>6, <1>7 DEF Next, ClientStep, Shutdown

----------------------------------------------------------------------------
(* The inductive invariant *)

IInv ==
    /\ TypeOK
    /\ SignalsBounded
    /\ WaitProtocol
    /\ ClosedWhenStopping
    /\ finished \subseteq created
    /\ InOnePlace
    /\ OwnQueueEmptyWhileWaiting
    /\ NoLostWakeup

\* A notification changes a waiter's phase only by waking it.
LEMMA NotifyWakes ==
    ASSUME TypeOK, NotifyOne \/ NotifyAll, NEW v \in Workers
    PROVE  \/ phase'[v] = phase[v]
           \/ phase[v] = "parked" /\ phase'[v] = "woken"
<1>1. phase \in [Waiters -> Phase] /\ v \in Waiters BY SetsOfIds DEF TypeOK, ECTypeOK
<1>2. CASE NotifyAll BY <1>1, <1>2 DEF NotifyAll
<1>3. CASE NotifyOne
  <2>1. \/ UNCHANGED phase
        \/ \E u \in Parked : phase' = [phase EXCEPT ![u] = "woken"] BY <1>3 DEF NotifyOne, ecVars
  <2> QED BY <1>1, <2>1 DEF Parked, In
<1> QED BY <1>2, <1>3

\* The parts of WaitProtocol for one worker.
Agree(v) ==
    /\ phase[v] = "prewait" <=> pc[v] \in {"check", "cancel", "quit", "commit"}
    /\ phase[v] \in {"parked", "woken"} <=> pc[v] = "sleep"
    /\ task[v] # NoTask <=> pc[v] \in {"invoke", "notify"}

\* The worker loop follows the two-phase protocol.
LEMMA ProtocolNext == IInv /\ [Next]_vars => WaitProtocol'
<1> SUFFICES ASSUME IInv, [Next]_vars, NEW v \in Workers
             PROVE  Agree(v)' BY DEF WaitProtocol, Agree
<1> USE DEF Agree
<1>0. /\ phase \in [Waiters -> Phase] /\ Waiters = Workers
      /\ pc \in [Workers -> WorkerPC]
      /\ task \in [Workers -> Task \cup {NoTask}]
      /\ steals \in [Workers -> Nat]
      /\ NoTask \notin Task BY SetsOfIds, SchedulerAssumption DEF IInv, TypeOK, ECTypeOK
<1>1. Agree(v) BY DEF IInv, WaitProtocol
<1>2. ASSUME NEW w \in Workers, WorkerStep(w) PROVE Agree(v)'
  <2>1. CASE Explore(w)
    <3>1. PICK q \in Queues : StealFrom(w, q) \/ FailToSteal(w, q) BY <2>1 DEF Explore, IInv, TypeOK
    <3>2. UNCHANGED phase /\ pc[w] = "explore" BY <2>1 DEF Explore, ecVars
    <3>3. CASE StealFrom(w, q)
      <4>1. Head(queue[q]) \in Task BY <3>3 DEF StealFrom, IInv, TypeOK
      <4> QED BY <1>0, <1>1, <3>2, <3>3, <4>1 DEF StealFrom, Goto
    <3>4. CASE FailToSteal(w, q) BY <1>0, <1>1, <3>2, <3>4 DEF FailToSteal, Goto
    <3> QED BY <3>1, <3>3, <3>4
  <2>2. CASE Prepare(w) BY <1>0, <1>1, <2>2 DEF Prepare, PrepareWait, Goto
  <2>3. CASE Check(w) \/ CheckDone(w) BY <1>0, <1>1, <2>3 DEF Check, CheckDone, Goto, ecVars
  <2>4. CASE Cancel(w) BY <1>0, <1>1, <2>4 DEF Cancel, CancelWait, Goto, GotoExplore
  <2>5. CASE Commit(w)
    BY <1>0, <1>1, <2>5 DEF Commit, CommitWait, Goto, GotoExplore, IInv, TypeOK, ECTypeOK
  <2>6. CASE Wake(w) BY <1>0, <1>1, <2>6 DEF Wake, Resume, Goto, GotoExplore
  <2>7. CASE Schedule(w) BY <1>0, <1>1, <2>7 DEF Schedule, Goto, ecVars
  <2>8. CASE Notify(w)
    <3>1. \/ phase'[v] = phase[v]
          \/ phase[v] = "parked" /\ phase'[v] = "woken" BY <2>8, NotifyWakes DEF Notify, IInv
    <3> QED BY <1>0, <1>1, <2>8, <3>1 DEF Notify, Goto
  <2>9. CASE Finish(w) BY <1>0, <1>1, <2>9 DEF Finish, Goto, ecVars
  <2>10. CASE Pop(w)
    <3>1. queue[w] # <<>> => queue[w][Len(queue[w])] \in Task BY PopType DEF IInv
    <3> QED BY <1>0, <1>1, <2>10, <3>1 DEF Pop, Goto, GotoExplore, ecVars
  <2> QED BY <1>2, <2>1, <2>2, <2>3, <2>4, <2>5, <2>6, <2>7, <2>8, <2>9, <2>10 DEF WorkerStep
<1>3. ASSUME NEW c \in Client, Submit(c) \/ ClientPush(c) PROVE Agree(v)'
  BY <1>1, <1>3 DEF Submit, ClientPush, ecVars, workerVars
<1>4. CASE \/ \E c \in Client : ClientNotify(c) \/ ClientNotifyAll(c)
           \/ ShutdownNotify
  <2>1. \/ phase'[v] = phase[v]
        \/ phase[v] = "parked" /\ phase'[v] = "woken"
    BY <1>4, NotifyWakes DEF ClientNotify, ClientNotifyAll, ShutdownNotify, IInv
  <2>2. UNCHANGED <<pc, task>> BY <1>4 DEF ClientNotify, ClientNotifyAll, ShutdownNotify, workerVars
  <2> QED BY <1>1, <2>1, <2>2
<1>5. CASE WaitForAll \/ SetDone \/ Join \/ Terminated \/ UNCHANGED vars
  BY <1>1, <1>5 DEF WaitForAll, SetDone, Join, Terminated, vars, ecVars, workerVars
<1> QED BY <1>2, <1>3, <1>4, <1>5 DEF Next, ClientStep, Shutdown

----------------------------------------------------------------------------
(* What a step does to the queues, the tasks in hand and the batches *)

\* What a steal does: one queue loses its head, the thief holds it, nothing else moves.
LEMMA StealFacts ==
    ASSUME IInv, NEW w \in Workers, NEW q \in Queues, StealFrom(w, q)
    PROVE  /\ Len(queue[q]) \in Nat \ {0}
           /\ task' = [task EXCEPT ![w] = queue[q][1]]
           /\ \A p \in Queues : p # q => queue'[p] = queue[p]
           /\ Len(queue'[q]) = Len(queue[q]) - 1
           /\ \A i \in 1 .. Len(queue'[q]) : queue'[q][i] = queue[q][i + 1]
<1>1. queue[q] \in Seq(Task) /\ queue[q] # <<>> /\ queue \in [Queues -> Seq(Task)]
  BY DEF IInv, TypeOK, StealFrom
<1>2. queue'[q] = Tail(queue[q]) BY <1>1 DEF StealFrom
<1>3. /\ Len(queue[q]) \in Nat \ {0}
      /\ Head(queue[q]) = queue[q][1]
      /\ Len(Tail(queue[q])) = Len(queue[q]) - 1
      /\ \A i \in 1 .. Len(Tail(queue[q])) : Tail(queue[q])[i] = queue[q][i + 1] BY <1>1
<1>4. \A p \in Queues : p # q => queue'[p] = queue[p] BY <1>1 DEF StealFrom
<1> QED BY <1>2, <1>3, <1>4 DEF StealFrom

\* What a push does: one queue gains the task at its end, the others stay.
LEMMA PushFacts ==
    ASSUME IInv, NEW q \in Queues, NEW t \in Task, Push(q, t)
    PROVE  /\ Len(queue[q]) \in Nat
           /\ \A p \in Queues : p # q => queue'[p] = queue[p]
           /\ Len(queue'[q]) = Len(queue[q]) + 1
           /\ \A i \in 1 .. Len(queue[q]) : queue'[q][i] = queue[q][i]
           /\ queue'[q][Len(queue[q]) + 1] = t
<1>1. queue[q] \in Seq(Task) /\ queue \in [Queues -> Seq(Task)] BY DEF IInv, TypeOK
<1>2. queue'[q] = Append(queue[q], t) BY <1>1 DEF Push
<1>3. /\ Len(queue[q]) \in Nat
      /\ Len(Append(queue[q], t)) = Len(queue[q]) + 1
      /\ \A i \in 1 .. Len(queue[q]) : Append(queue[q], t)[i] = queue[q][i]
      /\ Append(queue[q], t)[Len(queue[q]) + 1] = t BY <1>1
<1>4. \A p \in Queues : p # q => queue'[p] = queue[p] BY <1>1 DEF Push
<1> QED BY <1>2, <1>3, <1>4

\* What a pop does: the worker's own queue loses its last task to the worker's hand.
LEMMA PopFacts ==
    ASSUME IInv, NEW w \in Workers, queue[w] # <<>>,
           queue' = [queue EXCEPT ![w] = SubSeq(@, 1, Len(@) - 1)]
    PROVE  /\ w \in Queues
           /\ Len(queue[w]) \in Nat \ {0}
           /\ \A p \in Queues : p # w => queue'[p] = queue[p]
           /\ Len(queue'[w]) = Len(queue[w]) - 1
           /\ \A i \in 1 .. Len(queue'[w]) : queue'[w][i] = queue[w][i]
<1>1. queue \in [Queues -> Seq(Task)] /\ w \in Queues BY SetsOfIds DEF IInv, TypeOK
<1>2. queue'[w] = SubSeq(queue[w], 1, Len(queue[w]) - 1) BY <1>1
<1>3. \A p \in Queues : p # w => queue'[p] = queue[p] BY <1>1
<1> QED BY <1>1, <1>2, <1>3, PopType DEF IInv

----------------------------------------------------------------------------
(* Outside of the exploit phase a worker's own queue is empty *)

\* No step fills the queue of a worker outside of its exploit phase.
LEMMA OwnQueueNext == IInv /\ [Next]_vars => OwnQueueEmptyWhileWaiting'
<1> SUFFICES ASSUME IInv, [Next]_vars, NEW v \in Workers, ~Executing(v)'
             PROVE  queue'[v] = <<>> BY DEF OwnQueueEmptyWhileWaiting
<1>0. /\ pc \in [Workers -> WorkerPC] /\ queue \in [Queues -> Seq(Task)]
      /\ v \in Queues BY SetsOfIds DEF IInv, TypeOK
<1>1. ~Executing(v) => queue[v] = <<>> BY DEF IInv, OwnQueueEmptyWhileWaiting
<1>2. ASSUME NEW w \in Workers, WorkerStep(w) PROVE queue'[v] = <<>>
  <2>1. CASE Explore(w)
    <3>1. PICK q \in Queues : StealFrom(w, q) \/ FailToSteal(w, q) BY <2>1 DEF Explore, IInv, TypeOK
    <3>2. pc[w] = "explore" /\ v # w => pc'[v] = pc[v]
      BY <1>0, <2>1, <3>1 DEF Explore, StealFrom, FailToSteal, Goto
    <3>3. CASE StealFrom(w, q)
      <4>1. v # w BY <1>0, <3>3 DEF StealFrom, Goto, Executing
      <4>2. queue[v] = <<>> BY <1>0, <1>1, <3>3, <4>1 DEF StealFrom, Goto, Executing
      <4> QED BY <3>3, <4>2, StealFacts DEF StealFrom
    <3>4. CASE FailToSteal(w, q)
      <4>1. ~Executing(v) BY <1>0, <2>1, <3>4 DEF Explore, FailToSteal, Goto, Executing
      <4> QED BY <1>1, <3>4, <4>1 DEF FailToSteal
    <3> QED BY <3>1, <3>3, <3>4
  <2>2. CASE \/ Prepare(w) \/ Check(w) \/ CheckDone(w) \/ Cancel(w) \/ Commit(w)
             \/ Wake(w) \/ Notify(w)
    <3>1. ~Executing(v) /\ queue' = queue
      BY <1>0, <2>2 DEF Prepare, Check, CheckDone, Cancel, Commit, Wake, Notify, Goto,
         GotoExplore, Executing
    <3> QED BY <1>1, <3>1
  <2>3. CASE Schedule(w)
    <3>1. v # w /\ ~Executing(v) BY <1>0, <2>3 DEF Schedule, Goto, Executing
    <3>2. PICK q \in Queues, t \in Task : Push(q, t) /\ (q = w \/ q \in Buffers)
      BY <2>3, SetsOfIds DEF Schedule
    <3>3. q # v BY <3>1, <3>2, SchedulerAssumption DEF Workers, Buffers
    <3> QED BY <1>0, <1>1, <3>1, <3>2, <3>3, PushFacts
  <2>4. CASE Finish(w)
    <3>1. ~Executing(v) /\ queue' = queue BY <1>0, <2>4 DEF Finish, Goto, Executing
    <3> QED BY <1>1, <3>1
  <2>5. CASE Pop(w)
    <3>1. CASE queue[w] = <<>> BY <1>0, <1>1, <2>5, <3>1 DEF Pop, Goto, GotoExplore, Executing
    <3>2. CASE queue[w] # <<>>
      <4>1. v # w /\ ~Executing(v) BY <1>0, <2>5, <3>2 DEF Pop, Goto, Executing
      <4>2. queue' = [queue EXCEPT ![w] = SubSeq(@, 1, Len(@) - 1)] BY <2>5, <3>2 DEF Pop
      <4> QED BY <1>0, <1>1, <3>2, <4>1, <4>2, PopFacts
    <3> QED BY <3>1, <3>2
  <2> QED BY <1>2, <2>1, <2>2, <2>3, <2>4, <2>5 DEF WorkerStep
<1>3. ASSUME NEW c \in Client, ClientPush(c) PROVE queue'[v] = <<>>
  <2>1. PICK q \in Buffers, t \in Task : Push(q, t) BY <1>3 DEF ClientPush, IInv, TypeOK
  <2>2. q \in Queues /\ q # v BY <2>1, SchedulerAssumption DEF Workers, Buffers, Queues
  <2>3. ~Executing(v) BY <1>3 DEF ClientPush, workerVars, Executing
  <2> QED BY <1>0, <1>1, <2>1, <2>2, <2>3, PushFacts
<1>4. CASE \/ \E c \in Client : Submit(c) \/ ClientNotify(c) \/ ClientNotifyAll(c)
           \/ WaitForAll \/ Shutdown \/ Terminated \/ UNCHANGED vars
  <2>1. UNCHANGED <<pc, queue>>
    BY <1>4 DEF Submit, ClientNotify, ClientNotifyAll, WaitForAll, Shutdown, SetDone,
       ShutdownNotify, Join, Terminated, vars, workerVars
  <2> QED BY <1>1, <2>1 DEF Executing
<1> QED BY <1>2, <1>3, <1>4 DEF Next, ClientStep

----------------------------------------------------------------------------
(* The executor closes only when all work is finished *)

\* The shutdown flag is raised only after the clients are done and all tasks finished.
LEMMA ClosedNext == IInv /\ [Next]_vars => ClosedWhenStopping'
<1> SUFFICES ASSUME IInv, [Next]_vars PROVE ClosedWhenStopping' OBVIOUS
<1>0. /\ pc \in [Workers -> WorkerPC] /\ done \in [Workers -> BOOLEAN]
      /\ oid \in Nat /\ cpc \in [Client -> {"idle", "push", "notify", "notifyall"}]
      /\ ClosedWhenStopping BY DEF IInv, TypeOK
<1>1. \A w \in Workers : pc[w] = "invoke" => opc = "using" /\ task[w] # NoTask
  BY <1>0 DEF IInv, ClosedWhenStopping, WaitProtocol, InOnePlace, HeldOnce
<1>2. ASSUME NEW w \in Workers, WorkerStep(w) PROVE ClosedWhenStopping'
  <2>0. UNCHANGED <<cpc, done, opc, oid>>
    BY <1>2 DEF WorkerStep, Explore, Prepare, Check, CheckDone, Cancel, Commit, Wake,
       Schedule, Notify, Finish, Pop, clientVars, ownerVars
  <2>1. opc # "using" => UNCHANGED <<created, finished>>
    BY <1>1, <1>2 DEF WorkerStep, Explore, Prepare, Check, CheckDone, Cancel, Commit, Wake,
       Schedule, Notify, Finish, Pop
  <2>2. \A v \in Workers : pc'[v] \in {"quit", "exited"} => done[v]
    <3>1. CASE Explore(w)
      BY <1>0, <3>1 DEF Explore, StealFrom, FailToSteal, Goto, ClosedWhenStopping
    <3>2. CASE Prepare(w) \/ Check(w) \/ CheckDone(w) \/ Cancel(w)
      BY <1>0, <3>2 DEF Prepare, Check, CheckDone, Cancel, Goto, GotoExplore, ClosedWhenStopping
    <3>3. CASE Commit(w) \/ Wake(w) \/ Schedule(w) \/ Notify(w) \/ Finish(w) \/ Pop(w)
      BY <1>0, <3>3 DEF Commit, Wake, Schedule, Notify, Finish, Pop, Goto, GotoExplore,
         ClosedWhenStopping
    <3> QED BY <1>2, <3>1, <3>2, <3>3 DEF WorkerStep
  <2> QED BY <1>0, <2>0, <2>1, <2>2 DEF ClosedWhenStopping
<1>3. ASSUME NEW c \in Client, Submit(c) \/ ClientPush(c) \/ ClientNotify(c) \/ ClientNotifyAll(c)
      PROVE  ClosedWhenStopping'
  <2>1. opc = "using" /\ UNCHANGED <<pc, done, opc, oid>>
    BY <1>0, <1>3 DEF Submit, ClientPush, ClientNotify, ClientNotifyAll, ClosedWhenStopping,
       workerVars, ownerVars
  <2> QED BY <1>0, <2>1 DEF ClosedWhenStopping
<1>4. CASE WaitForAll
  BY <1>0, <1>4, SchedulerAssumption DEF WaitForAll, ClosedWhenStopping, workerVars, clientVars
<1>5. CASE SetDone
  <2>1. oid + 1 = NumWorkers \/ oid + 1 < NumWorkers
    BY <1>0, <1>5, SchedulerAssumption DEF SetDone, ClosedWhenStopping
  <2> QED
    BY <1>0, <1>5, <2>1, SchedulerAssumption DEF SetDone, ClosedWhenStopping, workerVars, clientVars
<1>6. CASE ShutdownNotify \/ Join \/ Terminated \/ UNCHANGED vars
  BY <1>0, <1>6 DEF ShutdownNotify, Join, Terminated, vars, ClosedWhenStopping,
     workerVars, clientVars, ownerVars
<1> QED BY <1>2, <1>3, <1>4, <1>5, <1>6 DEF Next, ClientStep, Shutdown

----------------------------------------------------------------------------
(* A task is in one place *)

\* A queue loses its oldest task to a worker that held none.
LEMMA StealOnePlace ==
    ASSUME IInv, NEW w \in Workers, NEW q \in Queues, StealFrom(w, q),
           task[w] = NoTask, UNCHANGED <<created, finished, batch>>
    PROVE  InOnePlace'
<1> DEFINE from(p, i) == IF p = q THEN i + 1 ELSE i
<1>0. /\ QueuedOnce /\ HeldOnce /\ BatchedOnce /\ w \in Workers
      /\ task \in [Workers -> Task \cup {NoTask}] /\ NoTask \notin Task
  BY SchedulerAssumption DEF IInv, InOnePlace, TypeOK
<1>1. 1 \in 1 .. Len(queue[q]) /\ queue[q][1] \in Task
  BY StealFacts, SchedulerAssumption DEF IInv, TypeOK
<1>2. \A p \in Queues : \A i \in 1 .. Len(queue'[p]) :
         /\ from(p, i) \in 1 .. Len(queue[p])
         /\ queue'[p][i] = queue[p][from(p, i)]
         /\ p = q => from(p, i) # 1 BY StealFacts
<1>3. \A p \in Queues : \A i \in 1 .. Len(queue'[p]) : queue'[p][i] # queue[q][1]
  BY <1>0, <1>1, <1>2 DEF QueuedOnce
<1>4. \A v \in Workers : task'[v] = IF v = w THEN queue[q][1] ELSE task[v] BY <1>0, StealFacts
<1>5. QueuedOnce'
  <2> SUFFICES ASSUME NEW p \in Queues, NEW i \in 1 .. Len(queue'[p])
               PROVE  /\ queue'[p][i] \in created \ finished
                      /\ \A r \in Queues : \A j \in 1 .. Len(queue'[r]) :
                            queue'[p][i] = queue'[r][j] => p = r /\ i = j
                      /\ \A v \in Workers : queue'[p][i] # task'[v]
                      /\ \A c \in Client : queue'[p][i] \notin batch[c] BY DEF QueuedOnce
  <2>1. from(p, i) \in 1 .. Len(queue[p]) /\ queue'[p][i] = queue[p][from(p, i)] BY <1>2
  <2>2. \A r \in Queues : \A j \in 1 .. Len(queue'[r]) :
            queue'[p][i] = queue'[r][j] => p = r /\ i = j
    <3> SUFFICES ASSUME NEW r \in Queues, NEW j \in 1 .. Len(queue'[r]),
                        queue'[p][i] = queue'[r][j]
                 PROVE  p = r /\ i = j OBVIOUS
    <3>1. PICK a \in 1 .. Len(queue[p]) : a = from(p, i) /\ queue'[p][i] = queue[p][a] BY <2>1
    <3>2. PICK b \in 1 .. Len(queue[r]) : b = from(r, j) /\ queue'[r][j] = queue[r][b] BY <1>2
    <3>3. queue[p][a] = queue[r][b] BY <3>1, <3>2
    <3>4. p = r /\ a = b BY <1>0, <3>3 DEF QueuedOnce
    <3> QED BY <3>1, <3>2, <3>4, StealFacts
  <2> QED BY <1>0, <1>3, <1>4, <2>1, <2>2 DEF QueuedOnce
<1>6. HeldOnce' BY <1>0, <1>1, <1>4 DEF HeldOnce, QueuedOnce
<1>7. BatchedOnce' BY <1>0 DEF BatchedOnce
<1> QED BY <1>5, <1>6, <1>7 DEF InOnePlace

\* A worker takes the newest task of its own queue.
LEMMA PopOnePlace ==
    ASSUME IInv, NEW w \in Workers, queue[w] # <<>>, task[w] = NoTask,
           queue' = [queue EXCEPT ![w] = SubSeq(@, 1, Len(@) - 1)],
           task' = [task EXCEPT ![w] = queue[w][Len(queue[w])]],
           UNCHANGED <<created, finished, batch>>
    PROVE  InOnePlace'
<1>0. /\ QueuedOnce /\ HeldOnce /\ BatchedOnce
      /\ task \in [Workers -> Task \cup {NoTask}] /\ NoTask \notin Task
  BY SchedulerAssumption DEF IInv, InOnePlace, TypeOK
<1> DEFINE n == Len(queue[w])
<1>1. n \in 1 .. Len(queue[w]) /\ queue[w][n] \in Task /\ w \in Queues
  BY PopType, SetsOfIds DEF IInv
<1>2. \A p \in Queues : \A i \in 1 .. Len(queue'[p]) :
         /\ i \in 1 .. Len(queue[p])
         /\ queue'[p][i] = queue[p][i]
         /\ p = w => i # n
  <2>1. \A i \in 1 .. Len(queue'[w]) :
           i \in 1 .. n - 1 /\ queue'[w][i] = queue[w][i] BY PopFacts
  <2>2. \A p \in Queues : p # w => queue'[p] = queue[p] BY PopFacts
  <2>3. n \in Nat BY PopFacts
  <2> QED BY <2>1, <2>2, <2>3
<1>3. \A p \in Queues : \A i \in 1 .. Len(queue'[p]) : queue'[p][i] # queue[w][n]
  BY <1>0, <1>1, <1>2 DEF QueuedOnce
<1>4. \A v \in Workers : task'[v] = IF v = w THEN queue[w][n] ELSE task[v] BY <1>0
<1> HIDE DEF n
<1>5. QueuedOnce' BY <1>0, <1>2, <1>3, <1>4 DEF QueuedOnce
<1>6. HeldOnce' BY <1>0, <1>1, <1>4 DEF HeldOnce, QueuedOnce
<1>7. BatchedOnce' BY <1>0 DEF BatchedOnce
<1> QED BY <1>5, <1>6, <1>7 DEF InOnePlace

\* A task that is nowhere else enters a queue.
LEMMA PushOnePlace ==
    ASSUME IInv, NEW q \in Queues, NEW t \in Task, Push(q, t),
           t \in created' \ finished, created \subseteq created',
           \A p \in Queues : \A i \in 1 .. Len(queue[p]) : queue[p][i] # t,
           \A w \in Workers : task[w] # t,
           \A c \in Client : batch'[c] \subseteq batch[c] \ {t},
           UNCHANGED <<finished, task>>
    PROVE  InOnePlace'
<1>0. QueuedOnce /\ HeldOnce /\ BatchedOnce BY DEF IInv, InOnePlace
<1>1. \A p \in Queues : \A i \in 1 .. Len(queue'[p]) :
         \/ i \in 1 .. Len(queue[p]) /\ queue'[p][i] = queue[p][i]
         \/ p = q /\ i = Len(queue[q]) + 1 /\ queue'[p][i] = t BY PushFacts
<1>2. QueuedOnce'
  <2> SUFFICES ASSUME NEW p \in Queues, NEW i \in 1 .. Len(queue'[p])
               PROVE  /\ queue'[p][i] \in created' \ finished
                      /\ \A r \in Queues : \A j \in 1 .. Len(queue'[r]) :
                            queue'[p][i] = queue'[r][j] => p = r /\ i = j
                      /\ \A v \in Workers : queue'[p][i] # task[v]
                      /\ \A c \in Client : queue'[p][i] \notin batch'[c] BY DEF QueuedOnce
  <2>1. CASE i \in 1 .. Len(queue[p]) /\ queue'[p][i] = queue[p][i]
    BY <1>0, <1>1, <2>1 DEF QueuedOnce
  <2>2. CASE p = q /\ i = Len(queue[q]) + 1 /\ queue'[p][i] = t BY <1>1, <2>2
  <2> QED BY <1>1, <2>1, <2>2
<1>3. HeldOnce' BY <1>0 DEF HeldOnce
<1>4. BatchedOnce' BY <1>0 DEF BatchedOnce
<1> QED BY <1>2, <1>3, <1>4 DEF InOnePlace

\* A worker finishes its task and takes on either none or one that is nowhere.
LEMMA FinishOnePlace ==
    ASSUME IInv, NEW w \in Workers, Finish(w)
    PROVE  InOnePlace'
<1>0. /\ QueuedOnce /\ HeldOnce /\ BatchedOnce
      /\ task \in [Workers -> Task \cup {NoTask}] /\ NoTask \notin Task
      /\ finished' = finished \cup {task[w]}
      /\ UNCHANGED <<queue, batch>>
      /\ task[w] # NoTask
      /\ created \in SUBSET Task
      /\ finished \subseteq created
  BY SchedulerAssumption DEF IInv, InOnePlace, TypeOK, Finish, WaitProtocol, clientVars
<1>1. PICK t \in (Task \ created) \cup {NoTask} :
         /\ task' = [task EXCEPT ![w] = t]
         /\ created' = IF t = NoTask THEN created ELSE created \cup {t} BY <1>0 DEF Finish
<1>2. \A v \in Workers : task'[v] = IF v = w THEN t ELSE task[v] BY <1>0, <1>1
<1>3. \A q \in Queues : \A i \in 1 .. Len(queue[q]) : queue[q][i] \in created /\ queue[q][i] # t
  BY <1>0, <1>1 DEF QueuedOnce
<1>4. QueuedOnce' BY <1>0, <1>1, <1>2, <1>3 DEF QueuedOnce
<1>5. HeldOnce' BY <1>0, <1>1, <1>2 DEF HeldOnce, BatchedOnce
<1>6. BatchedOnce' BY <1>0, <1>1 DEF BatchedOnce, HeldOnce
<1> QED BY <1>4, <1>5, <1>6 DEF InOnePlace

\* No step puts a task in a second place, or a finished one back.
LEMMA OnePlaceNext == IInv /\ [Next]_vars => InOnePlace' /\ (finished \subseteq created)'
<1> SUFFICES ASSUME IInv, [Next]_vars PROVE InOnePlace' /\ finished' \subseteq created' OBVIOUS
<1>0. /\ QueuedOnce /\ HeldOnce /\ BatchedOnce /\ finished \subseteq created
      /\ batch \in [Client -> SUBSET Task] /\ NoTask \notin Task
      /\ \A w \in Workers : task[w] # NoTask <=> pc[w] \in {"invoke", "notify"}
  BY SchedulerAssumption DEF IInv, InOnePlace, TypeOK, WaitProtocol
<1>1. ASSUME UNCHANGED <<queue, created, finished, task, batch>>
      PROVE  InOnePlace' /\ finished' \subseteq created'
  BY <1>0, <1>1 DEF InOnePlace, QueuedOnce, HeldOnce, BatchedOnce
<1>2. ASSUME NEW w \in Workers, WorkerStep(w)
      PROVE  InOnePlace' /\ finished' \subseteq created'
  <2>1. CASE Explore(w)
    <3>1. PICK q \in Queues : StealFrom(w, q) \/ FailToSteal(w, q) BY <2>1 DEF Explore, IInv, TypeOK
    <3>2. task[w] = NoTask /\ UNCHANGED <<created, finished, batch>>
      BY <1>0, <2>1 DEF Explore, clientVars
    <3>3. CASE StealFrom(w, q) BY <1>0, <3>2, <3>3, StealOnePlace
    <3>4. CASE FailToSteal(w, q) BY <1>1, <3>2, <3>4 DEF FailToSteal
    <3> QED BY <3>1, <3>3, <3>4
  <2>2. CASE \/ Prepare(w) \/ Check(w) \/ CheckDone(w) \/ Cancel(w) \/ Commit(w)
             \/ Wake(w) \/ Notify(w)
    BY <1>1, <2>2 DEF Prepare, Check, CheckDone, Cancel, Commit, Wake, Notify, clientVars
  <2>3. CASE Schedule(w)
    <3>1. PICK q \in Queues, t \in Task \ created :
             /\ Push(q, t)
             /\ created' = created \cup {t}
             /\ UNCHANGED <<finished, task, batch>> BY <2>3, SetsOfIds DEF Schedule, clientVars
    <3>2. /\ t \in created' \ finished /\ created \subseteq created'
          /\ \A p \in Queues : \A i \in 1 .. Len(queue[p]) : queue[p][i] # t
          /\ \A v \in Workers : task[v] # t
          /\ \A c \in Client : batch'[c] \subseteq batch[c] \ {t}
      BY <1>0, <3>1 DEF QueuedOnce, HeldOnce, BatchedOnce
    <3> QED BY <1>0, <3>1, <3>2, PushOnePlace
  <2>4. CASE Finish(w)
    <3>1. task[w] \in created BY <1>0, <2>4 DEF Finish, HeldOnce
    <3>2. finished' = finished \cup {task[w]} /\ created \subseteq created' BY <2>4 DEF Finish
    <3> QED BY <1>0, <2>4, <3>1, <3>2, FinishOnePlace
  <2>5. CASE Pop(w)
    <3>1. CASE queue[w] = <<>> BY <1>1, <2>5, <3>1 DEF Pop, clientVars
    <3>2. CASE queue[w] # <<>>
      <4>1. /\ queue' = [queue EXCEPT ![w] = SubSeq(@, 1, Len(@) - 1)]
            /\ task' = [task EXCEPT ![w] = queue[w][Len(queue[w])]]
            /\ UNCHANGED <<created, finished, batch>> BY <2>5, <3>2 DEF Pop, clientVars
      <4>2. task[w] = NoTask BY <1>0, <2>5 DEF Pop
      <4> QED BY <1>0, <3>2, <4>1, <4>2, PopOnePlace
    <3> QED BY <3>1, <3>2
  <2> QED BY <1>2, <2>1, <2>2, <2>3, <2>4, <2>5 DEF WorkerStep
<1>3. ASSUME NEW c \in Client, Submit(c) PROVE InOnePlace' /\ finished' \subseteq created'
  <2>1. PICK b \in SUBSET (Task \ created) :
           /\ created' = created \cup b
           /\ batch' = [batch EXCEPT ![c] = b]
           /\ UNCHANGED <<queue, finished, task>> BY <1>3 DEF Submit, workerVars
  <2>2. \A d \in Client : batch'[d] = IF d = c THEN b ELSE batch[d] BY <1>0, <2>1
  <2>3. QueuedOnce' BY <1>0, <2>1, <2>2 DEF QueuedOnce
  <2>4. HeldOnce' BY <1>0, <2>1, <2>2 DEF HeldOnce
  <2>5. BatchedOnce' BY <1>0, <2>1, <2>2 DEF BatchedOnce
  <2> QED BY <1>0, <2>1, <2>3, <2>4, <2>5 DEF InOnePlace
<1>4. ASSUME NEW c \in Client, ClientPush(c) PROVE InOnePlace' /\ finished' \subseteq created'
  <2>1. PICK q \in Queues, t \in batch[c] :
           /\ Push(q, t)
           /\ batch' = [batch EXCEPT ![c] = @ \ {t}]
           /\ UNCHANGED <<created, finished, task>> BY <1>4, SetsOfIds DEF ClientPush, workerVars
  <2>2. /\ t \in Task /\ t \in created' \ finished /\ created \subseteq created'
        /\ \A p \in Queues : \A i \in 1 .. Len(queue[p]) : queue[p][i] # t
    BY <1>0, <2>1 DEF QueuedOnce, BatchedOnce
  <2>3. \A w \in Workers : task[w] # t BY <1>0, <2>1, <2>2 DEF HeldOnce
  <2>4. \A d \in Client : batch'[d] \subseteq batch[d] \ {t} BY <1>0, <2>1 DEF BatchedOnce
  <2> QED BY <1>0, <2>1, <2>2, <2>3, <2>4, PushOnePlace
<1>5. CASE \/ \E c \in Client : ClientNotify(c) \/ ClientNotifyAll(c)
           \/ WaitForAll \/ Shutdown \/ Terminated \/ UNCHANGED vars
  BY <1>1, <1>5 DEF ClientNotify, ClientNotifyAll, WaitForAll, Shutdown, SetDone,
     ShutdownNotify, Join, Terminated, vars, workerVars, clientVars
<1> QED BY <1>2, <1>3, <1>4, <1>5 DEF Next, ClientStep

----------------------------------------------------------------------------
(* No wake-up is lost *)

\* While a task is queued the executor is in use and no worker leaves.
LEMMA QueuedMeansOpen ==
    ASSUME IInv, NEW q \in Queues, queue[q] # <<>>
    PROVE  /\ opc = "using"
           /\ \A w \in Workers : ~done[w] /\ pc[w] \notin {"quit", "exited"}
<1>1. queue[q] \in Seq(Task) BY DEF IInv, TypeOK
<1>2. 1 \in 1 .. Len(queue[q]) BY <1>1
<1>3. queue[q][1] \in created \ finished BY <1>2 DEF IInv, InOnePlace, QueuedOnce
<1> QED BY <1>3 DEF IInv, ClosedWhenStopping

\* A worker that is neither announced nor asleep looks at every queue again.
LEMMA AwakeLooks ==
    ASSUME IInv, NEW q \in Queues, NEW w \in Workers, opc = "using",
           phase[w] \in {"out", "woken"}
    PROVE  Executing(w) \/ WillLook(w, q)
<1>1. pc[w] \in WorkerPC \ {"check", "cancel", "quit", "commit", "exited"}
  BY DEF IInv, TypeOK, WaitProtocol, ClosedWhenStopping
<1>2. pc[w] = "sleep" => phase[w] = "woken" BY DEF IInv, WaitProtocol
<1> QED BY <1>1, <1>2 DEF WorkerPC, Executing, WillLook

\* After a notification, somebody is on the way.
LEMMA NotifyReaches ==
    ASSUME IInv, opc = "using", NotifyOne \/ NotifyAll, UNCHANGED <<pc, chk>>,
           NEW q \in Queues
    PROVE  (\E w \in Workers : Executing(w)' \/ WillLook(w, q)') \/ signals' > 0
<1>0. /\ phase \in [Waiters -> Phase] /\ Waiters = Workers
      /\ pc \in [Workers -> WorkerPC] /\ signals \in Nat
      /\ 0 \in Workers BY SetsOfIds, SchedulerAssumption DEF IInv, TypeOK, ECTypeOK, Workers
<1>1. CASE \E w \in Workers : phase[w] \in {"out", "woken"}
  <2>1. PICK w \in Workers : phase[w] \in {"out", "woken"} BY <1>1
  <2>2. phase'[w] = phase[w] BY <2>1, NotifyWakes DEF IInv
  <2>3. Executing(w) \/ WillLook(w, q) BY <2>1, AwakeLooks
  <2> QED BY <2>2, <2>3 DEF Executing, WillLook
<1>2. CASE \A w \in Workers : phase[w] \in {"prewait", "parked"}
  <2>1. CASE Announced = {}
    <3>1. Cardinality(Announced) = 0 BY <2>1, FS_EmptySet
    <3>2. \A w \in Workers : phase[w] = "parked" /\ pc[w] = "sleep"
      BY <1>0, <1>2, <2>1 DEF Announced, In, IInv, WaitProtocol
    <3>3. Parked # {} BY <1>0, <3>2 DEF Parked, In
    <3>4. CASE signals' = signals + 1 BY <1>0, <3>4
    <3>5. CASE \E w \in Workers : phase'[w] = "woken" BY <3>2, <3>5 DEF WillLook
    <3>6. NotifyAll => phase'[0] = "woken" BY <1>0, <3>2 DEF NotifyAll
    <3>7. NotifyOne => signals' = signals + 1 \/ \E w \in Workers : phase'[w] = "woken"
      BY <1>0, <3>3 DEF NotifyOne, Parked, In
    <3> QED BY <1>0, <3>4, <3>5, <3>6, <3>7
  <2>2. CASE Announced # {}
    <3>1. Cardinality(Announced) \in Nat \ {0} BY <2>2, AnnouncedFinite, FS_EmptySet
    <3> QED BY <1>0, <3>1 DEF NotifyOne, NotifyAll, ecVars
  <2> QED BY <2>1, <2>2
<1> QED BY <1>0, <1>1, <1>2 DEF Phase

\* No step loses a wake-up.
LEMMA WakeupNext == IInv /\ [Next]_vars => NoLostWakeup'
<1> SUFFICES ASSUME IInv, [Next]_vars, NEW q \in Queues,
                    queue'[q] # <<>>, ~NotificationPending'
             PROVE  (\E w \in Workers : Executing(w)' \/ WillLook(w, q)') \/ signals' > 0
  BY DEF NoLostWakeup
<1> DEFINE Found == (\E w \in Workers : Executing(w)' \/ WillLook(w, q)') \/ signals' > 0
<1>0. /\ phase \in [Waiters -> Phase] /\ Waiters = Workers
      /\ pc \in [Workers -> WorkerPC] /\ signals \in Nat
      /\ chk \in [Workers -> Nat]
      /\ queue \in [Queues -> Seq(Task)]
      /\ cpc \in [Client -> {"idle", "push", "notify", "notifyall"}]
  BY SetsOfIds DEF IInv, TypeOK, ECTypeOK
\* A step that neither queues a task nor notifies: someone was on the way.
<1>1. queue[q] # <<>> /\ ~NotificationPending =>
         (\E w \in Workers : Executing(w) \/ WillLook(w, q)) \/ signals > 0
  BY DEF IInv, NoLostWakeup
<1>2. ASSUME NEW w \in Workers, WorkerStep(w) PROVE Found
  <2>1. CASE Notify(w) \/ Finish(w) \/ Schedule(w)
    <3>1. pc'[w] \in {"invoke", "notify", "pop"} BY <1>0, <2>1 DEF Notify, Finish, Schedule, Goto
    <3> QED BY <3>1 DEF Executing
  <2>2. CASE \/ Explore(w) \/ Prepare(w) \/ Check(w) \/ CheckDone(w) \/ Cancel(w)
             \/ Commit(w) \/ Wake(w) \/ Pop(w)
    <3>1. /\ \A v \in Workers \ {w} : pc'[v] = pc[v] /\ phase'[v] = phase[v] /\ chk'[v] = chk[v]
          /\ pc[w] # "notify"
          /\ UNCHANGED cpc
      <4>1. CASE Explore(w)
        BY <1>0, <4>1 DEF Explore, StealFrom, FailToSteal, Goto, ecVars, clientVars
      <4>2. CASE Prepare(w) \/ Check(w) \/ CheckDone(w)
        BY <1>0, <4>2 DEF Prepare, PrepareWait, Check, CheckDone, Goto, ecVars, clientVars
      <4>3. CASE Cancel(w) \/ Commit(w) \/ Wake(w)
        BY <1>0, <4>3 DEF Cancel, CancelWait, Commit, CommitWait, Wake, Resume, Goto,
           GotoExplore, clientVars
      <4>4. CASE Pop(w) BY <1>0, <4>4 DEF Pop, Goto, GotoExplore, ecVars, clientVars
      <4> QED BY <2>2, <4>1, <4>2, <4>3, <4>4
    <3>2. ~NotificationPending BY <3>1 DEF NotificationPending
    <3>3. queue[q] # <<>>
      <4>1. CASE Explore(w)
        <5>1. PICK p \in Queues : StealFrom(w, p) \/ FailToSteal(w, p)
          BY <4>1 DEF Explore, IInv, TypeOK
        <5> QED BY <1>0, <5>1 DEF StealFrom, FailToSteal
      <4>2. CASE Pop(w) BY <1>0, <4>2 DEF Pop
      <4>3. CASE \/ Prepare(w) \/ Check(w) \/ CheckDone(w) \/ Cancel(w) \/ Commit(w) \/ Wake(w)
        BY <4>3 DEF Prepare, Check, CheckDone, Cancel, Commit, Wake
      <4> QED BY <2>2, <4>1, <4>2, <4>3
    <3>4. opc = "using" /\ ~done[w] /\ pc[w] \notin {"quit", "exited"} BY <3>3, QueuedMeansOpen
    <3>5. CASE \E v \in Workers \ {w} : Executing(v) \/ WillLook(v, q)
      BY <3>1, <3>5 DEF Executing, WillLook
    <3>6. CASE ~\E v \in Workers \ {w} : Executing(v) \/ WillLook(v, q)
      <4>1. Executing(w) \/ WillLook(w, q) \/ signals > 0 BY <1>1, <3>2, <3>3, <3>6
      <4>2. CASE Explore(w)
        <5>1. pc'[w] \in {"invoke", "prepare", "explore"}
          BY <1>0, <3>4, <4>2 DEF Explore, StealFrom, FailToSteal, Goto
        <5> QED BY <5>1 DEF Executing, WillLook
      <4>3. CASE Prepare(w)
        <5>1. q # w BY <3>3, <4>3 DEF Prepare, IInv, OwnQueueEmptyWhileWaiting, Executing
        <5>2. PositionOf(q) >= 0 BY SchedulerAssumption DEF PositionOf, Queues
        <5> QED BY <1>0, <4>3, <5>1, <5>2 DEF Prepare, Goto, WillLook
      <4>4. CASE Check(w)
        <5>1. CASE signals > 0 BY <4>4, <5>1 DEF Check, ecVars
        <5>2. CASE Executing(w) \/ WillLook(w, q)
          <6>1. q # w /\ PositionOf(q) >= chk[w] BY <4>4, <5>2 DEF Check, Executing, WillLook
          <6>2. QueueAt(PositionOf(q)) = q BY SchedulerAssumption DEF QueueAt, PositionOf, Queues
          <6>3. PositionOf(q) # chk[w] \/ pc'[w] = "cancel"
            BY <1>0, <3>3, <4>4, <6>1, <6>2 DEF Check, Goto
          <6>4. PositionOf(q) \in Int BY SchedulerAssumption DEF PositionOf, Queues
          <6>5. \/ pc'[w] = "cancel"
                \/ pc'[w] = "check" /\ chk'[w] = chk[w] + 1 BY <1>0, <4>4 DEF Check, Goto
          <6> QED BY <1>0, <6>1, <6>3, <6>4, <6>5 DEF WillLook
        <5> QED BY <4>1, <5>1, <5>2
      <4>5. CASE CheckDone(w)
        <5>1. PositionOf(q) < NumWorkers + NumBuckets BY SchedulerAssumption DEF PositionOf, Queues
        <5>2. PositionOf(q) \in Int /\ NumWorkers + NumBuckets \in Int
          BY SchedulerAssumption DEF PositionOf, Queues
        <5>3. ~(Executing(w) \/ WillLook(w, q))
          BY <4>5, <5>1, <5>2 DEF CheckDone, Executing, WillLook
        <5> QED BY <4>1, <4>5, <5>3 DEF CheckDone, ecVars
      <4>6. CASE Cancel(w) \/ Wake(w)
        <5>1. pc'[w] = "explore" BY <1>0, <3>4, <4>6 DEF Cancel, Wake, Goto, GotoExplore
        <5> QED BY <5>1 DEF WillLook
      <4>7. CASE Commit(w)
        <5>1. signals > 0 BY <4>1, <4>7 DEF Commit, Executing, WillLook
        <5>2. pc'[w] = "explore" BY <1>0, <4>7, <5>1 DEF Commit, Goto, GotoExplore
        <5> QED BY <5>2 DEF WillLook
      <4>8. CASE Pop(w)
        <5>1. pc'[w] \in {"invoke", "explore"} BY <1>0, <4>8 DEF Pop, Goto, GotoExplore
        <5> QED BY <5>1 DEF Executing, WillLook
      <4> QED BY <2>2, <4>2, <4>3, <4>4, <4>5, <4>6, <4>7, <4>8
    <3> QED BY <3>5, <3>6
  <2> QED BY <1>2, <2>1, <2>2 DEF WorkerStep
<1>3. ASSUME NEW c \in Client, Submit(c) PROVE Found BY <1>0, <1>3 DEF Submit, NotificationPending
<1>4. ASSUME NEW c \in Client, ClientPush(c) PROVE Found
  BY <1>0, <1>4 DEF ClientPush, NotificationPending
<1>5. ASSUME NEW c \in Client, ClientNotify(c) \/ ClientNotifyAll(c) PROVE Found
  <2>1. opc = "using" BY <1>5 DEF ClientNotify, ClientNotifyAll, IInv, ClosedWhenStopping
  <2> QED BY <1>5, <2>1, NotifyReaches DEF ClientNotify, ClientNotifyAll, workerVars
<1>6. CASE Shutdown \/ WaitForAll \/ Terminated \/ UNCHANGED vars
  <2>1. UNCHANGED <<queue, pc, chk, cpc>>
    BY <1>6 DEF Shutdown, SetDone, ShutdownNotify, Join, WaitForAll, Terminated, vars,
       workerVars, clientVars
  <2>2. opc = "using" BY <2>1, QueuedMeansOpen
  <2>3. UNCHANGED <<phase, signals>>
    BY <1>6, <2>2 DEF Shutdown, SetDone, ShutdownNotify, Join, WaitForAll, Terminated, vars, ecVars
  <2> QED BY <1>1, <2>1, <2>3 DEF NotificationPending, Executing, WillLook
<1> QED BY <1>2, <1>3, <1>4, <1>5, <1>6 DEF Next, ClientStep

----------------------------------------------------------------------------
(* The theorems *)

\* The inductive invariant holds initially.
LEMMA InvInit == Init => IInv
<1> SUFFICES ASSUME Init PROVE IInv OBVIOUS
<1>1. TypeOK /\ SignalsBounded BY TypeInit, ECInitInv DEF Init, ECInv
<1>2. /\ \A w \in Workers : pc[w] = "explore" /\ task[w] = NoTask /\ ~done[w]
      /\ \A w \in Workers : phase[w] = "out"
      /\ \A q \in Queues : queue[q] = <<>>
      /\ \A c \in Client : cpc[c] = "idle" /\ batch[c] = {} BY SetsOfIds DEF Init, ECInit
<1>3. WaitProtocol /\ ClosedWhenStopping /\ finished \subseteq created
  BY <1>2 DEF Init, WaitProtocol, ClosedWhenStopping
<1>4. InOnePlace BY <1>2 DEF InOnePlace, QueuedOnce, HeldOnce, BatchedOnce
<1>5. OwnQueueEmptyWhileWaiting /\ NoLostWakeup
  BY <1>2, SetsOfIds DEF OwnQueueEmptyWhileWaiting, NoLostWakeup
<1> QED BY <1>1, <1>3, <1>4, <1>5 DEF IInv

\* The inductive invariant is preserved by every step.
LEMMA InvNext == IInv /\ [Next]_vars => IInv'
<1> SUFFICES ASSUME IInv, [Next]_vars PROVE IInv' OBVIOUS
<1>1. TypeOK' BY TypeNext DEF IInv
<1>2. SignalsBounded' BY StepOfEventCount, ECNextInv DEF IInv, TypeOK, ECInv
<1> QED BY <1>1, <1>2, ProtocolNext, ClosedNext, OnePlaceNext, OwnQueueNext, WakeupNext DEF IInv

\* The inductive invariant holds in every reachable state.
LEMMA InvAlways == Spec => []IInv
BY InvInit, InvNext, PTL DEF Spec

\* The scheduler's variables keep their types.
THEOREM TypeCorrect == Spec => []TypeOK
<1>1. IInv => TypeOK BY DEF IInv
<1> QED BY InvAlways, <1>1, PTL

\* No wake-up is lost: a queued task whose notification was issued is on some
\* worker's way.  This is the argument for the two-phase wait of _wait_for_task.
THEOREM NoLostWakeupAlways == Spec => []NoLostWakeup
<1>1. IInv => NoLostWakeup BY DEF IInv
<1> QED BY InvAlways, <1>1, PTL

\* No task is in two places, and none that is queued or held is finished.
THEOREM InOnePlaceAlways == Spec => []InOnePlace
<1>1. IInv => InOnePlace BY DEF IInv
<1> QED BY InvAlways, <1>1, PTL

\* The shortcut of _wait_for_task, which skips the worker's own queue, is sound.
THEOREM OwnQueueEmptyAlways == Spec => []OwnQueueEmptyWhileWaiting
<1>1. IInv => OwnQueueEmptyWhileWaiting BY DEF IInv
<1> QED BY InvAlways, <1>1, PTL

\* A worker that left its loop left nothing behind.
THEOREM CleanExitAlways == Spec => []CleanExit
<1>1. IInv => CleanExit
  <2> SUFFICES ASSUME IInv, NEW w \in Workers, pc[w] = "exited"
               PROVE  created = finished /\ \A q \in Queues : queue[q] = <<>> BY DEF CleanExit
  <2>1. opc # "using" BY DEF IInv, ClosedWhenStopping
  <2> QED BY <2>1, QueuedMeansOpen DEF IInv, ClosedWhenStopping
<1> QED BY InvAlways, <1>1, PTL
=============================================================================
