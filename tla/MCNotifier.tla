----------------------------- MODULE MCNotifier ------------------------------
(* Small instances of the three notifiers for TLC: which one is checked is     *)
(* chosen in the initial state.                                                *)
EXTENDS NonblockingNotifierV2, TLC

CONSTANTS
    EpochSize, MaxWaits,        \* of NonblockingNotifierV1
    MaxWork                     \* of AtomicNotifier

VARIABLES
    kind,                       \* the notifier that is checked
    work, made, eligible        \* variables of AtomicNotifier only

mcVars == <<kind, state, next, epoch, wstate, pc, seen, below, all, cur, work, made, eligible>>

V1 == INSTANCE NonblockingNotifierV1
At == INSTANCE AtomicNotifier

ASSUME TicketAssumption == V1!NotifierAssumption

\* Notifications are counted only by the properties of the atomic notifier.
ASSUME WorkAssumption == At!WorkAssumed

MCInit ==
    \/ /\ kind = "v2" /\ Init
       /\ work = 0 /\ made = 0 /\ eligible = <<>>
    \/ /\ kind = "v1" /\ V1!Init
       /\ work = 0 /\ made = 0 /\ eligible = <<>>
    \/ /\ kind = "atomic" /\ At!Init
       /\ next = <<>> /\ wstate = <<>> /\ below = <<>> /\ cur = <<>>

MCNext ==
    \/ kind = "v2" /\ Next /\ UNCHANGED <<kind, work, made, eligible>>
    \/ kind = "v1" /\ V1!Next /\ UNCHANGED <<kind, work, made, eligible>>
    \/ kind = "atomic" /\ At!Next /\ UNCHANGED <<kind, next, wstate, below, cur>>

MCSpec == MCInit /\ [][MCNext]_mcVars

Symmetry == Permutations(Waiters) \cup Permutations(Notifiers)

\* In every notifier the counters are those of the announced waiters.  The stack of
\* the nonblocking ones is of distinct sleepers, and one that is off it is signalled
\* or in the hands of one notifier (_commit_wait, _park, _notify, _unpark).  With
\* the atomic one nobody sleeps while there is more work than threads that are up
\* or notifications under way (notify_one, commit_wait).
NotifiersConsistent ==
    CASE kind = "v2" -> Consistent /\ SleeperHasOneWaker
      [] kind = "v1" -> V1!Consistent
      [] kind = "atomic" -> At!Consistent

\* Every behaviour of the second version is one of the atomic event count, which
\* signals announced waiters in any order, and every behaviour of the first is one
\* of the atomic ticket count, which serves them in theirs.
NotifiersImplement ==
    /\ kind = "v2" => EC!ECInit
    /\ kind = "v1" => V1!TC!TCInit
    /\ [][kind = "v2" => UNCHANGED EC!ecVars \/ EC!ECNext]_mcVars
    /\ [][kind = "v1" => UNCHANGED V1!TC!tcVars \/ V1!TC!TCNext]_mcVars
=============================================================================
