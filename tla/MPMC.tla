-------------------------------- MODULE MPMC --------------------------------
(***************************************************************************)
(* The bounded queue for several producers and consumers of                *)
(* utility/mpmc.h.  Positions are handed out by two counters; the sequence *)
(* number of a cell says whose turn it is: position p's producer, then     *)
(* p's consumer (p + 1), then the producer of the next round (p + Size).   *)
(* Both sides are the same code up to that number, in the class and in its *)
(* specialisation for pointers.  A step is one access to shared memory.    *)
(***************************************************************************)
EXTENDS Integers, Sequences

CONSTANTS
    Producers, Consumers,
    Data,
    Size,           \* BufferSize
    Spinning,       \* the producers that call enqueue, not try_enqueue
    MaxPos          \* bound on the positions handed out

MPMCAssumption ==
    /\ Data # {}
    /\ Size \in Nat \ {0, 1}
    /\ Producers \cap Consumers = {}
    /\ Spinning \subseteq Producers

VARIABLES
    count,      \* _enqueue_pos and _dequeue_pos
    cells,      \* _buffer
    mpc,        \* where each thread is
    pos,        \* its copy of the counter
    data,       \* what it enqueues or has dequeued
    sent        \* the item that was enqueued at each position

mpmcVars == <<count, cells, mpc, pos, data, sent>>

Side(t) == IF t \in Producers THEN "enqueue" ELSE "dequeue"
Turn(t) == IF t \in Producers THEN pos[t] ELSE pos[t] + 1
Cell(t) == pos[t] % Size
Users == Producers \cup Consumers

Init ==
    /\ count = [enqueue |-> 0, dequeue |-> 0]
    /\ cells = [i \in 0 .. Size - 1 |-> [sequence |-> i, data |-> CHOOSE x \in Data : TRUE]]
    /\ mpc = [t \in Users |-> "idle"]
    /\ pos = [t \in Users |-> 0]
    /\ data \in [Users -> {CHOOSE x \in Data : TRUE}]
    /\ sent = <<>>

Goto(t, l) == mpc' = [mpc EXCEPT ![t] = l]
LoadCounter(t) == pos' = [pos EXCEPT ![t] = count[Side(t)]]

Call(t) ==
    /\ mpc[t] = "idle"
    /\ t \in Producers => count.enqueue < MaxPos
    /\ LoadCounter(t) /\ Goto(t, "look")
    /\ \E x \in Data : data' = [data EXCEPT ![t] = IF t \in Producers THEN x ELSE @]
    /\ UNCHANGED <<count, cells, sent>>

Look(t) ==
    /\ mpc[t] = "look"
    /\ LET seq == cells[Cell(t)].sequence
       IN  Goto(t, CASE seq = Turn(t) -> "claim"
                     [] seq < Turn(t) /\ t \notin Spinning -> "idle"     \* full, or empty
                     [] OTHER -> "reload")
    /\ UNCHANGED <<count, cells, pos, data, sent>>

Reload(t) ==
    /\ mpc[t] = "reload"
    /\ LoadCounter(t) /\ Goto(t, "look")
    /\ UNCHANGED <<count, cells, data, sent>>

\* A faulty Claimed: the counter is stored, not exchanged.
ClaimedAnyway(t) == TRUE

\* compare_exchange_weak, which may fail for no reason.
Claimed(t) == count[Side(t)] = pos[t]

Claim(t) ==
    /\ mpc[t] = "claim"
    /\ \/ /\ Claimed(t)
          /\ count' = [count EXCEPT ![Side(t)] = pos[t] + 1]
          /\ sent' = IF t \in Producers THEN Append(sent, data[t]) ELSE sent
          /\ Goto(t, "move")
          /\ UNCHANGED pos
       \/ /\ LoadCounter(t) /\ Goto(t, "look")
          /\ UNCHANGED <<count, sent>>
    /\ UNCHANGED <<cells, data>>

Move(t) ==
    /\ mpc[t] = "move" /\ Goto(t, "publish")
    /\ IF t \in Producers
       THEN cells' = [cells EXCEPT ![Cell(t)].data = data[t]] /\ UNCHANGED data
       ELSE data' = [data EXCEPT ![t] = cells[Cell(t)].data] /\ UNCHANGED cells
    /\ UNCHANGED <<count, pos, sent>>

Release(t) == IF t \in Producers THEN pos[t] + 1 ELSE pos[t] + Size

Publish(t) ==
    /\ mpc[t] = "publish" /\ Goto(t, "idle")
    /\ cells' = [cells EXCEPT ![Cell(t)].sequence = Release(t)]
    /\ UNCHANGED <<count, pos, data, sent>>

Next == \E t \in Users : Call(t) \/ Look(t) \/ Reload(t) \/ Claim(t) \/ Move(t) \/ Publish(t)
Spec == Init /\ [][Next]_mpmcVars

-----------------------------------------------------------------------------
Working(t) == mpc[t] \in {"move", "publish"}

\* Items leave in the order of the positions at which they came, each once:
\* no two threads work on one cell, no more than Size positions
\* are in use, nobody is ahead of the producers, and a consumer has the item
\* that was enqueued at its position, although others are slow to store or to
\* read theirs.
FifoExact ==
    /\ \A s, t \in Users : s # t /\ Working(s) /\ Working(t) => Cell(s) # Cell(t)
    /\ count.dequeue <= count.enqueue /\ count.enqueue <= count.dequeue + Size
    /\ Len(sent) = count.enqueue
    /\ \A t \in Consumers : mpc[t] = "publish" => data[t] = sent[pos[t] + 1]
=============================================================================
