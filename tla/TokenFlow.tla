----------------------------- MODULE TokenFlow -----------------------------
(***************************************************************************)
(* What a pipeline promises its callables (algorithm/pipeline.h): a token  *)
(* goes through all pipes, in order and each once; a serial pipe admits    *)
(* the tokens one at a time and in order; and a token starts only when the *)
(* token numLines before it has left the last pipe.  Pipeline refines it.  *)
(***************************************************************************)
EXTENDS Naturals

CONSTANTS
    MaxLines,   \* the largest number of lines
    NumPipes,   \* the pipes of a line
    Token,      \* the numbers tokens may get
    SERIAL, PARALLEL

VARIABLES
    numLines,   \* the lines, a bound on the tokens in flight
    meta,       \* the type of each pipe
    passed,     \* how many pipes a token has left
    inside      \* tokens in a pipe's callable

tokenVars == <<numLines, meta, passed, inside>>

Pipes == 0 .. NumPipes - 1

TokenInit ==
    /\ numLines \in 1 .. MaxLines
    /\ meta \in {m \in [Pipes -> {SERIAL, PARALLEL}] : m[0] = SERIAL}
    /\ passed = [t \in Token |-> 0]
    /\ inside = {}

(* The callable of the next pipe is called for a token. *)
Enter(t) ==
    /\ t \notin inside
    /\ passed[t] < NumPipes
    /\ passed[t] = 0 => \A u \in Token : u + numLines <= t => passed[u] = NumPipes
    /\ meta[passed[t]] = SERIAL => \A u \in Token : u < t => passed[u] > passed[t]
    /\ inside' = inside \cup {t}
    /\ UNCHANGED <<numLines, meta, passed>>

(* The callable returns. *)
Leave(t) ==
    /\ t \in inside
    /\ passed' = [passed EXCEPT ![t] = @ + 1]
    /\ inside' = inside \ {t}
    /\ UNCHANGED <<numLines, meta>>

(* The callable throws, or stops the pipeline: the token gets no further. *)
Withdraw(t) ==
    /\ t \in inside
    /\ inside' = inside \ {t}
    /\ UNCHANGED <<numLines, meta, passed>>

(* Between two runs, the numbers start from zero again. *)
StartOver ==
    /\ inside = {}
    /\ passed' = [t \in Token |-> 0]
    /\ numLines' \in 1 .. MaxLines
    /\ meta' \in {m \in [Pipes -> {SERIAL, PARALLEL}] : m[0] = SERIAL}
    /\ UNCHANGED inside

TokenNext ==
    \/ \E t \in Token : Enter(t) \/ Leave(t) \/ Withdraw(t)
    \/ StartOver

TokenSpec == TokenInit /\ [][TokenNext]_tokenVars
=============================================================================
