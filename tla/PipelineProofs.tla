--------------------------- MODULE PipelineProofs ----------------------------
(***************************************************************************)
(* For any number of workers, lines, pipes, tokens and runs: the pipeline  *)
(* scheduler keeps one carrier on a line, leaves no token in the middle of *)
(* its line, hands a pipe the data of its own token, and implements the    *)
(* flow of tokens.                                                         *)
(*                                                                         *)
(* The invariant says, for every token and pipe, what the token's cell     *)
(* still waits for; that a cell's counter is that number (at least that    *)
(* number in a run that was cancelled or threw); that a cell counted down  *)
(* to zero has a task queued or a worker on it; and that a serial pipe was *)
(* left by all earlier tokens before the next one is in it.                *)
(***************************************************************************)
EXTENDS Pipeline, WellFoundedInduction, NaturalsInduction, TLAPS

\* The line of a token, and the token and the pipe that a worker is at.
LineOf(t) == t % numLines
Tok(w) == flow[line[w]].token
At(w)  == flow[line[w]].pipe

\* What has been done with token t at pipe f: its cell was entered, the callable
\* returned (PassedBy), the next token and the next pipe were told.
Entered(t, f) ==
    \/ PassedBy(t) > f
    \/ \E w \in Worker : pc[w] = "work" /\ Tok(w) = t /\ At(w) = f
ToldDown(t, f) ==
    /\ PassedBy(t) > f
    /\ \A w \in Worker : pc[w] = "down" => ~(Tok(w) = t /\ left[w] = f)
ToldForward(t, f) ==
    /\ PassedBy(t) > f
    /\ \A w \in Worker : pc[w] \in {"down", "forward"} => ~(Tok(w) = t /\ left[w] = f)

\* The two things that the cell of token t at pipe f waits for.
Ahead(t, f) ==
    IF f = 0 THEN t < numLines \/ ToldForward(t - numLines, NumPipes - 1)
             ELSE ToldForward(t, f - 1)
Above(t, f) == meta[f] = SERIAL => t = 0 \/ ToldDown(t - 1, f)
Waits(t, f) == (IF Ahead(t, f) THEN 0 ELSE 1) + (IF Above(t, f) THEN 0 ELSE 1)

\* Nothing holds the cell of token t at pipe f back; and token t is the next one of its
\* cell, although it may have to wait.
Ready(t, f)  == ~Entered(t, f) /\ Ahead(t, f) /\ Above(t, f)
IsNext(t, f) == (t < numLines \/ Entered(t - numLines, f)) /\ ~Entered(t, f)

\* The lines in use; a line that is about to be worked on; a worker that freed the cell
\* of line l and is about to take it on or to queue it.
Lines == 0 .. numLines - 1
Heads(l) == scheduled[l] > 0 \/ \E w \in Worker : pc[w] = "cell" /\ line[w] = l
Frees(w, l) == pc[w] = "forward" /\ freed[w] /\ NextLine(line[w]) = l

\* Between two runs nobody works.
Resting == ~running => (\A l \in Line : scheduled[l] = 0) /\ \A w \in Worker : pc[w] = "idle"

\* A line stands at a token of its own, which is among the latest numLines ones; its
\* buffer has what the pipe before left.
LineOK(l) ==
    /\ l < numTokens => /\ LineOf(flow[l].token) = l
                        /\ numTokens - numLines <= flow[l].token
                        /\ flow[l].token <= numTokens
                        /\ flow[l].token = numTokens => flow[l].pipe = 0
    /\ l >= numTokens => flow[l].pipe = 0
    /\ flow[l].pipe > 0 => buffer[l] = [token |-> flow[l].token, pipe |-> flow[l].pipe - 1]

\* A worker in the line task carries the latest token of its line, whose cell it was free
\* to enter; and the cell that it freed is still ready.
WorkerOK(w) ==
    /\ pc[w] = "idle" <=> line[w] = NoLine
    /\ pc[w] # "idle" => line[w] \in Lines
    /\ pc[w] = "work" =>
         /\ Tok(w) <= numTokens /\ LineOf(Tok(w)) = line[w]
         /\ Tok(w) = numTokens <=> At(w) = 0
         /\ Ahead(Tok(w), At(w)) /\ Above(Tok(w), At(w))
    /\ pc[w] \in {"down", "forward"} =>
         /\ line[w] < numTokens /\ Tok(w) < numTokens
         /\ At(w) = (left[w] + 1) % NumPipes
    /\ freed[w] => pc[w] = "forward" /\ meta[left[w]] = SERIAL /\ Ready(Tok(w) + 1, left[w])

\* A line has one task queued, or one worker on it, or one that is about to hand it on.
Alone(l) ==
    /\ scheduled[l] <= 1 /\ (l \notin Lines => scheduled[l] = 0)
    /\ \A w \in Worker : line[w] = l \/ Frees(w, l) =>
         scheduled[l] = 0 /\ \A v \in Worker \ {w} : line[v] # l /\ ~Frees(v, l)

\* A line that is about to be worked on stands at a cell that is ready.
HeadOK(l) ==
    Heads(l) => IF flow[l].pipe = 0 THEN l = LineOf(numTokens) /\ Ready(numTokens, 0)
                ELSE l < numTokens /\ Ready(flow[l].token, flow[l].pipe)

\* A serial pipe was left by all earlier tokens.
InOrder(t, f) ==
    meta[f] = SERIAL /\ Entered(t, f) => \A u \in 0 .. t - 1 : ToldDown(u, f)

\* A counter is at least what the next token of the cell waits for.
CountOK(t, f) == IsNext(t, f) => counter[LineOf(t)][f] >= Waits(t, f)

\* In a run that was not disturbed it is just that, and a cell that is ready was answered:
\* its line is about to be worked on, or a worker is about to take it on.
Answered(t, f) ==
    \/ Heads(LineOf(t))
    \/ \E w \in Worker : Frees(w, LineOf(t)) /\ left[w] = f
CountExact(t, f) ==
    ~cancelled /\ f > 0 /\ IsNext(t, f) =>
        /\ counter[LineOf(t)][f] <= Waits(t, f)
        /\ Ready(t, f) => Answered(t, f)

Through == \A l \in Lines : LineOK(l)
Alones  == \A l \in Line : Alone(l) /\ (l \notin Lines => flow[l].pipe = 0)
HeadsOK == \A l \in Lines : HeadOK(l)
Workers == \A w \in Worker : WorkerOK(w)
Orders  == \A t \in Nat, f \in Pipe : InOrder(t, f)
Counts  == \A t \in Nat, f \in Pipe : CountOK(t, f)
Exacts  == \A t \in Nat, f \in Pipe : CountExact(t, f)

IInv == /\ TypeOK /\ Resting /\ Through /\ Alones /\ HeadsOK /\ Workers
        /\ Orders /\ Counts /\ Exacts /\ TokensThrough

-----------------------------------------------------------------------------
(* Arithmetic of lines.                                                      *)

\* Quotient and residue.
LEMMA Quotient ==
    ASSUME NEW c \in Nat \ {0}, NEW i \in Nat
    PROVE  \E q \in Nat, r \in 0 .. c - 1 : i = c * q + r /\ i % c = r
<1>1. i = c * (i \div c) + (i % c) /\ i \div c \in Nat /\ i % c \in 0 .. c - 1 BY SMT
<1> QED BY <1>1

\* A number below c that differs by a multiple of c is the residue.
LEMMA Residue ==
    ASSUME NEW c \in Nat \ {0}, NEW i \in Nat, NEW r \in 0 .. c - 1, NEW q \in Nat, i = c * q + r
    PROVE  i % c = r
<1>1. PICK p \in Nat, s \in 0 .. c - 1 : i = c * p + s /\ i % c = s BY Quotient
<1>2. c * (p - q) = r - s BY <1>1, SMT
<1>3. CASE p > q
  <2>1. c * (p - q) >= c BY <1>3, SMT
  <2> QED BY <1>2, <2>1
<1>4. CASE p < q
  <2>1. c * (p - q) <= -c BY <1>4, SMT
  <2> QED BY <1>2, <2>1
<1>5. CASE p = q BY <1>1, <1>5
<1> QED BY <1>3, <1>4, <1>5

\* Two numbers with the same residue are at least c apart.
LEMMA SameResidue ==
    ASSUME NEW c \in Nat \ {0}, NEW i \in Nat, NEW j \in Nat, i % c = j % c, i < j
    PROVE  i + c <= j
<1>1. PICK p \in Nat, r \in 0 .. c - 1 : i = c * p + r /\ i % c = r BY Quotient
<1>2. PICK q \in Nat, s \in 0 .. c - 1 : j = c * q + s /\ j % c = s BY Quotient
<1>3. j - i = c * (q - p) BY <1>1, <1>2, SMT
<1>4. q - p >= 1
  <2> SUFFICES ASSUME q - p <= 0 PROVE FALSE OBVIOUS
  <2>1. c * (q - p) <= 0 BY SMT
  <2> QED BY <1>3, <2>1
<1>5. c * (q - p) >= c BY <1>4, SMT
<1> QED BY <1>3, <1>5

\* The residues of a number, of the next one, and of the one c further on.
LEMMA ResidueFacts ==
    ASSUME NEW c \in Nat \ {0}, NEW i \in Nat
    PROVE  /\ i % c \in 0 .. c - 1 /\ i % c <= i
           /\ i < c => i % c = i
           /\ (i + c) % c = i % c
           /\ (i + 1) % c = ((i % c) + 1) % c
           /\ (i + 1) % c = IF i % c = c - 1 THEN 0 ELSE (i % c) + 1
<1>1. PICK p \in Nat, r \in 0 .. c - 1 : i = c * p + r /\ i % c = r BY Quotient
<1>2. r <= i
  <2>1. c * p >= 0 BY SMT
  <2> QED BY <1>1, <2>1
<1>3. ASSUME i < c PROVE i % c = i
  <2>1. i = c * 0 + i /\ i \in 0 .. c - 1 BY <1>3, SMT
  <2> QED BY <2>1, Residue
<1>4. (i + c) % c = r
  <2>1. i + c = c * (p + 1) + r BY <1>1, SMT
  <2>2. i + c \in Nat /\ p + 1 \in Nat OBVIOUS
  <2> QED BY <2>1, <2>2, Residue, Zenon
<1>5. ASSUME NEW j \in Nat, NEW q \in Nat, j = c * q + r
      PROVE  (j + 1) % c = IF r = c - 1 THEN 0 ELSE r + 1
  <2>1. CASE r = c - 1
    <3>1. j + 1 = c * (q + 1) + 0 BY <1>5, <2>1, SMT
    <3>2. j + 1 \in Nat /\ q + 1 \in Nat /\ 0 \in 0 .. c - 1 OBVIOUS
    <3>3. (j + 1) % c = 0 BY <3>1, <3>2, Residue, Zenon
    <3> QED BY <2>1, <3>3
  <2>2. CASE r # c - 1
    <3>1. j + 1 = c * q + (r + 1) /\ r + 1 \in 0 .. c - 1 BY <1>5, <2>2
    <3>2. j + 1 \in Nat OBVIOUS
    <3>3. (j + 1) % c = r + 1 BY <3>1, <3>2, Residue, Zenon
    <3> QED BY <2>2, <3>3
  <2> QED BY <2>1, <2>2
<1>6. r = c * 0 + r BY SMT
<1>7. /\ (i + 1) % c = IF r = c - 1 THEN 0 ELSE r + 1
      /\ (r + 1) % c = IF r = c - 1 THEN 0 ELSE r + 1 BY <1>1, <1>5, <1>6
<1> QED BY <1>1, <1>2, <1>3, <1>4, <1>7

\* A non-empty set of numbers has a least one.
LEMMA LeastNumber ==
    ASSUME NEW T \in SUBSET Nat, T # {}
    PROVE  \E t \in T : \A u \in T : t <= u
<1> DEFINE R == {ss \in Nat \X Nat : ss[1] < ss[2]}
<1>1. IsWellFoundedOn(R, Nat) BY NatLessThanWellFounded, Zenon DEF OpToRel
<1>2. PICK t \in T : \A u \in T : <<u, t>> \notin R
  <2> HIDE DEF R
  <2> QED BY <1>1, WFMin, Zenon
<1>3. ASSUME NEW u \in T PROVE t <= u
  <2>1. t \in Nat /\ u \in Nat OBVIOUS
  <2>2. ~(u < t) BY <1>2, <2>1
  <2> QED BY <2>1, <2>2
<1> QED BY <1>3

-----------------------------------------------------------------------------
(* What the invariant says of lines, workers and tokens.                     *)

\* The types, in the form in which the proofs use them.
LEMMA Basics ==
    ASSUME TypeOK
    PROVE  /\ numLines \in Nat \ {0} /\ numLines <= MaxLines /\ Lines \subseteq Line
           /\ numTokens \in Nat /\ NumPipes \in Nat \ {0} /\ MaxLines \in Nat \ {0}
           /\ \A l \in Line : flow[l].pipe \in Pipe /\ flow[l].token \in Nat /\ l \in Nat
           /\ \A w \in Worker : left[w] \in Pipe
           /\ \A f \in Pipe : f \in Nat /\ f < NumPipes /\ meta[f] \in {SERIAL, PARALLEL}
           /\ 0 \in Pipe /\ meta[0] = SERIAL
           /\ \A t \in Nat : LineOf(t) \in Lines
           /\ \A l \in Line, f \in Pipe : counter[l][f] \in Nat
<1>1. numLines \in Nat \ {0} /\ numLines <= MaxLines /\ numTokens \in Nat
      /\ NumPipes \in Nat \ {0} /\ MaxLines \in Nat \ {0} BY PipelineAssumption DEF TypeOK
<1>2. Lines \subseteq Line BY <1>1 DEF Lines, Line
<1>3. \A l \in Line : flow[l].pipe \in Pipe /\ flow[l].token \in Nat /\ l \in Nat
  BY PipelineAssumption DEF TypeOK, Line
<1>4. \A w \in Worker : left[w] \in Pipe BY DEF TypeOK
<1>5. meta \in [Pipe -> {SERIAL, PARALLEL}] /\ meta[0] = SERIAL BY DEF TypeOK, Metas
<1>6. 0 \in Pipe /\ \A f \in Pipe : f \in Nat /\ f < NumPipes /\ meta[f] \in {SERIAL, PARALLEL}
  BY <1>1, <1>5 DEF Pipe
<1>7. \A t \in Nat : LineOf(t) \in Lines BY <1>1, ResidueFacts DEF Lines, LineOf
<1>8. \A l \in Line, f \in Pipe : counter[l][f] \in Nat BY DEF TypeOK
<1> QED BY <1>1, <1>2, <1>3, <1>4, <1>5, <1>6, <1>7, <1>8

\* The lines of tokens.
LEMMA LineFacts ==
    ASSUME TypeOK
    PROVE  \A t \in Nat :
             /\ LineOf(t) \in Lines /\ LineOf(t) <= t
             /\ t < numLines => LineOf(t) = t
             /\ LineOf(t + numLines) = LineOf(t)
             /\ NextLine(LineOf(t)) = LineOf(t + 1)
             /\ \A u \in Nat : LineOf(t) = LineOf(u) /\ t < u => t + numLines <= u
<1>1. numLines \in Nat \ {0} BY Basics
<1>2. ASSUME NEW t \in Nat
      PROVE  /\ LineOf(t) \in Lines /\ LineOf(t) <= t
             /\ t < numLines => LineOf(t) = t
             /\ LineOf(t + numLines) = LineOf(t)
             /\ NextLine(LineOf(t)) = LineOf(t + 1)
  BY <1>1, ResidueFacts DEF Lines, NextLine, LineOf
<1>3. \A t, u \in Nat : LineOf(t) = LineOf(u) /\ t < u => t + numLines <= u
  BY <1>1, SameResidue DEF LineOf
<1> QED BY <1>2, <1>3

\* The line below, the first one after the last; two lines have different ones.
LEMMA NextLineFacts ==
    ASSUME TypeOK, NEW k \in Lines
    PROVE  NextLine(k) \in Lines /\ \A l \in Lines : NextLine(k) = NextLine(l) => k = l
<1>1. numLines \in Nat \ {0} BY Basics
<1>2. \A l \in Lines : NextLine(l) = IF l = numLines - 1 THEN 0 ELSE l + 1
  <2> TAKE l \in Lines
  <2>1. l \in Nat /\ l < numLines BY <1>1 DEF Lines
  <2>2. l % numLines = l BY <1>1, <2>1, ResidueFacts
  <2> QED BY <1>1, <2>1, <2>2, ResidueFacts DEF NextLine
<1> QED BY <1>1, <1>2 DEF Lines

\* The next pipe, the first one after the last.
LEMMA NextPipe ==
    ASSUME TypeOK, NEW f \in Pipe
    PROVE  (f + 1) % NumPipes \in Pipe
           /\ (f + 1) % NumPipes = IF f = NumPipes - 1 THEN 0 ELSE f + 1
<1>1. NumPipes \in Nat \ {0} /\ f \in Nat /\ f < NumPipes BY Basics
<1>2. f % NumPipes = f BY <1>1, ResidueFacts
<1>3. (f + 1) % NumPipes = IF f = NumPipes - 1 THEN 0 ELSE f + 1 BY <1>1, <1>2, ResidueFacts
<1> QED BY <1>1, <1>3 DEF Pipe

\* How far the tokens came, and where the lines stand.
LEMMA PassedFacts ==
    ASSUME TypeOK, Through
    PROVE  /\ \A t \in Nat :
                /\ PassedBy(t) \in 0 .. NumPipes
                /\ t >= numTokens <=> PassedBy(t) = 0
                /\ t + numLines < numTokens => PassedBy(t) = NumPipes
                /\ 0 < PassedBy(t) /\ PassedBy(t) < NumPipes =>
                     flow[LineOf(t)].token = t /\ flow[LineOf(t)].pipe = PassedBy(t)
                /\ t < numTokens /\ flow[LineOf(t)].token # t => PassedBy(t) = NumPipes
                /\ t < numTokens /\ flow[LineOf(t)].pipe = 0 => PassedBy(t) = NumPipes
           /\ \A l \in Lines :
                /\ flow[l].pipe > 0 =>
                     /\ l < numTokens /\ flow[l].token < numTokens
                     /\ LineOf(flow[l].token) = l
                     /\ PassedBy(flow[l].token) = flow[l].pipe
                /\ l < numTokens => LineOf(flow[l].token) = l
                     /\ numTokens <= flow[l].token + numLines /\ flow[l].token <= numTokens
<1>1. \A l \in Lines : flow[l].pipe \in 0 .. NumPipes - 1 /\ flow[l].token \in Nat
                       /\ l \in Nat /\ l < numLines
  <2> TAKE l \in Lines
  <2>1. l \in Line /\ numLines \in Nat \ {0} BY Basics
  <2>2. flow[l].pipe \in Pipe /\ flow[l].token \in Nat BY <2>1, Basics
  <2> QED BY <2>1, <2>2 DEF Pipe, Lines
<1>2. numTokens \in Nat /\ numLines \in Nat \ {0} /\ NumPipes \in Nat \ {0} BY Basics
<1>3. \A l \in Lines : LineOK(l) BY DEF Through
<1>4. ASSUME NEW t \in Nat, t + numLines < numTokens PROVE flow[LineOf(t)].token # t
  <2>1. LineOf(t) \in Lines /\ LineOf(t) <= t BY LineFacts
  <2>2. LineOf(t) < numTokens /\ LineOK(LineOf(t)) /\ flow[LineOf(t)].token \in Nat
    BY <1>1, <1>2, <1>3, <1>4, <2>1 DEF Lines
  <2>3. numTokens - numLines <= flow[LineOf(t)].token BY <2>2 DEF LineOK
  <2> QED BY <1>2, <1>4, <2>2, <2>3
<1>5. ASSUME NEW t \in Nat
      PROVE  /\ PassedBy(t) \in 0 .. NumPipes
             /\ t >= numTokens <=> PassedBy(t) = 0
             /\ t + numLines < numTokens => PassedBy(t) = NumPipes
             /\ 0 < PassedBy(t) /\ PassedBy(t) < NumPipes =>
                  flow[LineOf(t)].token = t /\ flow[LineOf(t)].pipe = PassedBy(t)
             /\ t < numTokens /\ flow[LineOf(t)].token # t => PassedBy(t) = NumPipes
             /\ t < numTokens /\ flow[LineOf(t)].pipe = 0 => PassedBy(t) = NumPipes
  <2>1. flow[LineOf(t)].pipe \in 0 .. NumPipes - 1 BY <1>1, LineFacts
  <2> QED BY <1>2, <1>4, <2>1 DEF PassedBy, LineOf
<1>6. ASSUME NEW l \in Lines
      PROVE  /\ flow[l].pipe > 0 =>
                  /\ l < numTokens /\ flow[l].token < numTokens
                  /\ LineOf(flow[l].token) = l
                  /\ PassedBy(flow[l].token) = flow[l].pipe
             /\ l < numTokens => LineOf(flow[l].token) = l
                  /\ numTokens <= flow[l].token + numLines /\ flow[l].token <= numTokens
  <2>1. LineOK(l) /\ flow[l].pipe \in 0 .. NumPipes - 1 /\ flow[l].token \in Nat /\ l \in Nat
    BY <1>1, <1>3
  <2> QED BY <1>2, <2>1 DEF LineOK, PassedBy, LineOf
<1> QED BY <1>5, <1>6

Carries(w, t) == pc[w] \in {"work", "down", "forward"} /\ Tok(w) = t

\* The token that a worker carries is the one that its line stands at.
LEMMA CarriedFacts ==
    ASSUME IInv, NEW w \in Worker, pc[w] \in {"work", "down", "forward"}
    PROVE  /\ line[w] \in Lines /\ Tok(w) \in Nat /\ LineOf(Tok(w)) = line[w]
           /\ Tok(w) <= numTokens /\ numTokens <= Tok(w) + numLines
           /\ At(w) \in Pipe /\ Tok(w) \in Token
           /\ pc[w] = "work" => PassedBy(Tok(w)) = At(w)
           /\ pc[w] # "work" => /\ Tok(w) < numTokens /\ left[w] \in Pipe
                                /\ PassedBy(Tok(w)) = left[w] + 1
<1>1. line[w] \in Lines /\ WorkerOK(w) /\ LineOK(line[w]) BY DEF IInv, Workers, WorkerOK, Through
<1>2. line[w] \in Line /\ numLines \in Nat \ {0} /\ numTokens \in Nat /\ NumPipes \in Nat \ {0}
  BY <1>1, Basics DEF IInv
<1>3. flow[line[w]].pipe \in Pipe /\ flow[line[w]].token \in Nat /\ left[w] \in Pipe
      /\ flow[line[w]].token \in Token BY <1>2, Basics DEF IInv, TypeOK, Token
<1>4. CASE pc[w] = "work"
  <2>1. Tok(w) <= numTokens /\ LineOf(Tok(w)) = line[w] /\ (Tok(w) = numTokens <=> At(w) = 0)
    BY <1>1, <1>4 DEF WorkerOK
  <2>2. numTokens <= Tok(w) + numLines /\ PassedBy(Tok(w)) = At(w)
    BY <1>1, <1>2, <1>3, <2>1, PassedFacts DEF IInv, Tok, At, Pipe
  <2> QED BY <1>1, <1>3, <1>4, <2>1, <2>2 DEF Tok, At
<1>5. CASE pc[w] # "work"
  <2>1. line[w] < numTokens /\ Tok(w) < numTokens /\ At(w) = (left[w] + 1) % NumPipes
    BY <1>1, <1>5 DEF WorkerOK
  <2>2. LineOf(Tok(w)) = line[w] /\ numTokens <= Tok(w) + numLines
    BY <1>1, <2>1, PassedFacts DEF IInv, Tok
  <2>3. PassedBy(Tok(w)) = left[w] + 1
    <3>1. At(w) = IF left[w] = NumPipes - 1 THEN 0 ELSE left[w] + 1 BY <1>3, <2>1, NextPipe DEF IInv
    <3> QED BY <1>2, <1>3, <2>1, <2>2, <3>1 DEF PassedBy, LineOf, Tok, At, Pipe
  <2> QED BY <1>1, <1>2, <1>3, <1>5, <2>1, <2>2, <2>3 DEF Tok, At
<1> QED BY <1>4, <1>5

\* A worker in the line task is alone on its line, in a run.
LEMMA AloneFacts ==
    ASSUME IInv, NEW w \in Worker, pc[w] # "idle"
    PROVE  /\ line[w] \in Lines /\ scheduled[line[w]] = 0
           /\ \A v \in Worker \ {w} : line[v] # line[w] /\ ~Frees(v, line[w])
           /\ \A v \in Worker \ {w} : Carries(v, Tok(v)) => LineOf(Tok(v)) # line[w]
           /\ running
<1>1. line[w] \in Lines /\ line[w] \in Line BY Basics DEF IInv, Workers, WorkerOK
<1>2. scheduled[line[w]] = 0 /\ \A v \in Worker \ {w} : line[v] # line[w] /\ ~Frees(v, line[w])
  BY <1>1 DEF IInv, Alones, Alone
<1>3. running BY DEF IInv, Resting
<1>4. ASSUME NEW v \in Worker \ {w}, Carries(v, Tok(v)) PROVE LineOf(Tok(v)) # line[w]
  <2>1. LineOf(Tok(v)) = line[v] BY <1>4, CarriedFacts DEF Carries
  <2> QED BY <1>2, <2>1
<1> QED BY <1>1, <1>2, <1>3, <1>4

\* The order of what is done with a token at a pipe, and of tokens on a line.
LEMMA EnteredFacts ==
    ASSUME IInv, NEW t \in Nat, NEW f \in Pipe
    PROVE  /\ ToldForward(t, f) => ToldDown(t, f)
           /\ ToldDown(t, f) => PassedBy(t) > f
           /\ PassedBy(t) > f => Entered(t, f)
           /\ Entered(t, f) => t <= numTokens /\ PassedBy(t) >= f
           /\ Entered(t, f) /\ t = numTokens => f = 0
           /\ Entered(t, f) => \A u \in Nat : u + numLines <= t => PassedBy(u) = NumPipes
<1>1. numTokens \in Nat /\ f \in Nat /\ PassedBy(t) \in Nat /\ (t >= numTokens => PassedBy(t) = 0)
      /\ NumPipes \in Nat /\ numLines \in Nat \ {0}
  <2>1. TypeOK /\ Through BY DEF IInv
  <2>2. numTokens \in Nat /\ f \in Nat /\ NumPipes \in Nat /\ numLines \in Nat \ {0} BY <2>1, Basics
  <2>3. PassedBy(t) \in 0 .. NumPipes /\ (t >= numTokens => PassedBy(t) = 0) BY <2>1, PassedFacts
  <2> QED BY <2>2, <2>3
<1>2. ASSUME Entered(t, f)
      PROVE  t <= numTokens /\ PassedBy(t) >= f /\ (t = numTokens => f = 0)
             /\ (t = numTokens => flow[LineOf(t)].token = t)
  <2>1. CASE PassedBy(t) > f BY <1>1, <2>1
  <2>2. ASSUME NEW w \in Worker, pc[w] = "work" /\ Tok(w) = t /\ At(w) = f
        PROVE  t <= numTokens /\ PassedBy(t) >= f /\ (t = numTokens => f = 0)
               /\ flow[LineOf(t)].token = t
    <3>1. Tok(w) = numTokens <=> At(w) = 0 BY <2>2 DEF IInv, Workers, WorkerOK
    <3>2. t <= numTokens /\ PassedBy(t) = f /\ line[w] = LineOf(t) BY <2>2, CarriedFacts
    <3> QED BY <1>1, <2>2, <3>1, <3>2 DEF Tok
  <2> QED BY <1>2, <2>1, <2>2 DEF Entered
<1>3. ASSUME Entered(t, f), NEW u \in Nat, u + numLines <= t PROVE PassedBy(u) = NumPipes
  <2>1. CASE u + numLines < numTokens BY <2>1, PassedFacts DEF IInv
  <2>2. CASE u + numLines >= numTokens
    <3>1. u + numLines = t /\ t = numTokens /\ u < numTokens /\ u # t BY <1>1, <1>2, <1>3, <2>2
    <3>2. LineOf(u) = LineOf(t) BY <3>1, LineFacts DEF IInv
    <3> QED BY <1>2, <1>3, <3>1, <3>2, PassedFacts DEF IInv
  <2> QED BY <1>1, <2>1, <2>2
<1> QED BY <1>1, <1>2, <1>3 DEF ToldForward, ToldDown, Entered

\* A token that is next in a pipe after its previous cell is alone on its line, and
\* its line stands at that pipe.
LEMMA NobodyThere ==
    ASSUME IInv, NEW t \in Nat, NEW g \in Pipe, ~Entered(t, g), Ahead(t, g), g = 0 => t <= numTokens
    PROVE  /\ \A v \in Worker : pc[v] \in {"work", "down", "forward"} => line[v] # LineOf(t)
           /\ flow[LineOf(t)].pipe = g
           /\ g = 0 => t = numTokens
           /\ g > 0 => t < numTokens /\ flow[LineOf(t)].token = t
<1>1. TypeOK /\ Through BY DEF IInv
<1>2. /\ numTokens \in Nat /\ numLines \in Nat \ {0} /\ NumPipes \in Nat \ {0}
      /\ g \in Nat /\ g < NumPipes /\ g \in 0 .. NumPipes - 1 BY <1>1, Basics DEF Pipe
<1>3. PassedBy(t) \in Nat /\ PassedBy(t) <= g /\ (t >= numTokens <=> PassedBy(t) = 0)
  <2>1. PassedBy(t) \in 0 .. NumPipes /\ (t >= numTokens <=> PassedBy(t) = 0) BY <1>1, PassedFacts
  <2> QED BY <1>2, <2>1 DEF Entered
<1>4. CASE g > 0
  <2>1. ToldForward(t, g - 1) BY <1>4 DEF Ahead
  <2>2. PassedBy(t) = g BY <1>2, <1>3, <2>1 DEF ToldForward
  <2>3. flow[LineOf(t)].token = t /\ flow[LineOf(t)].pipe = g BY <1>1, <1>2, <1>4, <2>2, PassedFacts
  <2>4. ASSUME NEW v \in Worker, pc[v] \in {"work", "down", "forward"}, line[v] = LineOf(t)
        PROVE  FALSE
    <3>1. Tok(v) = t BY <2>3, <2>4 DEF Tok
    <3>2. CASE pc[v] = "work"
      <4>1. At(v) = g BY <2>3, <2>4 DEF At
      <4> QED BY <3>1, <3>2, <4>1 DEF Entered
    <3>3. CASE pc[v] # "work"
      <4>1. left[v] \in Nat /\ g = left[v] + 1
        BY <1>2, <2>2, <2>4, <3>1, <3>3, CarriedFacts DEF Pipe
      <4>2. left[v] = g - 1 BY <4>1
      <4> QED BY <2>1, <2>4, <3>1, <3>3, <4>2 DEF ToldForward
    <3> QED BY <3>2, <3>3
  <2> QED BY <1>2, <1>3, <1>4, <2>2, <2>3, <2>4
<1>5. CASE g = 0
  <2>1. t = numTokens /\ PassedBy(t) = 0 BY <1>2, <1>3, <1>5
  <2>2. PICK k \in Lines : k = LineOf(t) BY <1>1, LineFacts
  <2>3. k \in Line /\ k \in Nat /\ LineOK(k) /\ flow[k].pipe \in Pipe /\ flow[k].token \in Nat
        /\ k < numLines
    <3>1. k \in Line BY <1>1, Basics
    <3> QED BY <1>1, <1>2, <3>1, Basics DEF Through, Lines
  <2>4. ASSUME NEW v \in Worker, pc[v] \in {"work", "down", "forward"}, line[v] = k, Tok(v) = t
        PROVE  FALSE
    <3>1. pc[v] = "work" BY <1>2, <2>1, <2>4, CarriedFacts
    <3>2. At(v) = 0 BY <2>1, <2>4, <3>1 DEF IInv, Workers, WorkerOK
    <3> QED BY <1>5, <2>4, <3>1, <3>2 DEF Entered
  <2>5. CASE t < numLines
    <3>1. k = t BY <1>1, <2>2, <2>5, LineFacts
    <3>2. flow[k].pipe = 0 BY <2>1, <2>3, <3>1 DEF LineOK
    <3>3. ASSUME NEW v \in Worker, pc[v] \in {"work", "down", "forward"}, line[v] = k
          PROVE  FALSE
      <4>1. Tok(v) \in Nat /\ Tok(v) <= numTokens /\ LineOf(Tok(v)) = k BY <3>3, CarriedFacts
      <4>2. LineOf(Tok(v)) <= Tok(v) BY <1>1, <4>1, LineFacts
      <4>3. Tok(v) = t BY <2>1, <3>1, <4>1, <4>2
      <4> QED BY <2>4, <3>3, <4>3
    <3> QED BY <1>5, <2>1, <2>2, <3>2, <3>3
  <2>6. CASE ~(t < numLines)
    <3>1. PICK u \in Nat : u = t - numLines /\ u + numLines = t BY <1>2, <2>6
    <3>2. ToldForward(u, NumPipes - 1) BY <1>5, <2>6, <3>1 DEF Ahead
    <3>3. PassedBy(u) = NumPipes
      <4>1. PassedBy(u) \in 0 .. NumPipes BY <1>1, PassedFacts
      <4> QED BY <1>2, <3>2, <4>1 DEF ToldForward
    <3>4. LineOf(u) = k /\ k <= u BY <1>1, <2>2, <3>1, LineFacts
    <3>5. k < numTokens BY <1>2, <2>1, <2>3, <3>1, <3>4
    <3>6. \A s \in Nat : LineOf(s) = k /\ numTokens <= s + numLines /\ s <= numTokens => s = u \/ s = t
      <4> TAKE s \in Nat
      <4> HAVE LineOf(s) = k /\ numTokens <= s + numLines /\ s <= numTokens
      <4>1. u < s => u + numLines <= s BY <1>1, <3>4, LineFacts
      <4> QED BY <1>2, <2>1, <3>1, <4>1
    <3>7. flow[k].token = u \/ flow[k].token = t
      <4>1. LineOf(flow[k].token) = k /\ numTokens <= flow[k].token + numLines
            /\ flow[k].token <= numTokens BY <1>1, <3>5, PassedFacts
      <4> QED BY <2>3, <3>6, <4>1
    <3>8. flow[k].pipe = 0
      <4>1. CASE flow[k].token = t BY <2>1, <2>3, <3>5, <4>1 DEF LineOK
      <4>2. CASE flow[k].token = u
        <5>1. flow[k].pipe > 0 => PassedBy(u) = flow[k].pipe BY <1>1, <4>2, PassedFacts
        <5> QED BY <1>2, <2>3, <3>3, <5>1 DEF Pipe
      <4> QED BY <3>7, <4>1, <4>2
    <3>9. ASSUME NEW v \in Worker, pc[v] \in {"work", "down", "forward"}, line[v] = k
          PROVE  FALSE
      <4>1. /\ Tok(v) \in Nat /\ Tok(v) <= numTokens /\ LineOf(Tok(v)) = k
            /\ numTokens <= Tok(v) + numLines BY <3>9, CarriedFacts
      <4>2. Tok(v) = u BY <2>4, <3>6, <3>9, <4>1
      <4>3. pc[v] # "work" BY <1>2, <3>3, <3>9, <4>2, CarriedFacts DEF Pipe
      <4>4. left[v] \in Nat /\ left[v] = NumPipes - 1
        BY <1>2, <3>3, <3>9, <4>2, <4>3, CarriedFacts DEF Pipe
      <4> QED BY <3>2, <3>9, <4>2, <4>3, <4>4 DEF ToldForward
    <3> QED BY <1>5, <2>1, <2>2, <3>8, <3>9
  <2> QED BY <2>5, <2>6
<1> QED BY <1>2, <1>4, <1>5

\* A cell has one next token.
LEMMA NextUnique ==
    ASSUME IInv, NEW t \in Nat, NEW s \in Nat, NEW f \in Pipe,
           LineOf(t) = LineOf(s), IsNext(t, f), IsNext(s, f)
    PROVE  t = s
<1>1. TypeOK /\ numLines \in Nat \ {0} /\ f \in Nat /\ NumPipes \in Nat /\ f < NumPipes
  BY Basics DEF IInv
<1>2. ASSUME NEW i \in Nat, NEW j \in Nat, LineOf(i) = LineOf(j), IsNext(i, f), IsNext(j, f), i < j
      PROVE  FALSE
  <2>1. i + numLines <= j BY <1>1, <1>2, LineFacts
  <2>2. PICK u \in Nat : u = j - numLines /\ u + numLines = j BY <1>1, <2>1
  <2>3. Entered(u, f) /\ ~Entered(i, f) BY <1>1, <1>2, <2>1, <2>2 DEF IsNext
  <2>4. i < u BY <1>1, <2>1, <2>2, <2>3
  <2>5. i + numLines <= u
    <3>1. LineOf(u) = LineOf(i) BY <1>1, <1>2, <2>2, LineFacts
    <3> QED BY <1>1, <2>4, <3>1, LineFacts
  <2>6. PassedBy(i) = NumPipes BY <2>3, <2>5, EnteredFacts
  <2> QED BY <1>1, <2>3, <2>6 DEF Entered
<1> QED BY <1>2

-----------------------------------------------------------------------------
(* What a step keeps.                                                        *)

\* The grid is fixed between two resets.
LEMMA LinesKept ==
    ASSUME shape' = shape
    PROVE  /\ numLines' = numLines /\ meta' = meta /\ Lines' = Lines
           /\ \A t : LineOf(t)' = LineOf(t) /\ NextLine(t)' = NextLine(t)
BY DEF shape, Lines, LineOf, NextLine

\* What a cell waits for does not come back.
LEMMA MoreTold ==
    ASSUME TypeOK, shape' = shape,
           \A t \in Nat, f \in Pipe : /\ ToldDown(t, f) => ToldDown(t, f)'
                                      /\ ToldForward(t, f) => ToldForward(t, f)'
    PROVE  \A t \in Nat, f \in Pipe : /\ Ahead(t, f) => Ahead(t, f)'
                                      /\ Above(t, f) => Above(t, f)'
<1>1. numLines \in Nat \ {0} /\ NumPipes - 1 \in Pipe
      /\ \A f \in Pipe : f = 0 \/ f - 1 \in Pipe BY Basics DEF Pipe
<1> TAKE t \in Nat, f \in Pipe
<1>2. numLines' = numLines /\ meta' = meta BY LinesKept
<1>3. (t < numLines \/ t - numLines \in Nat) /\ (t = 0 \/ t - 1 \in Nat) BY <1>1
<1>4. Ahead(t, f) => Ahead(t, f)' BY <1>1, <1>2, <1>3 DEF Ahead
<1>5. Above(t, f) => Above(t, f)' BY <1>2, <1>3 DEF Above
<1> QED BY <1>4, <1>5

\* A step that tells no cell anything leaves what cells wait for.
LEMMA SameTold ==
    ASSUME TypeOK, shape' = shape,
           \A t \in Nat, f \in Pipe : /\ ToldDown(t, f)' <=> ToldDown(t, f)
                                      /\ ToldForward(t, f)' <=> ToldForward(t, f)
    PROVE  \A t \in Nat, f \in Pipe : /\ Ahead(t, f)' <=> Ahead(t, f)
                                      /\ Above(t, f)' <=> Above(t, f)
                                      /\ Waits(t, f)' = Waits(t, f)
<1>1. numLines \in Nat \ {0} /\ NumPipes - 1 \in Pipe
      /\ \A f \in Pipe : f = 0 \/ f - 1 \in Pipe BY Basics DEF Pipe
<1> TAKE t \in Nat, f \in Pipe
<1>2. numLines' = numLines /\ meta' = meta BY LinesKept
<1>3. (t < numLines \/ t - numLines \in Nat) /\ (t = 0 \/ t - 1 \in Nat) BY <1>1
<1>4. Ahead(t, f)' <=> Ahead(t, f) BY <1>1, <1>2, <1>3 DEF Ahead
<1>5. Above(t, f)' <=> Above(t, f) BY <1>2, <1>3 DEF Above
<1> QED BY <1>4, <1>5 DEF Waits

\* A cell waits for at most two things, and in a parallel pipe for one.
LEMMA WaitsFacts ==
    ASSUME NEW t \in Nat, NEW f \in Pipe
    PROVE  /\ Waits(t, f) \in {0, 1, 2}
           /\ Waits(t, f) = 0 <=> Ahead(t, f) /\ Above(t, f)
           /\ meta[f] # SERIAL => Waits(t, f) <= 1
           /\ ~Above(t, f) => Waits(t, f) >= 1
           /\ ~Ahead(t, f) => Waits(t, f) >= 1
BY DEF Waits, Above

\* A step of a line task leaves the other workers, their tokens and the other lines
\* alone.
LEMMA Others ==
    ASSUME IInv, NEW w \in Worker, LineTask(w)
    PROVE  /\ shape' = shape /\ running' = running /\ runs' = runs /\ running
           /\ line[w] \in Lines /\ pc[w] # "idle"
           /\ \A v \in Worker \ {w} : /\ pc'[v] = pc[v] /\ line'[v] = line[v]
                                      /\ left'[v] = left[v] /\ freed'[v] = freed[v]
                                      /\ pc[v] # "idle" => Tok(v)' = Tok(v) /\ At(v)' = At(v)
           /\ \A k \in Line : k # line[w] => flow'[k] = flow[k] /\ buffer'[k] = buffer[k]
           /\ flow' \in [Line -> [pipe : Pipe, token : 0 .. MaxTokens]]
           /\ pc' \in [Worker -> {"idle", "cell", "work", "down", "forward"}]
           /\ line' \in [Worker -> Line \cup {NoLine}]
           /\ left' \in [Worker -> Pipe] /\ freed' \in [Worker -> BOOLEAN]
           /\ cancelled' \in BOOLEAN /\ (cancelled => cancelled')
           /\ numTokens' \in 0 .. MaxTokens
<1>1. TypeOK BY DEF IInv
<1>2. pc[w] # "idle" /\ shape' = shape /\ running' = running /\ runs' = runs
  BY DEF LineTask, Callable, Cell, Work, Stop, Throw, Down, Forward, runVars
<1>3. running /\ line[w] \in Lines BY <1>2, AloneFacts
<1>4. line[w] \in Line /\ left[w] \in Pipe BY <1>1, <1>3, Basics
<1>5. /\ pc' \in [Worker -> {"idle", "cell", "work", "down", "forward"}]
      /\ line' \in [Worker -> Line \cup {NoLine}]
      /\ left' \in [Worker -> Pipe] /\ freed' \in [Worker -> BOOLEAN]
      /\ flow' \in [Line -> [pipe : Pipe, token : 0 .. MaxTokens]]
      /\ cancelled' \in BOOLEAN /\ (cancelled => cancelled')
      /\ numTokens' \in 0 .. MaxTokens
      /\ \A v \in Worker \ {w} : /\ pc'[v] = pc[v] /\ line'[v] = line[v]
                                 /\ left'[v] = left[v] /\ freed'[v] = freed[v]
      /\ \A k \in Line : k # line[w] => flow'[k] = flow[k] /\ buffer'[k] = buffer[k]
  <2>1. 0 \in Pipe /\ flow[line[w]].pipe \in Pipe /\ NextLine(line[w]) \in Line
        /\ (flow[line[w]].pipe + 1) % NumPipes \in Pipe
    <3>1. NextLine(line[w]) \in Lines BY <1>1, <1>3, NextLineFacts
    <3>2. flow[line[w]].pipe \in Pipe /\ NextLine(line[w]) \in Line /\ 0 \in Pipe
      BY <1>1, <1>4, <3>1, Basics
    <3> QED BY <1>1, <3>2, NextPipe
  <2>2. CASE Cell(w) BY <1>1, <1>4, <2>2 DEF Cell, Goto, TypeOK, runVars
  <2>3. CASE Work(w)
    <3> DEFINE p == (flow[line[w]].pipe + 1) % NumPipes
    <3>1. p \in Pipe BY <2>1
    <3>2. flow' = [flow EXCEPT ![line[w]].pipe = p] BY <2>3 DEF Work
    <3> HIDE DEF p
    <3>3. flow' \in [Line -> [pipe : Pipe, token : 0 .. MaxTokens]]
          /\ \A k \in Line : k # line[w] => flow'[k] = flow[k] BY <1>1, <1>4, <3>1, <3>2 DEF TypeOK
    <3>4. \A k \in Line : k # line[w] => buffer'[k] = buffer[k]
      BY <1>1, <1>4, <2>3 DEF Work, Output, TypeOK
    <3>5. numTokens' \in 0 .. MaxTokens BY <1>1, <2>3, PipelineAssumption DEF Work, TypeOK
    <3> QED BY <1>1, <1>4, <2>1, <2>3, <3>3, <3>4, <3>5 DEF Work, Goto, TypeOK, runVars
  <2>4. CASE Stop(w) BY <1>1, <1>4, <2>4 DEF Stop, Output, Goto, TypeOK, runVars
  <2>5. CASE Throw(w) BY <1>1, <1>4, <2>5 DEF Throw, Goto, TypeOK
  <2>6. CASE Down(w) BY <1>1, <1>4, <2>6 DEF Down, Goto, TypeOK, runVars
  <2>7. CASE Forward(w)
    <3>1. PICK a \in Line \cup {NoLine} : line' = [line EXCEPT ![w] = a]
      BY <1>4, <2>1, <2>7 DEF Forward
    <3>2. PICK b \in {"cell", "idle"} : pc' = [pc EXCEPT ![w] = b] BY <2>7 DEF Forward, Goto
    <3> QED BY <1>1, <1>4, <2>1, <2>7, <3>1, <3>2 DEF Forward, TypeOK, runVars
  <2> QED BY <2>2, <2>3, <2>4, <2>5, <2>6, <2>7 DEF LineTask, Callable
<1>6. ASSUME NEW v \in Worker \ {w}, pc[v] # "idle" PROVE Tok(v)' = Tok(v) /\ At(v)' = At(v)
  <2>1. line[v] \in Lines /\ line[v] # line[w] BY <1>2, <1>6, AloneFacts
  <2>2. line[v] \in Line BY <1>1, <2>1, Basics
  <2>3. flow'[line[v]] = flow[line[v]] /\ line'[v] = line[v] BY <1>5, <2>1, <2>2
  <2> QED BY <2>3 DEF Tok, At
<1> QED BY <1>2, <1>3, <1>5, <1>6

-----------------------------------------------------------------------------
(* Entering a cell.                                                          *)

\* The token whose cell a worker enters is ready for it.
LEMMA CellToken ==
    ASSUME IInv, NEW w \in Worker, Cell(w)
    PROVE  \E t \in Nat : /\ Tok(w)' = t /\ LineOf(t) = line[w] /\ Ready(t, At(w))
                          /\ At(w)' = At(w) /\ At(w) \in Pipe
                          /\ At(w) = 0 => t = numTokens
                          /\ At(w) > 0 => t = Tok(w) /\ t < numTokens
                          /\ t <= numTokens /\ numTokens <= t + numLines
<1>1. TypeOK /\ Through /\ line[w] \in Lines BY Others DEF IInv, LineTask
<1>2. line[w] \in Line /\ numTokens \in Nat /\ numLines \in Nat \ {0} BY <1>1, Basics
<1>3. At(w) \in Pipe /\ Tok(w) \in Nat /\ At(w) \in Nat
  <2>1. flow[line[w]].pipe \in Pipe /\ flow[line[w]].token \in Nat BY <1>1, <1>2, Basics
  <2> QED BY <2>1, Basics, <1>1 DEF At, Tok
<1>4. Heads(line[w]) BY DEF Cell, Heads
<1>5. HeadOK(line[w]) BY <1>1 DEF IInv, HeadsOK
<1>6. line' = line /\ flow' = IF At(w) = 0 THEN [flow EXCEPT ![line[w]].token = numTokens] ELSE flow
  BY DEF Cell, At
<1>7. At(w)' = At(w) /\ Tok(w)' = IF At(w) = 0 THEN numTokens ELSE Tok(w)
  BY <1>1, <1>2, <1>6 DEF At, Tok, TypeOK
<1>8. CASE At(w) = 0
  <2>1. line[w] = LineOf(numTokens) /\ Ready(numTokens, 0) BY <1>4, <1>5, <1>8 DEF HeadOK, At
  <2> QED BY <1>2, <1>3, <1>7, <1>8, <2>1
<1>9. CASE At(w) # 0
  <2>1. Ready(Tok(w), At(w)) BY <1>4, <1>5, <1>9 DEF HeadOK, At, Tok
  <2>2. Tok(w) < numTokens /\ LineOf(Tok(w)) = line[w] /\ line[w] < numTokens
    BY <1>1, <1>3, <1>9, PassedFacts DEF At, Tok
  <2>3. numTokens <= Tok(w) + numLines BY <1>1, <2>2, PassedFacts DEF Tok
  <2> QED BY <1>2, <1>3, <1>7, <1>9, <2>1, <2>2, <2>3
<1> QED BY <1>8, <1>9

\* Entering a cell changes what one token has entered, and nothing else.
LEMMA CellEffect ==
    ASSUME IInv, NEW w \in Worker, Cell(w)
    PROVE  /\ \A t \in Nat : PassedBy(t)' = PassedBy(t)
           /\ \A t \in Nat, g \in Pipe :
                /\ ToldDown(t, g)' <=> ToldDown(t, g)
                /\ ToldForward(t, g)' <=> ToldForward(t, g)
                /\ Entered(t, g)' <=> Entered(t, g) \/ (t = Tok(w)' /\ g = At(w))
<1>1. TypeOK /\ Through /\ LineTask(w) BY DEF IInv, LineTask
<1>2. line[w] \in Line /\ numTokens \in Nat /\ shape' = shape /\ numTokens' = numTokens
      /\ pc[w] = "cell" /\ pc'[w] = "work" /\ line'[w] = line[w]
  BY <1>1, Others, Basics DEF Cell, Goto, TypeOK
<1>3. ASSUME NEW t \in Nat PROVE PassedBy(t)' = PassedBy(t)
  <2>1. LineOf(t) \in Line /\ LineOf(t)' = LineOf(t) BY <1>1, <1>2, Basics, LinesKept
  <2>2. PICK k \in Line : k = LineOf(t) BY <2>1
  <2>3. PassedBy(t) = IF t >= numTokens THEN 0
                      ELSE IF flow[k].token # t \/ flow[k].pipe = 0 THEN NumPipes ELSE flow[k].pipe
    BY <2>2 DEF PassedBy, LineOf
  <2>4. PassedBy(t)' = IF t >= numTokens THEN 0
                       ELSE IF flow'[k].token # t \/ flow'[k].pipe = 0 THEN NumPipes ELSE flow'[k].pipe
    BY <1>2, <2>1, <2>2 DEF PassedBy, LineOf
  <2>5. flow'[k].pipe = flow[k].pipe /\ (flow[k].pipe # 0 => flow'[k].token = flow[k].token)
    BY <1>1, <1>2 DEF Cell, TypeOK
  <2> QED BY <2>3, <2>4, <2>5
<1>4. \A v \in Worker \ {w} : /\ pc'[v] = pc[v] /\ left'[v] = left[v]
                              /\ pc[v] # "idle" => Tok(v)' = Tok(v) /\ At(v)' = At(v)
  BY <1>1, Others
<1>5. At(w)' = At(w) BY CellToken
<1>6. ASSUME NEW t \in Nat, NEW g \in Pipe
      PROVE  /\ ToldDown(t, g)' <=> ToldDown(t, g)
             /\ ToldForward(t, g)' <=> ToldForward(t, g)
             /\ Entered(t, g)' <=> Entered(t, g) \/ (t = Tok(w)' /\ g = At(w))
  <2>1. ToldDown(t, g)' <=> ToldDown(t, g) BY <1>2, <1>3, <1>4 DEF ToldDown
  <2>2. ToldForward(t, g)' <=> ToldForward(t, g) BY <1>2, <1>3, <1>4 DEF ToldForward
  <2>3. Entered(t, g)' <=> Entered(t, g) \/ (t = Tok(w)' /\ g = At(w))
    BY <1>2, <1>3, <1>4, <1>5 DEF Entered
  <2> QED BY <2>1, <2>2, <2>3
<1> QED BY <1>3, <1>6

\* No step of a line task but Stop, Throw and Cell changes what a token has entered.
LEMMA ReadyKept ==
    ASSUME TypeOK, shape' = shape,
           \A t \in Nat, f \in Pipe : /\ ToldDown(t, f) => ToldDown(t, f)'
                                      /\ ToldForward(t, f) => ToldForward(t, f)'
    PROVE  \A t \in Nat, f \in Pipe :
             Ready(t, f) /\ (Entered(t, f)' => Entered(t, f)) => Ready(t, f)'
<1>1. ASSUME NEW t \in Nat, NEW f \in Pipe, Ready(t, f), Entered(t, f)' => Entered(t, f)
      PROVE  Ready(t, f)'
  <2>1. (Ahead(t, f) => Ahead(t, f)') /\ (Above(t, f) => Above(t, f)') BY MoreTold
  <2> QED BY <1>1, <2>1 DEF Ready
<1> QED BY <1>1

\* The invariant is kept when a worker enters a cell and arms its counter again.
LEMMA CellInvariant ==
    ASSUME IInv, NEW w \in Worker, Cell(w)
    PROVE  IInv'
<1>1. TypeOK /\ Through /\ LineTask(w) BY DEF IInv, LineTask
<1>2. PICK l \in Lines, f \in Pipe, T \in Nat :
                       /\ l = line[w] /\ f = At(w) /\ Tok(w)' = T /\ LineOf(T) = l /\ Ready(T, f)
                       /\ At(w)' = f /\ f \in Pipe
                       /\ f = 0 => T = numTokens
                       /\ f > 0 => T = Tok(w) /\ T < numTokens
                       /\ T <= numTokens /\ numTokens <= T + numLines BY <1>1, CellToken, Others
<1>3. /\ l \in Lines /\ l \in Line /\ l \in Nat /\ l # NoLine
      /\ numTokens \in Nat /\ numLines \in Nat \ {0} /\ NumPipes \in Nat \ {0}
      /\ f \in Nat /\ f < NumPipes
  <2>1. l \in Lines /\ l \in Line BY <1>1, <1>2, Basics
  <2>2. l # NoLine BY <2>1, PipelineAssumption DEF Line
  <2> QED BY <1>1, <1>2, <2>1, <2>2, Basics
<1>4. /\ pc[w] = "cell" /\ pc' = [pc EXCEPT ![w] = "work"] /\ line' = line /\ left' = left
      /\ freed' = freed /\ scheduled' = scheduled /\ buffer' = buffer /\ numTokens' = numTokens
      /\ counter' = [counter EXCEPT ![l][f] = meta[f]]
      /\ flow' = IF f = 0 THEN [flow EXCEPT ![l].token = numTokens] ELSE flow
      /\ cancelled' = cancelled /\ running' = running /\ shape' = shape /\ runs' = runs
  BY <1>2 DEF Cell, Goto, At, runVars
<1>5. /\ numLines' = numLines /\ meta' = meta /\ Lines' = Lines
      /\ \A t : LineOf(t)' = LineOf(t) /\ NextLine(t)' = NextLine(t) BY <1>4, LinesKept
<1>6. /\ \A t \in Nat : PassedBy(t)' = PassedBy(t)
      /\ \A t \in Nat, g \in Pipe :
           /\ ToldDown(t, g)' <=> ToldDown(t, g)
           /\ ToldForward(t, g)' <=> ToldForward(t, g)
           /\ Entered(t, g)' <=> Entered(t, g) \/ (t = T /\ g = f) BY <1>2, CellEffect
<1>7. \A t \in Nat, g \in Pipe : /\ Ahead(t, g)' <=> Ahead(t, g)
                                 /\ Above(t, g)' <=> Above(t, g)
                                 /\ Waits(t, g)' = Waits(t, g) BY <1>1, <1>4, <1>6, SameTold
<1>8. \A t \in Nat, g \in Pipe : ~(t = T /\ g = f) => (Ready(t, g)' <=> Ready(t, g))
  BY <1>6, <1>7 DEF Ready
<1>9. /\ scheduled[l] = 0
      /\ \A v \in Worker \ {w} : line[v] # l /\ ~Frees(v, l) /\ pc'[v] = pc[v]
           /\ (pc[v] # "idle" => Tok(v)' = Tok(v) /\ At(v)' = At(v))
  BY <1>1, <1>2, <1>4, AloneFacts, Others
<1>10. TypeOK'
  <2>1. meta[f] \in 0 .. 2 BY <1>1, <1>2, Basics DEF SERIAL, PARALLEL
  <2>2. counter' \in [Line -> [Pipe -> 0 .. 2]] BY <1>1, <1>2, <1>3, <1>4, <2>1 DEF TypeOK
  <2> QED BY <1>1, <1>4, <1>5, <2>2, Others DEF TypeOK, Metas
<1>11. Resting' BY <1>1, <1>4, Others DEF Resting
<1>12. TokensThrough' BY <1>1, <1>4, Others DEF TokensThrough
<1>13. Through'
  <2>1. ASSUME NEW k \in Lines PROVE LineOK(k)'
    <3>1. k \in Line /\ LineOK(k) BY <1>1, <2>1, Basics DEF Through
    <3>2. flow'[k].token = (IF k = l /\ f = 0 THEN numTokens ELSE flow[k].token)
          /\ flow'[k].pipe = flow[k].pipe /\ (k = l => flow[k].pipe = f)
      BY <1>1, <1>2, <1>3, <1>4, <3>1 DEF TypeOK, At
    <3>3. CASE k = l /\ f = 0
      <4>1. LineOf(numTokens) = k BY <1>2, <3>3
      <4> QED BY <1>3, <1>4, <1>5, <3>2, <3>3, <4>1 DEF LineOK
    <3>4. CASE ~(k = l /\ f = 0) BY <1>4, <1>5, <3>1, <3>2, <3>4 DEF LineOK
    <3> QED BY <3>3, <3>4
  <2> QED BY <1>5, <2>1 DEF Through
<1>14. \A v \in Worker, k \in Line : Frees(v, k)' <=> Frees(v, k)
  BY <1>1, <1>4, <1>5 DEF Frees, TypeOK
<1>15. Alones'
  <2>1. ASSUME NEW k \in Line PROVE Alone(k)' /\ (k \notin Lines => flow'[k].pipe = 0)
    <3>1. Alone(k) /\ (k \notin Lines => flow[k].pipe = 0) BY DEF IInv, Alones
    <3>2. flow'[k].pipe = flow[k].pipe BY <1>1, <1>3, <1>4 DEF TypeOK
    <3> QED BY <1>4, <1>5, <1>14, <3>1, <3>2 DEF Alone
  <2> QED BY <1>5, <2>1 DEF Alones
<1>16. \A k \in Line : k # l => (Heads(k)' <=> Heads(k)) /\ flow'[k] = flow[k]
  BY <1>1, <1>2, <1>4, Others DEF Heads, TypeOK
<1>17. HeadsOK'
  <2>1. ASSUME NEW k \in Lines, Heads(k)' PROVE HeadOK(k)'
    <3>1. k \in Line BY <1>1, Basics
    <3>2. k # l BY <1>1, <1>4, <1>9, <2>1 DEF Heads, TypeOK
    <3>3. HeadOK(k) /\ Heads(k) /\ flow'[k] = flow[k] BY <1>16, <2>1, <3>1, <3>2 DEF IInv, HeadsOK
    <3>4. CASE flow[k].pipe = 0
      <4>1. k = LineOf(numTokens) /\ Ready(numTokens, 0) BY <3>3, <3>4 DEF HeadOK
      <4>2. PICK t \in Nat, g \in Pipe : t = numTokens /\ g = 0 /\ t = numTokens'
        BY <1>1, <1>4, Basics
      <4>3. Ready(t, g)' BY <1>2, <1>8, <3>2, <4>1, <4>2
      <4> QED BY <1>5, <3>3, <3>4, <4>1, <4>2, <4>3 DEF HeadOK, LineOf
    <3>5. CASE flow[k].pipe # 0
      <4>1. k < numTokens /\ Ready(flow[k].token, flow[k].pipe) BY <3>3, <3>5 DEF HeadOK
      <4>2. flow[k].token \in Nat /\ flow[k].pipe \in Pipe BY <1>1, <3>1, Basics
      <4>3. PICK t \in Nat, g \in Pipe : t = flow[k].token /\ g = flow[k].pipe BY <4>2
      <4>4. LineOf(t) = k /\ t # T BY <1>1, <1>2, <3>2, <4>1, <4>3, PassedFacts
      <4>5. Ready(t, g)' BY <1>8, <4>1, <4>3, <4>4
      <4> QED BY <1>4, <3>3, <3>5, <4>1, <4>3, <4>5 DEF HeadOK
    <3> QED BY <3>4, <3>5
  <2> QED BY <1>5, <2>1 DEF HeadsOK, HeadOK
<1>18. Workers'
  <2>1. ASSUME NEW v \in Worker \ {w} PROVE WorkerOK(v)'
    <3>1. WorkerOK(v) /\ (pc[v] # "idle" => Tok(v) \in Nat /\ At(v) \in Pipe)
      <4>1. WorkerOK(v) BY DEF IInv, Workers
      <4>2. ASSUME pc[v] # "idle" PROVE Tok(v) \in Nat /\ At(v) \in Pipe
        <5>1. line[v] \in Line BY <1>1, <4>1, <4>2, Basics DEF WorkerOK
        <5> QED BY <1>1, <5>1, Basics DEF Tok, At
      <4> QED BY <4>1, <4>2
    <3>2. CASE pc[v] = "idle" BY <1>4, <3>1, <3>2, <1>9 DEF WorkerOK
    <3>3. CASE pc[v] # "idle"
      <4>1. PICK t \in Nat, g \in Pipe, h \in Pipe :
                t = Tok(v) /\ t = Tok(v)' /\ g = At(v) /\ g = At(v)' /\ h = left[v] /\ h = left'[v]
        BY <1>1, <1>4, <1>9, <3>1, <3>3, Basics
      <4>2. freed[v] => Ready(t + 1, h)'
        <5>1. ASSUME freed[v] PROVE Ready(t + 1, h) /\ Frees(v, LineOf(t + 1))
          <6>1. pc[v] = "forward" /\ Ready(t + 1, h) BY <3>1, <4>1, <5>1 DEF WorkerOK
          <6>2. LineOf(t) = line[v] BY <4>1, <6>1, CarriedFacts
          <6> QED BY <1>1, <5>1, <6>1, <6>2, LineFacts DEF Frees
        <5>2. ASSUME freed[v] PROVE t + 1 # T BY <1>2, <1>9, <5>1, <5>2
        <5> QED BY <1>8, <5>1, <5>2
      <4>3. pc[v] = "work" => (Ahead(t, g)' /\ Above(t, g)') BY <1>7, <3>1, <4>1 DEF WorkerOK
      <4>4. pc'[v] = pc[v] /\ freed'[v] = freed[v] /\ line'[v] = line[v] BY <1>4, <1>9
      <4> QED BY <1>4, <1>5, <3>1, <3>3, <4>1, <4>2, <4>3, <4>4 DEF WorkerOK
    <3> QED BY <3>2, <3>3
  <2>2. WorkerOK(w)'
    <3>1. Ahead(T, f)' /\ Above(T, f)' BY <1>2, <1>7 DEF Ready
    <3>2. pc'[w] = "work" /\ line'[w] = l /\ freed'[w] = freed[w] /\ ~freed[w]
      BY <1>1, <1>2, <1>4 DEF TypeOK, IInv, Workers, WorkerOK
    <3> QED BY <1>2, <1>3, <1>4, <1>5, <3>1, <3>2 DEF WorkerOK
  <2> QED BY <2>1, <2>2 DEF Workers
<1>19. Orders'
  <2>1. ASSUME NEW t \in Nat, NEW g \in Pipe, meta[g] = SERIAL, Entered(t, g)', NEW u \in 0 .. t - 1
        PROVE  ToldDown(u, g)
    <3>1. CASE Entered(t, g) BY <2>1, <3>1 DEF IInv, Orders, InOrder
    <3>2. CASE t = T /\ g = f
      <4>1. T - 1 \in Nat /\ ToldDown(T - 1, f) BY <1>2, <2>1, <3>2 DEF Ready, Above
      <4>2. Entered(T - 1, f) BY <1>2, <4>1, EnteredFacts
      <4>3. u = T - 1 \/ u \in 0 .. (T - 1) - 1 BY <2>1, <3>2, <4>1
      <4> QED BY <1>2, <2>1, <3>2, <4>1, <4>2, <4>3 DEF IInv, Orders, InOrder
    <3> QED BY <1>6, <2>1, <3>1, <3>2
  <2>2. ASSUME NEW t \in Nat, NEW g \in Pipe PROVE InOrder(t, g)'
    <3>1. \A u \in 0 .. t - 1 : u \in Nat OBVIOUS
    <3> QED BY <1>5, <1>6, <2>1, <3>1 DEF InOrder
  <2> QED BY <2>2 DEF Orders
<1>20. ASSUME NEW t \in Nat, NEW g \in Pipe, IsNext(t, g)', ~(LineOf(t) = l /\ g = f)
       PROVE  IsNext(t, g) /\ counter'[LineOf(t)][g] = counter[LineOf(t)][g]
  <2>1. ~Entered(t, g) BY <1>6, <1>20 DEF IsNext
  <2>2. t < numLines \/ Entered(t - numLines, g)
    <3>1. CASE t < numLines BY <3>1
    <3>2. CASE ~(t < numLines)
      <4>1. PICK u \in Nat : u = t - numLines /\ t = u + numLines BY <1>3, <3>2
      <4>2. LineOf(t) = LineOf(u) BY <1>1, <4>1, LineFacts
      <4>3. Entered(u, g)' BY <1>5, <1>20, <3>2, <4>1 DEF IsNext
      <4>4. Entered(u, g) BY <1>2, <1>6, <1>20, <4>2, <4>3
      <4> QED BY <4>1, <4>4
    <3> QED BY <3>1, <3>2
  <2>3. LineOf(t) \in Line BY <1>1, Basics
  <2>4. counter'[LineOf(t)][g] = counter[LineOf(t)][g] BY <1>1, <1>3, <1>4, <1>20, <2>3 DEF TypeOK
  <2> QED BY <2>1, <2>2, <2>4 DEF IsNext
<1>21. \A t \in Nat : LineOf(t) = l => counter'[LineOf(t)][f] = meta[f]
  BY <1>1, <1>2, <1>3, <1>4 DEF TypeOK
<1>22. Counts'
  <2>1. ASSUME NEW t \in Nat, NEW g \in Pipe, IsNext(t, g)'
        PROVE  counter'[LineOf(t)][g] >= Waits(t, g)
    <3>1. CASE LineOf(t) = l /\ g = f
      <4>1. meta[f] \in {SERIAL, PARALLEL} /\ counter'[LineOf(t)][g] = meta[f]
        BY <1>1, <1>2, <1>21, <3>1, Basics
      <4>2. Waits(t, g) \in {0, 1, 2} /\ (meta[g] # SERIAL => Waits(t, g) <= 1) BY WaitsFacts
      <4> QED BY <3>1, <4>1, <4>2 DEF SERIAL, PARALLEL
    <3>2. CASE ~(LineOf(t) = l /\ g = f) BY <1>20, <2>1, <3>2 DEF IInv, Counts, CountOK
    <3> QED BY <3>1, <3>2
  <2> QED BY <1>5, <1>7, <2>1 DEF Counts, CountOK
<1>23. ASSUME NEW t \in Nat, IsNext(t, f)', LineOf(t) = l, f > 0
       PROVE  ~Ahead(t, f) /\ (meta[f] = SERIAL => ~Above(t, f))
  <2>1. ~Entered(t, f) /\ t # T BY <1>2, <1>6, <1>23 DEF IsNext
  <2>2. PassedBy(T) = f /\ T < numTokens /\ PassedBy(T) \in Nat
    <3>1. At(w) > 0 /\ Tok(w) = T BY <1>2, <1>23
    <3> QED BY <1>1, <1>2, <1>3, <3>1, PassedFacts DEF At, Tok
  <2>3. t > T
    <3>1. t < T => t + numLines < numTokens BY <1>1, <1>2, <1>3, <1>23, <2>2, LineFacts
    <3>2. t < T => PassedBy(t) = NumPipes BY <1>1, <3>1, PassedFacts
    <3> QED BY <1>2, <1>3, <2>1, <3>2 DEF Entered
  <2>4. T + numLines <= t BY <1>1, <1>2, <1>23, <2>3, LineFacts
  <2>5. t >= numTokens BY <1>2, <1>3, <2>4
  <2>6. PICK u \in Nat : u = t - numLines /\ t = u + numLines /\ u >= T BY <1>2, <1>3, <2>4
  <2>7. u = T
    <3>1. LineOf(u) = LineOf(T) BY <1>1, <1>2, <1>23, <2>6, LineFacts
    <3>2. Entered(u, f) \/ u = T
      <4>1. ~(t < numLines) BY <1>3, <2>6
      <4> QED BY <1>5, <1>6, <1>23, <2>6, <4>1 DEF IsNext
    <3>3. u > T => u >= numTokens BY <1>1, <1>2, <1>3, <3>1, LineFacts
    <3>4. Entered(u, f) => u <= numTokens /\ (u = numTokens => f = 0) BY <1>2, EnteredFacts
    <3> QED BY <1>2, <1>3, <1>23, <2>6, <3>2, <3>3, <3>4
  <2>8. ~Ahead(t, f)
    <3>1. PassedBy(t) = 0 BY <1>1, <2>5, PassedFacts
    <3> QED BY <1>3, <1>23, <3>1 DEF Ahead, ToldForward
  <2>9. ASSUME meta[f] = SERIAL, Above(t, f) PROVE FALSE
    <3>1. PICK s \in Nat : s = t - 1 /\ s >= T BY <1>2, <1>3, <2>3
    <3>2. ToldDown(s, f) BY <1>3, <2>3, <2>9, <3>1 DEF Above
    <3>3. ToldDown(T, f)
      <4>1. Entered(s, f) BY <1>2, <3>2, EnteredFacts
      <4>2. s = T \/ T \in 0 .. s - 1 BY <3>1
      <4> QED BY <1>2, <2>9, <3>2, <4>1, <4>2 DEF IInv, Orders, InOrder
    <3> QED BY <1>3, <2>2, <3>3 DEF ToldDown
  <2> QED BY <2>8, <2>9
<1>24. Exacts'
  <2>1. ASSUME ~cancelled, NEW t \in Nat, NEW g \in Pipe, g > 0, IsNext(t, g)'
        PROVE  counter'[LineOf(t)][g] <= Waits(t, g) /\ (Ready(t, g)' => Answered(t, g)')
    <3>1. CASE LineOf(t) = l /\ g = f
      <4>1. ~Ahead(t, g) /\ (meta[g] = SERIAL => ~Above(t, g)) BY <1>23, <2>1, <3>1
      <4>2. counter'[LineOf(t)][g] = meta[f] /\ meta[f] \in {SERIAL, PARALLEL}
        BY <1>1, <1>2, <1>21, <3>1, Basics
      <4>3. Waits(t, g) >= meta[f] BY <3>1, <4>1, <4>2 DEF Waits, SERIAL, PARALLEL
      <4>4. ~Ready(t, g)' BY <1>7, <4>1 DEF Ready
      <4> QED BY <4>2, <4>3, <4>4, WaitsFacts DEF SERIAL, PARALLEL
    <3>2. CASE ~(LineOf(t) = l /\ g = f)
      <4>1. IsNext(t, g) /\ counter'[LineOf(t)][g] = counter[LineOf(t)][g] BY <1>20, <2>1, <3>2
      <4>2. counter[LineOf(t)][g] <= Waits(t, g) /\ (Ready(t, g) => Answered(t, g))
        BY <2>1, <4>1 DEF IInv, Exacts, CountExact
      <4>3. ASSUME Ready(t, g)' PROVE Answered(t, g)'
        <5>1. Ready(t, g) BY <1>2, <1>8, <3>2, <4>3
        <5>2. LineOf(t) \in Line /\ LineOf(t) # l
          <6>1. flow[LineOf(t)].pipe = g BY <2>1, <5>1, NobodyThere DEF Ready
          <6> QED BY <1>1, <1>2, <3>2, <6>1, Basics DEF At
        <5>3. Heads(LineOf(t))' <=> Heads(LineOf(t)) BY <1>5, <1>16, <5>2
        <5> QED BY <1>4, <1>5, <1>14, <4>2, <5>1, <5>2, <5>3 DEF Answered
      <4> QED BY <4>1, <4>2, <4>3
    <3> QED BY <3>1, <3>2
  <2> QED BY <1>4, <1>5, <1>7, <2>1 DEF Exacts, CountExact
<1> QED BY <1>10, <1>11, <1>12, <1>13, <1>15, <1>17, <1>18, <1>19, <1>22, <1>24 DEF IInv

-----------------------------------------------------------------------------
(* The parts of the invariant that most steps keep in the same way.          *)

\* The types of what a worker in the line task holds.
LEMMA CarrierTypes ==
    ASSUME IInv, NEW v \in Worker, pc[v] # "idle"
    PROVE  line[v] \in Lines /\ line[v] \in Line /\ Tok(v) \in Nat /\ At(v) \in Pipe /\ left[v] \in Pipe
<1>1. TypeOK /\ line[v] \in Lines BY DEF IInv, Workers, WorkerOK
<1>2. line[v] \in Line BY <1>1, Basics
<1> QED BY <1>1, <1>2, Basics DEF Tok, At

\* A worker that freed the cell below may take it on: its token is ready.
LEMMA FreedCell ==
    ASSUME IInv, NEW v \in Worker, pc[v] = "forward", freed[v]
    PROVE  /\ Ready(Tok(v) + 1, left[v]) /\ LineOf(Tok(v) + 1) = NextLine(line[v])
           /\ meta[left[v]] = SERIAL /\ Frees(v, NextLine(line[v]))
<1>1. Ready(Tok(v) + 1, left[v]) /\ meta[left[v]] = SERIAL BY DEF IInv, Workers, WorkerOK
<1>2. LineOf(Tok(v)) = line[v] /\ Tok(v) \in Nat BY CarriedFacts
<1> QED BY <1>1, <1>2, LineFacts DEF IInv, Frees

\* The order of tokens is kept by a step that enters no cell.
LEMMA OrdersKept ==
    ASSUME Orders, meta' = meta,
           \A t \in Nat, f \in Pipe : /\ Entered(t, f)' => Entered(t, f)
                                      /\ ToldDown(t, f) => ToldDown(t, f)'
    PROVE  Orders'
<1>1. ASSUME NEW t \in Nat, NEW f \in Pipe PROVE InOrder(t, f)'
  <2>1. InOrder(t, f) /\ \A u \in 0 .. t - 1 : u \in Nat BY DEF Orders
  <2> QED BY <2>1 DEF InOrder
<1> QED BY <1>1 DEF Orders

\* What is said of a worker is kept by the steps of the others.
LEMMA WorkerKept ==
    ASSUME IInv, shape' = shape, numTokens' = numTokens, NEW v \in Worker,
           pc'[v] = pc[v], line'[v] = line[v], left'[v] = left[v], freed'[v] = freed[v],
           pc[v] # "idle" => Tok(v)' = Tok(v) /\ At(v)' = At(v),
           \A t \in Nat, f \in Pipe : /\ ToldDown(t, f) => ToldDown(t, f)'
                                      /\ ToldForward(t, f) => ToldForward(t, f)'
                                      /\ Entered(t, f)' => Entered(t, f)
    PROVE  WorkerOK(v)'
<1>1. WorkerOK(v) /\ TypeOK BY DEF IInv, Workers
<1>2. CASE pc[v] = "idle" BY <1>1, <1>2 DEF WorkerOK
<1>3. CASE pc[v] # "idle"
  <2>1. PICK t \in Nat, g \in Pipe, h \in Pipe :
            t = Tok(v) /\ t = Tok(v)' /\ g = At(v) /\ g = At(v)' /\ h = left[v] /\ h = left'[v]
    BY <1>3, CarrierTypes
  <2>2. freed[v] => Ready(t + 1, h)' BY <1>1, <2>1, ReadyKept DEF WorkerOK
  <2>3. pc[v] = "work" => Ahead(t, g)' /\ Above(t, g)' BY <1>1, <2>1, MoreTold DEF WorkerOK
  <2>4. /\ numLines' = numLines /\ meta' = meta /\ Lines' = Lines
        /\ \A s : LineOf(s)' = LineOf(s) BY LinesKept
  <2> QED BY <1>1, <1>3, <2>1, <2>2, <2>3, <2>4 DEF WorkerOK
<1> QED BY <1>2, <1>3

\* A line that is about to be worked on stays ready.
LEMMA HeadKept ==
    ASSUME IInv, shape' = shape, numTokens' = numTokens, NEW k \in Lines, Heads(k),
           flow'[k] = flow[k],
           \A t \in Nat, f \in Pipe : /\ ToldDown(t, f) => ToldDown(t, f)'
                                      /\ ToldForward(t, f) => ToldForward(t, f)'
                                      /\ Entered(t, f)' => Entered(t, f)
    PROVE  HeadOK(k)'
<1>1. HeadOK(k) /\ TypeOK /\ k \in Line BY Basics DEF IInv, HeadsOK
<1>2. \A s : LineOf(s)' = LineOf(s) BY LinesKept
<1>3. \A t \in Nat, f \in Pipe : Ready(t, f) => Ready(t, f)' BY <1>1, ReadyKept
<1>4. CASE flow[k].pipe = 0
  <2>1. PICK t \in Nat, g \in Pipe : t = numTokens /\ t = numTokens' /\ g = 0 BY <1>1, Basics
  <2>2. k = LineOf(t) /\ Ready(t, g)' BY <1>1, <1>3, <1>4, <2>1 DEF HeadOK
  <2> QED BY <1>2, <1>4, <2>1, <2>2 DEF HeadOK, LineOf
<1>5. CASE flow[k].pipe # 0
  <2>1. PICK t \in Nat, g \in Pipe : t = flow[k].token /\ g = flow[k].pipe BY <1>1, Basics
  <2>2. k < numTokens /\ Ready(t, g)' BY <1>1, <1>3, <1>5, <2>1 DEF HeadOK
  <2> QED BY <1>5, <2>1, <2>2 DEF HeadOK
<1> QED BY <1>4, <1>5

\* The next token of a cell was its next token before.
LEMMA IsNextKept ==
    ASSUME TypeOK, shape' = shape,
           \A t \in Nat, f \in Pipe : Entered(t, f)' => Entered(t, f)
    PROVE  \A t \in Nat, f \in Pipe : IsNext(t, f)' /\ ~Entered(t, f) => IsNext(t, f)
<1>1. ASSUME NEW t \in Nat, NEW f \in Pipe, IsNext(t, f)', ~Entered(t, f) PROVE IsNext(t, f)
  <2>1. numLines' = numLines /\ numLines \in Nat BY Basics, LinesKept
  <2>2. t < numLines \/ t - numLines \in Nat BY <2>1
  <2> QED BY <1>1, <2>1, <2>2 DEF IsNext
<1> QED BY <1>1

\* A step that changes neither the counters nor what they wait for.
LEMMA CountsKept ==
    ASSUME IInv, shape' = shape, counter' = counter,
           \A t \in Nat, f \in Pipe : /\ ToldDown(t, f)' <=> ToldDown(t, f)
                                      /\ ToldForward(t, f)' <=> ToldForward(t, f)
                                      /\ Entered(t, f)' <=> Entered(t, f)
    PROVE  /\ Counts'
           /\ (cancelled => cancelled') /\ (\A t \in Nat, f \in Pipe :
                    ~cancelled' /\ f > 0 /\ Answered(t, f) => Answered(t, f)') => Exacts'
<1>1. TypeOK BY DEF IInv
<1>2. \A t \in Nat, f \in Pipe : Waits(t, f)' = Waits(t, f) /\ (Ready(t, f)' <=> Ready(t, f))
  BY <1>1, SameTold DEF Ready
<1>3. \A t \in Nat, f \in Pipe : IsNext(t, f)' => IsNext(t, f)
  <2>1. \A t \in Nat, f \in Pipe : IsNext(t, f)' => ~Entered(t, f) BY DEF IsNext
  <2> QED BY <1>1, <2>1, IsNextKept
<1>4. \A t : LineOf(t)' = LineOf(t) BY LinesKept
<1>5. Counts' BY <1>2, <1>3, <1>4 DEF IInv, Counts, CountOK
<1>6. ASSUME cancelled => cancelled',
             \A t \in Nat, f \in Pipe : ~cancelled' /\ f > 0 /\ Answered(t, f) => Answered(t, f)'
      PROVE  Exacts'
  <2>1. ASSUME NEW t \in Nat, NEW f \in Pipe PROVE CountExact(t, f)'
    <3>1. CountExact(t, f) BY DEF IInv, Exacts
    <3> QED BY <1>2, <1>3, <1>4, <1>6, <3>1 DEF CountExact
  <2> QED BY <2>1 DEF Exacts
<1> QED BY <1>5, <1>6

-----------------------------------------------------------------------------
(* The callable returns.                                                     *)

\* What the return of a callable changes.
LEMMA WorkEffect ==
    ASSUME IInv, NEW w \in Worker, Work(w)
    PROVE  \E l \in Lines, f \in Pipe, p \in Pipe, T \in Nat :
             /\ l = line[w] /\ f = At(w) /\ T = Tok(w) /\ LineOf(T) = l
             /\ p = IF f = NumPipes - 1 THEN 0 ELSE f + 1
             /\ flow' = [flow EXCEPT ![l].pipe = p]
             /\ numTokens' = IF f = 0 THEN numTokens + 1 ELSE numTokens
             /\ buffer' = IF f = NumPipes - 1 THEN buffer
                          ELSE [buffer EXCEPT ![l] = [token |-> T, pipe |-> f]]
             /\ T = numTokens <=> f = 0
             /\ T <= numTokens /\ numTokens <= T + numLines /\ T \in Token
             /\ PassedBy(T) = f /\ PassedBy(T)' = f + 1
             /\ \A t \in Nat \ {T} : PassedBy(t)' = PassedBy(t)
             /\ \A t \in Nat, g \in Pipe :
                  /\ ToldDown(t, g)' <=> ToldDown(t, g)
                  /\ ToldForward(t, g)' <=> ToldForward(t, g)
                  /\ Entered(t, g)' <=> Entered(t, g)
<1>1. TypeOK /\ Through /\ LineTask(w) /\ pc[w] = "work" BY DEF IInv, LineTask, Callable, Work
<1>2. PICK l \in Lines, f \in Pipe, T \in Nat : l = line[w] /\ f = At(w) /\ T = Tok(w)
  BY <1>1, CarriedFacts
<1>3. LineOf(T) = l /\ T <= numTokens /\ numTokens <= T + numLines /\ PassedBy(T) = f /\ T \in Token
  BY <1>1, <1>2, CarriedFacts
<1>4. T = numTokens <=> f = 0 BY <1>1, <1>2 DEF IInv, Workers, WorkerOK
<1>5. PICK p \in Pipe : p = (f + 1) % NumPipes /\ p = IF f = NumPipes - 1 THEN 0 ELSE f + 1
  BY <1>1, NextPipe
<1>6. /\ l \in Line /\ numTokens \in Nat /\ numLines \in Nat \ {0} /\ NumPipes \in Nat \ {0}
      /\ f \in Nat /\ f < NumPipes BY <1>1, Basics
<1>7. /\ flow' = [flow EXCEPT ![l].pipe = p]
      /\ numTokens' = IF f = 0 THEN numTokens + 1 ELSE numTokens
      /\ buffer' = IF f = NumPipes - 1 THEN buffer
                   ELSE [buffer EXCEPT ![l] = [token |-> T, pipe |-> f]]
      /\ pc' = [pc EXCEPT ![w] = "down"] /\ left' = [left EXCEPT ![w] = f]
      /\ line' = line /\ shape' = shape BY <1>2, <1>5 DEF Work, Output, Goto, At, Tok
<1>8. pc'[w] = "down" /\ left'[w] = f /\ Tok(w)' = T BY <1>1, <1>2, <1>6, <1>7 DEF TypeOK, Tok
<1>9. \A v \in Worker \ {w} : /\ pc'[v] = pc[v] /\ left'[v] = left[v]
                              /\ pc[v] # "idle" => Tok(v)' = Tok(v) /\ At(v)' = At(v)
                              /\ Carries(v, Tok(v)) => Tok(v) # T
  BY <1>1, <1>2, <1>3, Others, AloneFacts
<1>10. ASSUME NEW t \in Nat
       PROVE  IF t = T THEN PassedBy(t)' = f + 1 ELSE PassedBy(t)' = PassedBy(t)
  <2>1. PICK k \in Line : k = LineOf(t) /\ k = LineOf(t)' BY <1>1, <1>7, Basics, LinesKept
  <2>2. PassedBy(t) = IF t >= numTokens THEN 0
                      ELSE IF flow[k].token # t \/ flow[k].pipe = 0 THEN NumPipes ELSE flow[k].pipe
    BY <2>1 DEF PassedBy, LineOf
  <2>3. PassedBy(t)' = IF t >= numTokens' THEN 0
                       ELSE IF flow'[k].token # t \/ flow'[k].pipe = 0 THEN NumPipes ELSE flow'[k].pipe
    BY <2>1 DEF PassedBy, LineOf
  <2>4. CASE k = l
    <3>1. flow[k].token = T /\ flow[k].pipe = f /\ flow'[k].token = T /\ flow'[k].pipe = p
      BY <1>1, <1>2, <1>6, <1>7, <2>4 DEF TypeOK, Tok, At
    <3>2. CASE t = T BY <1>3, <1>4, <1>5, <1>6, <1>7, <2>3, <3>1, <3>2
    <3>3. CASE t # T BY <1>3, <1>4, <1>6, <1>7, <2>2, <2>3, <3>1, <3>3
    <3> QED BY <3>2, <3>3
  <2>5. CASE k # l
    <3>1. flow'[k] = flow[k] BY <1>1, <1>6, <1>7, <2>5 DEF TypeOK
    <3>2. t # T BY <1>3, <2>1, <2>5
    <3> QED
      <4>1. t >= numTokens' <=> t >= numTokens BY <1>4, <1>6, <1>7, <3>2
      <4> QED BY <2>2, <2>3, <3>1, <3>2, <4>1
  <2> QED BY <2>4, <2>5
<1>11. ASSUME NEW t \in Nat, NEW g \in Pipe
       PROVE  /\ ToldDown(t, g)' <=> ToldDown(t, g)
              /\ ToldForward(t, g)' <=> ToldForward(t, g)
              /\ Entered(t, g)' <=> Entered(t, g)
  <2>1. g \in Nat BY <1>1, Basics
  <2>2. CASE t # T
    <3>1. PassedBy(t)' = PassedBy(t) BY <1>10, <2>2
    <3>2. ToldDown(t, g)' <=> ToldDown(t, g) BY <1>1, <1>8, <1>9, <2>2, <3>1 DEF ToldDown
    <3>3. ToldForward(t, g)' <=> ToldForward(t, g) BY <1>1, <1>8, <1>9, <2>2, <3>1 DEF ToldForward
    <3>4. Entered(t, g)' <=> Entered(t, g) BY <1>1, <1>2, <1>8, <1>9, <2>2, <3>1 DEF Entered
    <3> QED BY <3>2, <3>3, <3>4
  <2>3. CASE t = T
    <3>1. PassedBy(t)' = f + 1 /\ PassedBy(t) = f BY <1>3, <1>10, <2>3
    <3>2. \A v \in Worker \ {w} : pc[v] \in {"work", "down", "forward"} => Tok(v) # T /\ Tok(v)' # T
      BY <1>9 DEF Carries
    <3>3. ToldDown(t, g)' <=> f > g BY <1>6, <1>8, <1>9, <2>1, <2>3, <3>1, <3>2 DEF ToldDown
    <3>4. ToldDown(t, g) <=> f > g BY <1>1, <2>3, <3>1, <3>2 DEF ToldDown
    <3>5. ToldForward(t, g)' <=> f > g BY <1>6, <1>8, <1>9, <2>1, <2>3, <3>1, <3>2 DEF ToldForward
    <3>6. ToldForward(t, g) <=> f > g BY <1>1, <2>3, <3>1, <3>2 DEF ToldForward
    <3>7. Entered(t, g)' <=> f >= g BY <1>6, <1>8, <1>9, <2>1, <2>3, <3>1, <3>2 DEF Entered
    <3>8. Entered(t, g) <=> f >= g BY <1>1, <1>2, <1>6, <2>1, <2>3, <3>1, <3>2 DEF Entered
    <3> QED BY <3>3, <3>4, <3>5, <3>6, <3>7, <3>8
  <2> QED BY <2>2, <2>3
<1>12. PassedBy(T)' = f + 1 /\ \A t \in Nat \ {T} : PassedBy(t)' = PassedBy(t) BY <1>10
<1> QED BY <1>2, <1>3, <1>4, <1>5, <1>7, <1>11, <1>12

\* The invariant is kept when a callable returns and the pipeflow moves on.
LEMMA WorkInvariant ==
    ASSUME IInv, NEW w \in Worker, Work(w)
    PROVE  IInv'
<1>1. TypeOK /\ Through /\ LineTask(w) /\ pc[w] = "work" BY DEF IInv, LineTask, Callable, Work
<1>2. PICK l \in Lines, f \in Pipe, p \in Pipe, T \in Nat :
        /\ l = line[w] /\ f = At(w) /\ T = Tok(w) /\ LineOf(T) = l
        /\ p = IF f = NumPipes - 1 THEN 0 ELSE f + 1
        /\ flow' = [flow EXCEPT ![l].pipe = p]
        /\ numTokens' = IF f = 0 THEN numTokens + 1 ELSE numTokens
        /\ buffer' = IF f = NumPipes - 1 THEN buffer
                     ELSE [buffer EXCEPT ![l] = [token |-> T, pipe |-> f]]
        /\ T = numTokens <=> f = 0
        /\ T <= numTokens /\ numTokens <= T + numLines /\ T \in Token
        /\ \A t \in Nat, g \in Pipe :
             /\ ToldDown(t, g)' <=> ToldDown(t, g)
             /\ ToldForward(t, g)' <=> ToldForward(t, g)
             /\ Entered(t, g)' <=> Entered(t, g) BY WorkEffect
<1>3. /\ l \in Line /\ l \in Nat /\ l <= T /\ numTokens \in Nat /\ numLines \in Nat \ {0}
      /\ NumPipes \in Nat \ {0} /\ f \in Nat /\ f < NumPipes
  <2>1. l <= T BY <1>1, <1>2, LineFacts
  <2> QED BY <1>1, <2>1, Basics
<1>4. /\ pc' = [pc EXCEPT ![w] = "down"] /\ left' = [left EXCEPT ![w] = f]
      /\ line' = line /\ freed' = freed /\ scheduled' = scheduled /\ counter' = counter
      /\ cancelled' = cancelled /\ running' = running /\ shape' = shape /\ runs' = runs
  BY <1>2 DEF Work, Goto, At, runVars
<1>5. /\ numLines' = numLines /\ meta' = meta /\ Lines' = Lines
      /\ \A t : LineOf(t)' = LineOf(t) /\ NextLine(t)' = NextLine(t) BY <1>4, LinesKept
<1>6. \A t \in Nat, g \in Pipe : /\ Ahead(t, g)' <=> Ahead(t, g)
                                 /\ Above(t, g)' <=> Above(t, g)
                                 /\ Ready(t, g)' <=> Ready(t, g)
  BY <1>1, <1>2, <1>4, SameTold DEF Ready
<1>7. /\ scheduled[l] = 0
      /\ \A v \in Worker \ {w} : /\ line[v] # l /\ ~Frees(v, l) /\ pc'[v] = pc[v]
                                 /\ left'[v] = left[v]
                                 /\ (pc[v] # "idle" => Tok(v)' = Tok(v) /\ At(v)' = At(v))
                                 /\ Carries(v, Tok(v)) => LineOf(Tok(v)) # l
  BY <1>1, <1>2, <1>4, AloneFacts, Others
<1>8. pc'[w] = "down" /\ left'[w] = f /\ Tok(w)' = T /\ At(w)' = p
  BY <1>1, <1>2, <1>3, <1>4 DEF TypeOK, Tok, At
<1>9. TypeOK'
  <2>1. buffer' \in [Line -> [token : 0 .. MaxTokens, pipe : 0 .. NumPipes]]
    <3>1. [token |-> T, pipe |-> f] \in [token : 0 .. MaxTokens, pipe : 0 .. NumPipes]
      BY <1>2, <1>3 DEF Token
    <3> QED BY <1>1, <1>2, <3>1 DEF TypeOK
  <2> QED BY <1>1, <1>4, <1>5, <2>1, Others DEF TypeOK, Metas
<1>10. Resting' /\ TokensThrough' BY <1>1, <1>4, Others DEF Resting, TokensThrough
<1>11. Through'
  <2>1. ASSUME NEW k \in Lines PROVE LineOK(k)'
    <3>1. k \in Line /\ k \in Nat /\ LineOK(k) /\ flow[k].token \in Nat
      <4>1. k \in Line BY <1>1, Basics
      <4> QED BY <1>1, <4>1, Basics DEF Through
    <3>2. CASE k = l
      <4>1. flow'[k].token = T /\ flow'[k].pipe = p BY <1>1, <1>2, <1>3, <3>2 DEF TypeOK, Tok
      <4>2. p > 0 => buffer'[k] = [token |-> T, pipe |-> p - 1] BY <1>1, <1>2, <1>3, <3>2 DEF TypeOK
      <4> QED BY <1>2, <1>3, <1>5, <3>2, <4>1, <4>2 DEF LineOK
    <3>3. CASE k # l
      <4>1. flow'[k] = flow[k] /\ buffer'[k] = buffer[k] BY <1>1, <1>2, <3>1, <3>3, Others
      <4>2. f = 0 => k # numTokens
        <5>1. k < numLines BY <1>3 DEF Lines
        <5>2. LineOf(k) = k BY <1>1, <3>1, <5>1, LineFacts
        <5> QED BY <1>2, <3>3, <5>2
      <4>3. f = 0 /\ k < numTokens => flow[k].token # numTokens - numLines
        <5>1. LineOf(flow[k].token + numLines) = LineOf(flow[k].token) BY <1>1, <3>1, LineFacts
        <5> QED BY <1>2, <1>3, <3>1, <3>3, <5>1 DEF LineOK
      <4> QED
        <5>1. k < numTokens' <=> k < numTokens BY <1>2, <1>3, <3>1, <4>2
        <5>2. k < numTokens => /\ LineOf(flow[k].token) = k /\ flow[k].token <= numTokens
                               /\ numTokens' - numLines <= flow[k].token
                               /\ flow[k].token = numTokens' => flow[k].pipe = 0
          BY <1>2, <1>3, <3>1, <4>3 DEF LineOK
        <5>3. flow[k].token <= numTokens => flow[k].token <= numTokens' BY <1>2, <1>3, <3>1
        <5>4. k >= numTokens' => flow[k].pipe = 0 BY <1>2, <1>3, <3>1, <5>1 DEF LineOK
        <5>5. flow[k].pipe > 0 =>
                buffer[k] = [token |-> flow[k].token, pipe |-> flow[k].pipe - 1] BY <3>1 DEF LineOK
        <5> QED BY <1>5, <4>1, <5>1, <5>2, <5>3, <5>4, <5>5 DEF LineOK
    <3> QED BY <3>2, <3>3
  <2> QED BY <1>5, <2>1 DEF Through
<1>12. \A v \in Worker, k \in Line : Frees(v, k)' <=> Frees(v, k)
  BY <1>1, <1>4, <1>5 DEF Frees, TypeOK
<1>13. Alones'
  <2>1. ASSUME NEW k \in Line PROVE Alone(k)' /\ (k \notin Lines => flow'[k].pipe = 0)
    <3>1. Alone(k) /\ (k \notin Lines => flow[k].pipe = 0) BY DEF IInv, Alones
    <3>2. k \notin Lines => flow'[k] = flow[k] BY <1>1, <1>2, Others
    <3> QED BY <1>4, <1>5, <1>12, <3>1, <3>2 DEF Alone
  <2> QED BY <1>5, <2>1 DEF Alones
<1>14. \A k \in Line : Heads(k)' <=> Heads(k) BY <1>1, <1>4 DEF Heads, TypeOK
<1>15. HeadsOK'
  <2>1. ASSUME NEW k \in Lines, Heads(k)' PROVE HeadOK(k)'
    <3>1. k \in Line /\ Heads(k) /\ HeadOK(k) BY <1>1, <1>14, <2>1, Basics DEF IInv, HeadsOK
    <3>2. k # l BY <1>1, <1>7, <3>1 DEF Heads
    <3>3. flow'[k] = flow[k] BY <1>1, <1>2, <3>1, <3>2, Others
    <3>4. CASE flow[k].pipe = 0
      <4>1. k = LineOf(numTokens) /\ Ready(numTokens, 0) BY <3>1, <3>4 DEF HeadOK
      <4>2. numTokens' = numTokens BY <1>2, <3>2, <4>1
      <4>3. PICK t \in Nat, g \in Pipe : t = numTokens /\ t = numTokens' /\ g = 0
        BY <1>1, <4>2, Basics
      <4>4. Ready(t, g)' /\ k = LineOf(t) BY <1>6, <4>1, <4>3
      <4> QED BY <1>5, <3>3, <3>4, <4>3, <4>4 DEF HeadOK, LineOf
    <3>5. CASE flow[k].pipe # 0
      <4>1. PICK t \in Nat, g \in Pipe : t = flow[k].token /\ g = flow[k].pipe BY <1>1, <3>1, Basics
      <4>2. k < numTokens /\ Ready(t, g)' /\ k \in Nat
        BY <1>1, <1>6, <3>1, <3>5, <4>1, Basics DEF HeadOK
      <4>3. k < numTokens' BY <1>2, <1>3, <4>2
      <4> QED BY <3>3, <3>5, <4>1, <4>2, <4>3 DEF HeadOK
    <3> QED BY <3>4, <3>5
  <2> QED BY <1>5, <2>1 DEF HeadsOK, HeadOK
<1>16. Workers'
  <2>1. ASSUME NEW v \in Worker \ {w} PROVE WorkerOK(v)'
    <3>1. WorkerOK(v) BY DEF IInv, Workers
    <3>2. pc'[v] = pc[v] /\ line'[v] = line[v] /\ left'[v] = left[v] /\ freed'[v] = freed[v]
      BY <1>4, <1>7
    <3>3. CASE pc[v] = "idle" BY <3>1, <3>2, <3>3 DEF WorkerOK
    <3>4. CASE pc[v] # "idle"
      <4>1. PICK t \in Nat, g \in Pipe, h \in Pipe :
                t = Tok(v) /\ t = Tok(v)' /\ g = At(v) /\ g = At(v)' /\ h = left[v] /\ h = left'[v]
        BY <1>7, <3>2, <3>4, CarrierTypes
      <4>2. freed[v] => Ready(t + 1, h)' BY <1>6, <3>1, <4>1 DEF WorkerOK
      <4>3. pc[v] = "work" => Ahead(t, g)' /\ Above(t, g)' BY <1>6, <3>1, <4>1 DEF WorkerOK
      <4>4. pc[v] = "work" /\ f = 0 => t # numTokens BY <1>2, <1>7, <4>1 DEF Carries
      <4>5. line[v] \in Nat BY <1>1, <3>4, CarrierTypes, Basics
      <4> QED BY <1>2, <1>3, <1>5, <3>1, <3>2, <3>4, <4>1, <4>2, <4>3, <4>4, <4>5 DEF WorkerOK
    <3> QED BY <3>3, <3>4
  <2>2. WorkerOK(w)'
    <3>1. line'[w] = l /\ freed'[w] = freed[w] /\ ~freed[w]
      BY <1>1, <1>2, <1>4 DEF IInv, Workers, WorkerOK
    <3>2. l < numTokens' /\ T < numTokens' /\ l # NoLine
      <4>1. l # NoLine BY <1>3, PipelineAssumption DEF Line
      <4> QED BY <1>2, <1>3, <4>1
    <3>3. p = (f + 1) % NumPipes BY <1>1, <1>2, NextPipe
    <3> QED BY <1>2, <1>4, <1>5, <1>8, <3>1, <3>2, <3>3 DEF WorkerOK
  <2> QED BY <2>1, <2>2 DEF Workers
<1>17. Orders' BY <1>2, <1>5, OrdersKept DEF IInv
<1>18. \A t \in Nat, g \in Pipe : Answered(t, g) => Answered(t, g)'
  <2>1. ASSUME NEW t \in Nat, NEW g \in Pipe, Answered(t, g) PROVE Answered(t, g)'
    <3>1. LineOf(t) \in Line BY <1>1, Basics
    <3>2. \A v \in Worker : Frees(v, LineOf(t)) => left'[v] = left[v] BY <1>1, <1>7 DEF Frees
    <3> QED BY <1>5, <1>12, <1>14, <2>1, <3>1, <3>2 DEF Answered
  <2> QED BY <2>1
<1>19. Counts' /\ Exacts' BY <1>2, <1>4, <1>18, CountsKept
<1> QED BY <1>9, <1>10, <1>11, <1>13, <1>15, <1>16, <1>17, <1>19 DEF IInv

-----------------------------------------------------------------------------
(* The callable stops the pipeline, or throws.                               *)

\* A token that stops the pipeline, or throws, gets no further; nothing else changes.
LEMMA WithdrawEffect ==
    ASSUME IInv, NEW w \in Worker, Stop(w) \/ Throw(w)
    PROVE  /\ pc[w] = "work"
           /\ \A t \in Nat : PassedBy(t)' = PassedBy(t)
           /\ \A t \in Nat, g \in Pipe :
                /\ ToldDown(t, g)' <=> ToldDown(t, g)
                /\ ToldForward(t, g)' <=> ToldForward(t, g)
                /\ Entered(t, g)' => Entered(t, g)
                /\ Entered(t, g) /\ ~Entered(t, g)' => t = Tok(w) /\ g = At(w)
           /\ \A k \in Line : /\ Heads(k)' <=> Heads(k)
                              /\ \A v \in Worker : Frees(v, k)' <=> Frees(v, k)
<1>1. TypeOK /\ Through /\ LineTask(w) /\ pc[w] = "work"
  BY DEF IInv, LineTask, Callable, Stop, Throw
<1>2. /\ pc' = [pc EXCEPT ![w] = "idle"] /\ line' = [line EXCEPT ![w] = NoLine]
      /\ flow' = flow /\ numTokens' = numTokens /\ shape' = shape /\ scheduled' = scheduled
      /\ left' = left /\ freed' = freed BY DEF Stop, Throw, Goto
<1>3. numLines' = numLines /\ \A t : LineOf(t)' = LineOf(t) /\ NextLine(t)' = NextLine(t)
  BY <1>2, LinesKept
<1>4. \A t \in Nat : PassedBy(t)' = PassedBy(t) BY <1>2, <1>3 DEF PassedBy
<1>5. \A v \in Worker \ {w} : /\ pc'[v] = pc[v] /\ left'[v] = left[v] /\ line'[v] = line[v]
                              /\ pc[v] # "idle" => Tok(v)' = Tok(v) /\ At(v)' = At(v)
  BY <1>1, Others
<1>6. pc'[w] = "idle" BY <1>1, <1>2 DEF TypeOK
<1>7. ASSUME NEW t \in Nat, NEW g \in Pipe
      PROVE  /\ ToldDown(t, g)' <=> ToldDown(t, g)
             /\ ToldForward(t, g)' <=> ToldForward(t, g)
             /\ Entered(t, g)' => Entered(t, g)
             /\ Entered(t, g) /\ ~Entered(t, g)' => t = Tok(w) /\ g = At(w)
  <2>1. ToldDown(t, g)' <=> ToldDown(t, g) BY <1>1, <1>4, <1>5, <1>6 DEF ToldDown
  <2>2. ToldForward(t, g)' <=> ToldForward(t, g) BY <1>1, <1>4, <1>5, <1>6 DEF ToldForward
  <2>3. /\ Entered(t, g)' => Entered(t, g)
        /\ Entered(t, g) /\ ~Entered(t, g)' => t = Tok(w) /\ g = At(w)
    BY <1>1, <1>4, <1>5, <1>6 DEF Entered
  <2> QED BY <2>1, <2>2, <2>3
<1>8. \A k \in Line : Heads(k)' <=> Heads(k) BY <1>1, <1>2, <1>5, <1>6 DEF Heads
<1>9. \A k \in Line, v \in Worker : Frees(v, k)' <=> Frees(v, k)
  BY <1>1, <1>2, <1>3, <1>5, <1>6 DEF Frees
<1> QED BY <1>1, <1>4, <1>7, <1>8, <1>9

\* The invariant is kept when the line task ends in the callable.
LEMMA WithdrawInvariant ==
    ASSUME IInv, NEW w \in Worker, Stop(w) \/ Throw(w)
    PROVE  IInv'
<1>1. TypeOK /\ Through /\ LineTask(w) /\ pc[w] = "work"
  BY DEF IInv, LineTask, Callable, Stop, Throw
<1>2. PICK l \in Lines, f \in Pipe, T \in Nat : l = line[w] /\ f = At(w) /\ T = Tok(w)
  BY <1>1, CarriedFacts
<1>3. l \in Line /\ LineOf(T) = l /\ f \in Nat /\ l # NoLine
  <2>1. l \in Line BY <1>1, Basics
  <2>2. l # NoLine BY <2>1, PipelineAssumption DEF Line
  <2> QED BY <1>1, <1>2, <2>1, <2>2, CarriedFacts, Basics
<1>4. /\ pc' = [pc EXCEPT ![w] = "idle"] /\ line' = [line EXCEPT ![w] = NoLine]
      /\ flow' = flow /\ numTokens' = numTokens /\ shape' = shape /\ scheduled' = scheduled
      /\ left' = left /\ freed' = freed /\ counter' = counter /\ running' = running
      /\ runs' = runs /\ (buffer' = buffer \/ f = 0) /\ (cancelled' \/ f = 0)
      /\ f # NumPipes - 1 /\ f = 0 /\ Stop(w) =>
            buffer' = [buffer EXCEPT ![l] = [token |-> T, pipe |-> f]]
      /\ f = NumPipes - 1 \/ ~Stop(w) => buffer' = buffer
  BY <1>2 DEF Stop, Throw, Goto, Output, At, Tok, runVars
<1>5. /\ numLines' = numLines /\ meta' = meta /\ Lines' = Lines
      /\ \A t : LineOf(t)' = LineOf(t) /\ NextLine(t)' = NextLine(t) BY <1>4, LinesKept
<1>6. /\ \A t \in Nat, g \in Pipe :
           /\ ToldDown(t, g)' <=> ToldDown(t, g)
           /\ ToldForward(t, g)' <=> ToldForward(t, g)
           /\ Entered(t, g)' => Entered(t, g)
           /\ Entered(t, g) /\ ~Entered(t, g)' => t = T /\ g = f
      /\ \A k \in Line : /\ Heads(k)' <=> Heads(k)
                         /\ \A v \in Worker : Frees(v, k)' <=> Frees(v, k) BY <1>2, WithdrawEffect
<1>7. TypeOK'
  <2>1. buffer' \in [Line -> [token : 0 .. MaxTokens, pipe : 0 .. NumPipes]]
    <3>1. T \in 0 .. MaxTokens /\ f \in 0 .. NumPipes
      BY <1>1, <1>2, CarriedFacts, Basics DEF Token, Pipe
    <3>2. [token |-> T, pipe |-> f] \in [token : 0 .. MaxTokens, pipe : 0 .. NumPipes] BY <3>1
    <3> QED BY <1>1, <1>3, <1>4, <3>2 DEF TypeOK
  <2> QED BY <1>1, <1>4, <1>5, <2>1, Others DEF TypeOK, Metas
<1>8. Resting' /\ TokensThrough' BY <1>1, <1>4, Others DEF Resting, TokensThrough
<1>9. Through'
  <2>1. ASSUME NEW k \in Lines PROVE LineOK(k)'
    <3>1. LineOK(k) /\ k \in Line BY <1>1, Basics DEF Through
    <3>2. flow[k].pipe > 0 => buffer'[k] = buffer[k] BY <1>1, <1>2, <1>3, <1>4, <3>1 DEF TypeOK, At
    <3> QED BY <1>4, <1>5, <3>1, <3>2 DEF LineOK
  <2> QED BY <1>5, <2>1 DEF Through
<1>10. Alones'
  <2>1. ASSUME NEW k \in Line PROVE Alone(k)' /\ (k \notin Lines => flow'[k].pipe = 0)
    <3>1. Alone(k) /\ (k \notin Lines => flow[k].pipe = 0) BY DEF IInv, Alones
    <3>2. k # NoLine BY PipelineAssumption DEF Line
    <3>3. \A v \in Worker : line'[v] = k => line[v] = k BY <1>1, <1>4, <3>2 DEF TypeOK
    <3> QED BY <1>4, <1>5, <1>6, <3>1, <3>3 DEF Alone
  <2> QED BY <1>5, <2>1 DEF Alones
<1>11. HeadsOK'
  <2>1. ASSUME NEW k \in Lines PROVE HeadOK(k)'
    <3>1. CASE Heads(k)
      <4>1. flow'[k] = flow[k] BY <1>4
      <4> QED BY <1>4, <1>6, <3>1, <4>1, HeadKept
    <3>2. CASE ~Heads(k)
      <4>1. k \in Line BY <1>1, Basics
      <4> QED BY <1>6, <3>2, <4>1 DEF HeadOK
    <3> QED BY <3>1, <3>2
  <2> QED BY <1>5, <2>1 DEF HeadsOK
<1>12. Workers'
  <2>1. ASSUME NEW v \in Worker \ {w} PROVE WorkerOK(v)'
    <3>1. /\ pc'[v] = pc[v] /\ left'[v] = left[v] /\ line'[v] = line[v] /\ freed'[v] = freed[v]
          /\ pc[v] # "idle" => Tok(v)' = Tok(v) /\ At(v)' = At(v) BY <1>1, Others
    <3> QED BY <1>4, <1>6, <3>1, WorkerKept
  <2>2. WorkerOK(w)'
    <3>1. pc'[w] = "idle" /\ line'[w] = NoLine /\ freed'[w] = freed[w] /\ ~freed[w]
      BY <1>1, <1>4 DEF TypeOK, IInv, Workers, WorkerOK
    <3> QED BY <3>1 DEF WorkerOK
  <2> QED BY <2>1, <2>2 DEF Workers
<1>13. Orders' BY <1>5, <1>6, OrdersKept DEF IInv
<1>14. \A t \in Nat, g \in Pipe : /\ Ahead(t, g)' <=> Ahead(t, g)
                                  /\ Above(t, g)' <=> Above(t, g)
                                  /\ Waits(t, g)' = Waits(t, g) BY <1>1, <1>4, <1>6, SameTold
<1>15. \A t \in Nat, g \in Pipe : IsNext(t, g)' => IsNext(t, g) \/ (t = T /\ g = f)
  <2>1. ASSUME NEW t \in Nat, NEW g \in Pipe, IsNext(t, g)', ~(t = T /\ g = f)
        PROVE  IsNext(t, g)
    <3>1. ~Entered(t, g) BY <1>6, <2>1 DEF IsNext
    <3> QED BY <1>1, <1>4, <1>6, <2>1, <3>1, IsNextKept
  <2> QED BY <2>1
<1>16. Waits(T, f) = 0
  <2>1. Ahead(T, f) /\ Above(T, f) BY <1>1, <1>2 DEF IInv, Workers, WorkerOK
  <2> QED BY <2>1 DEF Waits
<1>17. Counts'
  <2>1. ASSUME NEW t \in Nat, NEW g \in Pipe, IsNext(t, g)'
        PROVE  counter[LineOf(t)][g] >= Waits(t, g)
    <3>1. CASE IsNext(t, g) BY <3>1 DEF IInv, Counts, CountOK
    <3>2. CASE t = T /\ g = f
      <4>1. counter[l][f] \in Nat BY <1>1, <1>3, Basics
      <4> QED BY <1>3, <1>16, <3>2, <4>1
    <3> QED BY <1>15, <2>1, <3>1, <3>2
  <2> QED BY <1>4, <1>5, <1>14, <2>1 DEF Counts, CountOK
<1>18. Exacts'
  <2>1. ASSUME ~cancelled', NEW t \in Nat, NEW g \in Pipe, g > 0, IsNext(t, g)'
        PROVE  counter[LineOf(t)][g] <= Waits(t, g) /\ (Ready(t, g)' => Answered(t, g)')
    <3>1. ~cancelled /\ f = 0 BY <1>1, <1>4, <2>1, Others
    <3>2. IsNext(t, g) /\ (Ready(t, g)' => Ready(t, g))
      BY <1>14, <1>15, <2>1, <3>1 DEF IsNext, Ready
    <3>3. counter[LineOf(t)][g] <= Waits(t, g) /\ (Ready(t, g)' => Answered(t, g))
      BY <2>1, <3>1, <3>2 DEF IInv, Exacts, CountExact
    <3>4. LineOf(t) \in Line BY <1>1, Basics
    <3> QED BY <1>4, <1>5, <1>6, <3>3, <3>4 DEF Answered
  <2> QED BY <1>4, <1>5, <1>14, <2>1 DEF Exacts, CountExact
<1> QED BY <1>7, <1>8, <1>9, <1>10, <1>11, <1>12, <1>13, <1>17, <1>18 DEF IInv

-----------------------------------------------------------------------------
(* The downward dependency.                                                  *)

\* The downward decrement tells the next token that the pipe is free, and nothing else.
LEMMA DownEffect ==
    ASSUME IInv, NEW w \in Worker, Down(w)
    PROVE  /\ \A t \in Nat : PassedBy(t)' = PassedBy(t)
           /\ \A t \in Nat, g \in Pipe :
                /\ ToldDown(t, g)' <=> ToldDown(t, g) \/ (t = Tok(w) /\ g = left[w])
                /\ ToldForward(t, g)' <=> ToldForward(t, g)
                /\ Entered(t, g)' <=> Entered(t, g)
           /\ ~ToldDown(Tok(w), left[w])
           /\ \A k \in Line : Heads(k)' <=> Heads(k)
<1>1. TypeOK /\ Through /\ LineTask(w) /\ pc[w] = "down" BY DEF IInv, LineTask, Down
<1>2. PICK T \in Nat, q \in Pipe : T = Tok(w) /\ q = left[w] /\ PassedBy(T) = q + 1 /\ q \in Nat
  <2>1. Tok(w) \in Nat /\ left[w] \in Pipe /\ PassedBy(Tok(w)) = left[w] + 1 BY <1>1, CarriedFacts
  <2> QED BY <1>1, <2>1, Basics
<1>3. /\ pc' = [pc EXCEPT ![w] = "forward"] /\ line' = line /\ left' = left
      /\ flow' = flow /\ numTokens' = numTokens /\ shape' = shape /\ scheduled' = scheduled
  BY DEF Down, Goto
<1>4. numLines' = numLines BY <1>3, LinesKept
<1>5. \A t \in Nat : PassedBy(t)' = PassedBy(t) BY <1>3, <1>4 DEF PassedBy
<1>6. \A v \in Worker : Tok(v)' = Tok(v) /\ At(v)' = At(v) /\ left'[v] = left[v] BY <1>3 DEF Tok, At
<1>7. pc'[w] = "forward" /\ \A v \in Worker \ {w} : pc'[v] = pc[v] BY <1>1, <1>3 DEF TypeOK
<1>8. \A v \in Worker \ {w} : pc[v] \in {"work", "down", "forward"} => Tok(v) # T
  <2>1. LineOf(T) = line[w] BY <1>1, <1>2, CarriedFacts
  <2> QED BY <1>1, <1>2, <2>1, AloneFacts DEF Carries
<1>9. ASSUME NEW t \in Nat, NEW g \in Pipe
      PROVE  /\ ToldDown(t, g)' <=> ToldDown(t, g) \/ (t = T /\ g = q)
             /\ ToldForward(t, g)' <=> ToldForward(t, g)
             /\ Entered(t, g)' <=> Entered(t, g)
  <2>1. ToldDown(t, g)' <=> ToldDown(t, g) \/ (t = T /\ g = q)
    BY <1>1, <1>2, <1>5, <1>6, <1>7, <1>8 DEF ToldDown
  <2>2. ToldForward(t, g)' <=> ToldForward(t, g) BY <1>1, <1>5, <1>6, <1>7 DEF ToldForward
  <2>3. Entered(t, g)' <=> Entered(t, g) BY <1>1, <1>5, <1>6, <1>7 DEF Entered
  <2> QED BY <2>1, <2>2, <2>3
<1>10. ~ToldDown(T, q) BY <1>1, <1>2 DEF ToldDown
<1>11. \A k \in Line : Heads(k)' <=> Heads(k) BY <1>1, <1>3, <1>7 DEF Heads
<1> QED BY <1>2, <1>5, <1>9, <1>10, <1>11

\* In a serial pipe, the cell below is the next of its token's, and waits for this one.
LEMMA DownTarget ==
    ASSUME IInv, NEW w \in Worker, pc[w] = "down", meta[left[w]] = SERIAL
    PROVE  /\ IsNext(Tok(w) + 1, left[w]) /\ ~Above(Tok(w) + 1, left[w])
           /\ counter[NextLine(line[w])][left[w]] >= Waits(Tok(w) + 1, left[w])
           /\ Tok(w) + 1 <= numTokens
<1>1. TypeOK BY DEF IInv
<1>2. PICK T \in Nat, q \in Pipe, s \in Nat : T = Tok(w) /\ q = left[w] /\ s = T + 1 BY CarriedFacts
<1>3. LineOf(T) = line[w] /\ PassedBy(T) = q + 1 /\ T < numTokens /\ q \in Nat
      /\ numLines \in Nat \ {0} /\ numTokens \in Nat BY <1>1, <1>2, CarriedFacts, Basics
<1>4. ~ToldDown(T, q) BY <1>2 DEF ToldDown
<1>5. ~Above(s, q)
  <2>1. s # 0 /\ s - 1 = T BY <1>2
  <2> QED BY <1>2, <1>4, <2>1 DEF Above
<1>6. ~Entered(s, q)
  <2>1. T \in 0 .. s - 1 BY <1>2
  <2>2. InOrder(s, q) BY <2>1 DEF IInv, Orders
  <2> QED BY <1>2, <1>4, <2>1, <2>2 DEF InOrder
<1>7. s < numLines \/ Entered(s - numLines, q)
  <2>1. CASE s < numLines BY <2>1
  <2>2. CASE ~(s < numLines)
    <3>1. PICK u \in Nat : u = s - numLines /\ u <= T BY <1>2, <1>3, <2>2
    <3>2. Entered(T, q) BY <1>3 DEF Entered
    <3>3. u = T \/ u \in 0 .. T - 1 BY <3>1
    <3>4. Entered(u, q)
      <4>1. CASE u = T BY <3>2, <4>1
      <4>2. CASE u \in 0 .. T - 1
        <5>1. ToldDown(u, q) BY <1>2, <3>2, <4>2 DEF IInv, Orders, InOrder
        <5> QED BY <5>1, EnteredFacts
      <4> QED BY <3>3, <4>1, <4>2
    <3> QED BY <3>1, <3>4
  <2> QED BY <2>1, <2>2
<1>8. IsNext(s, q) BY <1>6, <1>7 DEF IsNext
<1>9. counter[NextLine(line[w])][q] >= Waits(s, q)
  <2>1. LineOf(s) = NextLine(line[w]) BY <1>1, <1>2, <1>3, LineFacts
  <2> QED BY <1>8, <2>1 DEF IInv, Counts, CountOK
<1> QED BY <1>2, <1>3, <1>5, <1>8, <1>9

\* The invariant is kept by the downward decrement.
LEMMA DownInvariant ==
    ASSUME IInv, NEW w \in Worker, Down(w)
    PROVE  IInv'
<1>1. TypeOK /\ Through /\ LineTask(w) /\ pc[w] = "down" BY DEF IInv, LineTask, Down
<1>2. PICK l \in Lines, n \in Lines, q \in Pipe, T \in Nat :
        l = line[w] /\ n = NextLine(l) /\ q = left[w] /\ T = Tok(w)
  BY <1>1, CarriedFacts, NextLineFacts
<1>3. /\ l \in Line /\ n \in Line /\ q \in Nat /\ LineOf(T) = l /\ LineOf(T + 1) = n
      /\ T < numTokens /\ numTokens \in Nat /\ numLines \in Nat \ {0} /\ T + 1 \in Nat
      /\ counter[n][q] \in Nat
  <2>1. LineOf(T) = l /\ T < numTokens BY <1>1, <1>2, CarriedFacts
  <2>2. LineOf(T + 1) = n BY <1>1, <1>2, <2>1, LineFacts
  <2>3. l \in Line /\ n \in Line /\ q \in Nat /\ numTokens \in Nat /\ numLines \in Nat \ {0}
    BY <1>1, Basics
  <2> QED BY <1>1, <2>1, <2>2, <2>3, Basics
<1>4. /\ pc' = [pc EXCEPT ![w] = "forward"] /\ line' = line /\ left' = left
      /\ flow' = flow /\ numTokens' = numTokens /\ shape' = shape /\ scheduled' = scheduled
      /\ buffer' = buffer /\ running' = running /\ runs' = runs /\ cancelled' = cancelled
      /\ IF meta[q] = SERIAL
         THEN /\ counter' = [counter EXCEPT ![n][q] = @ - 1]
              /\ freed' = [freed EXCEPT ![w] = counter[n][q] = 1]
         ELSE counter' = counter /\ freed' = [freed EXCEPT ![w] = FALSE]
  BY <1>2 DEF Down, Goto, runVars
<1>5. /\ numLines' = numLines /\ meta' = meta /\ Lines' = Lines
      /\ \A t : LineOf(t)' = LineOf(t) /\ NextLine(t)' = NextLine(t) BY <1>4, LinesKept
<1>6. /\ \A t \in Nat : PassedBy(t)' = PassedBy(t)
      /\ \A t \in Nat, g \in Pipe :
           /\ ToldDown(t, g)' <=> ToldDown(t, g) \/ (t = T /\ g = q)
           /\ ToldForward(t, g)' <=> ToldForward(t, g)
           /\ Entered(t, g)' <=> Entered(t, g)
      /\ \A k \in Line : Heads(k)' <=> Heads(k) BY <1>2, DownEffect
<1>7. meta[q] = SERIAL => /\ IsNext(T + 1, q) /\ ~Above(T + 1, q)
                          /\ counter[n][q] >= Waits(T + 1, q) /\ T + 1 <= numTokens
  BY <1>1, <1>2, DownTarget
<1>8a. meta[q] = SERIAL => counter[n][q] >= 1
  <2>1. Waits(T + 1, q) \in {0, 1, 2} /\ (~Above(T + 1, q) => Waits(T + 1, q) >= 1)
    BY <1>3, WaitsFacts
  <2> QED BY <1>3, <1>7, <2>1
<1>8. \A t \in Nat, g \in Pipe :
        /\ Ahead(t, g)' <=> Ahead(t, g)
        /\ Above(t, g)' <=> Above(t, g) \/ (t = T + 1 /\ g = q)
        /\ IsNext(t, g)' <=> IsNext(t, g)
  <2>1. ASSUME NEW t \in Nat, NEW g \in Pipe
        PROVE  /\ Ahead(t, g)' <=> Ahead(t, g)
               /\ Above(t, g)' <=> Above(t, g) \/ (t = T + 1 /\ g = q)
               /\ IsNext(t, g)' <=> IsNext(t, g)
    <3>1. (t < numLines \/ t - numLines \in Nat) /\ (t = 0 \/ t - 1 \in Nat)
          /\ (t = T + 1 <=> t # 0 /\ t - 1 = T) BY <1>3
    <3>2. NumPipes - 1 \in Pipe /\ (g = 0 \/ g - 1 \in Pipe) BY <1>1, Basics DEF Pipe
    <3>3. Ahead(t, g)' <=> Ahead(t, g) BY <1>5, <1>6, <3>1, <3>2 DEF Ahead
    <3>4. Above(t, g)' <=> Above(t, g) \/ (t = T + 1 /\ g = q) BY <1>5, <1>6, <3>1 DEF Above
    <3>5. IsNext(t, g)' <=> IsNext(t, g) BY <1>5, <1>6, <3>1 DEF IsNext
    <3> QED BY <3>3, <3>4, <3>5
  <2> QED BY <2>1
<1>9. \A t \in Nat, g \in Pipe :
        IF t = T + 1 /\ g = q /\ meta[q] = SERIAL
        THEN Waits(t, g)' = Waits(t, g) - 1 /\ Waits(t, g) >= 1
        ELSE Waits(t, g)' = Waits(t, g) /\ (Ready(t, g)' <=> Ready(t, g))
  <2>1. \A t \in Nat, g \in Pipe : meta[g] # SERIAL => Above(t, g) /\ Above(t, g)' BY <1>5 DEF Above
  <2>2. ASSUME NEW t \in Nat, NEW g \in Pipe, ~(t = T + 1 /\ g = q /\ meta[q] = SERIAL)
        PROVE  Waits(t, g)' = Waits(t, g) /\ (Ready(t, g)' <=> Ready(t, g))
    <3>1. Above(t, g)' <=> Above(t, g) BY <1>8, <2>1, <2>2
    <3> QED BY <1>6, <1>8, <3>1 DEF Waits, Ready
  <2>3. ASSUME NEW t \in Nat, NEW g \in Pipe, t = T + 1 /\ g = q /\ meta[q] = SERIAL
        PROVE  Waits(t, g)' = Waits(t, g) - 1 /\ Waits(t, g) >= 1
    <3>1. Above(t, g)' /\ ~Above(t, g) /\ (Ahead(t, g)' <=> Ahead(t, g)) BY <1>7, <1>8, <2>3
    <3> QED BY <3>1 DEF Waits
  <2> QED BY <2>2, <2>3
<1>10. /\ scheduled[l] = 0 /\ running
       /\ \A v \in Worker \ {w} : line[v] # l /\ ~Frees(v, l) /\ pc'[v] = pc[v]
            /\ freed'[v] = freed[v]
            /\ (pc[v] # "idle" => Tok(v)' = Tok(v) /\ At(v)' = At(v))
  BY <1>1, <1>2, <1>4, AloneFacts, Others
<1>11. pc'[w] = "forward" /\ (freed'[w] <=> meta[q] = SERIAL /\ counter[n][q] = 1)
  BY <1>1, <1>4 DEF TypeOK
<1>12. freed'[w] => /\ Ready(T + 1, q)' /\ Ahead(T + 1, q) /\ ~Entered(T + 1, q)
  <2> SUFFICES ASSUME freed'[w]
               PROVE  Ready(T + 1, q)' /\ Ahead(T + 1, q) /\ ~Entered(T + 1, q) OBVIOUS
  <2>1. meta[q] = SERIAL /\ counter[n][q] = 1 BY <1>11
  <2>2. Waits(T + 1, q) >= 1 /\ Waits(T + 1, q) <= 1 /\ ~Above(T + 1, q) /\ IsNext(T + 1, q)
    BY <1>3, <1>7, <1>9, <2>1
  <2>3. Ahead(T + 1, q) BY <2>2 DEF Waits
  <2>4. ~Entered(T + 1, q) BY <2>2 DEF IsNext
  <2> QED BY <1>3, <1>6, <1>8, <2>3, <2>4 DEF Ready
<1>13. freed'[w] => /\ scheduled[n] = 0
                    /\ \A v \in Worker \ {w} : line[v] # n /\ ~Frees(v, n)
  <2> SUFFICES ASSUME freed'[w]
               PROVE  scheduled[n] = 0 /\ \A v \in Worker \ {w} : line[v] # n /\ ~Frees(v, n)
    OBVIOUS
  <2>1. meta[q] = SERIAL /\ T + 1 <= numTokens /\ ~Above(T + 1, q)
        /\ Ahead(T + 1, q) /\ ~Entered(T + 1, q) BY <1>7, <1>11, <1>12
  <2>2. /\ \A v \in Worker : pc[v] \in {"work", "down", "forward"} => line[v] # n
        /\ flow[n].pipe = q
        /\ q = 0 => T + 1 = numTokens
        /\ q > 0 => flow[n].token = T + 1 BY <1>3, <2>1, NobodyThere
  <2>3. ~Heads(n)
    <3> SUFFICES ASSUME Heads(n) PROVE FALSE OBVIOUS
    <3>1. HeadOK(n) BY DEF IInv, HeadsOK
    <3>2. CASE q = 0 BY <2>1, <2>2, <3>1, <3>2 DEF HeadOK, Ready
    <3>3. CASE q # 0 BY <1>3, <2>1, <2>2, <3>1, <3>3 DEF HeadOK, Ready
    <3> QED BY <3>2, <3>3
  <2>4. scheduled[n] = 0 /\ \A v \in Worker : pc[v] = "cell" => line[v] # n
    BY <1>1, <1>3, <2>3 DEF Heads, TypeOK
  <2>5. ASSUME NEW v \in Worker \ {w} PROVE line[v] # n /\ ~Frees(v, n)
    <3>1. line[v] # n
      <4>1. pc[v] = "idle" => line[v] = NoLine BY DEF IInv, Workers, WorkerOK
      <4>2. n # NoLine BY <1>3, PipelineAssumption DEF Line
      <4> QED BY <1>1, <2>2, <2>4, <4>1, <4>2 DEF TypeOK
    <3>2. ~Frees(v, n)
      <4> SUFFICES ASSUME Frees(v, n) PROVE FALSE OBVIOUS
      <4>1. line[v] \in Lines /\ NextLine(line[v]) = n BY CarrierTypes DEF Frees
      <4>2. line[v] = l BY <1>1, <1>2, <4>1, NextLineFacts
      <4> QED BY <1>10, <4>2
    <3> QED BY <3>1, <3>2
  <2> QED BY <2>4, <2>5
<1>14. \A k \in Line, v \in Worker : Frees(v, k)' <=> Frees(v, k) \/ (v = w /\ k = n /\ freed'[w])
  <2>1. \A k \in Line, v \in Worker \ {w} : Frees(v, k)' <=> Frees(v, k)
    BY <1>4, <1>5, <1>10 DEF Frees
  <2>2. \A k \in Line : (Frees(w, k)' <=> k = n /\ freed'[w]) /\ ~Frees(w, k)
    BY <1>1, <1>2, <1>4, <1>5, <1>11 DEF Frees
  <2> QED BY <2>1, <2>2
<1>15. TypeOK'
  <2>1. counter' \in [Line -> [Pipe -> 0 .. 2]]
    <3>1. CASE meta[q] = SERIAL
      <4>1. counter[n][q] \in 0 .. 2 BY <1>1, <1>3 DEF TypeOK
      <4>2. PICK c \in 0 .. 2 : c = counter[n][q] - 1 BY <1>8a, <3>1, <4>1
      <4>3. counter' = [counter EXCEPT ![n][q] = c] BY <1>4, <3>1, <4>2
      <4> QED BY <1>1, <1>3, <4>3 DEF TypeOK
    <3>2. CASE meta[q] # SERIAL BY <1>1, <1>4, <3>2 DEF TypeOK
    <3> QED BY <3>1, <3>2
  <2> QED BY <1>1, <1>4, <1>5, <2>1, Others DEF TypeOK, Metas
<1>16. Resting' /\ TokensThrough' BY <1>4, <1>10 DEF Resting, TokensThrough
<1>17. Through'
  <2>1. ASSUME NEW k \in Lines PROVE LineOK(k)' BY <1>1, <1>4, <1>5, <2>1 DEF Through, LineOK
  <2> QED BY <1>5, <2>1 DEF Through
<1>18. Alones'
  <2>1. ASSUME NEW k \in Line PROVE Alone(k)' /\ (k \notin Lines => flow'[k].pipe = 0)
    <3>1. Alone(k) /\ (k \notin Lines => flow[k].pipe = 0) BY DEF IInv, Alones
    <3>2. CASE k = n /\ freed'[w] BY <1>4, <1>5, <1>13, <1>14, <3>1, <3>2 DEF Alone
    <3>3. CASE ~(k = n /\ freed'[w]) BY <1>4, <1>5, <1>14, <3>1, <3>3 DEF Alone
    <3> QED BY <3>2, <3>3
  <2> QED BY <1>5, <2>1 DEF Alones
<1>19. HeadsOK'
  <2>1. ASSUME NEW k \in Lines PROVE HeadOK(k)'
    <3>1. CASE Heads(k)
      <4>1. flow'[k] = flow[k] BY <1>4
      <4> QED BY <1>4, <1>6, <3>1, <4>1, HeadKept
    <3>2. CASE ~Heads(k)
      <4>1. k \in Line BY <1>1, Basics
      <4> QED BY <1>6, <3>2, <4>1 DEF HeadOK
    <3> QED BY <3>1, <3>2
  <2> QED BY <1>5, <2>1 DEF HeadsOK
<1>20. Workers'
  <2>1. ASSUME NEW v \in Worker \ {w} PROVE WorkerOK(v)'
    <3>1. /\ pc'[v] = pc[v] /\ left'[v] = left[v] /\ line'[v] = line[v] /\ freed'[v] = freed[v]
          /\ pc[v] # "idle" => Tok(v)' = Tok(v) /\ At(v)' = At(v) BY <1>1, Others
    <3> QED BY <1>4, <1>6, <3>1, WorkerKept
  <2>2. WorkerOK(w)'
    <3>1. /\ l \in Lines /\ l < numTokens /\ T < numTokens /\ At(w) = (q + 1) % NumPipes
          /\ l # NoLine
      <4>1. WorkerOK(w) BY DEF IInv, Workers
      <4>2. l # NoLine BY <1>3, PipelineAssumption DEF Line
      <4> QED BY <1>1, <1>2, <1>3, <4>1, <4>2 DEF WorkerOK
    <3>2. Tok(w)' = T /\ At(w)' = At(w) /\ left'[w] = q /\ line'[w] = l BY <1>2, <1>4 DEF Tok, At
    <3>3. freed'[w] => meta[q] = SERIAL /\ Ready(T + 1, q)' BY <1>11, <1>12
    <3> QED BY <1>4, <1>5, <1>11, <3>1, <3>2, <3>3 DEF WorkerOK
  <2> QED BY <2>1, <2>2 DEF Workers
<1>21. Orders' BY <1>5, <1>6, OrdersKept DEF IInv
<1>22. \A t \in Nat, g \in Pipe :
         IsNext(t, g) => IF t = T + 1 /\ g = q /\ meta[q] = SERIAL
                         THEN counter'[LineOf(t)][g] = counter[LineOf(t)][g] - 1
                         ELSE counter'[LineOf(t)][g] = counter[LineOf(t)][g]
  <2>1. ASSUME NEW t \in Nat, NEW g \in Pipe, IsNext(t, g)
        PROVE  IF t = T + 1 /\ g = q /\ meta[q] = SERIAL
               THEN counter'[LineOf(t)][g] = counter[LineOf(t)][g] - 1
               ELSE counter'[LineOf(t)][g] = counter[LineOf(t)][g]
    <3>1. LineOf(t) \in Line BY <1>1, Basics
    <3>2. CASE meta[q] # SERIAL BY <1>4, <3>2
    <3>3. CASE meta[q] = SERIAL /\ t = T + 1 /\ g = q BY <1>1, <1>3, <1>4, <3>3 DEF TypeOK
    <3>4. CASE meta[q] = SERIAL /\ ~(t = T + 1 /\ g = q)
      <4>1. ~(LineOf(t) = n /\ g = q) BY <1>3, <1>7, <2>1, <3>4, NextUnique
      <4> QED BY <1>1, <1>3, <1>4, <3>1, <3>4, <4>1 DEF TypeOK
    <3> QED BY <3>2, <3>3, <3>4
  <2> QED BY <2>1
<1>23. Counts'
  <2>1. ASSUME NEW t \in Nat, NEW g \in Pipe, IsNext(t, g)'
        PROVE  counter'[LineOf(t)][g] >= Waits(t, g)'
    <3>1. IsNext(t, g) /\ counter[LineOf(t)][g] >= Waits(t, g)
      BY <1>8, <2>1 DEF IInv, Counts, CountOK
    <3>2. counter[LineOf(t)][g] \in Nat /\ Waits(t, g) \in {0, 1, 2} BY <1>1, Basics, WaitsFacts
    <3> QED BY <1>9, <1>22, <3>1, <3>2
  <2> QED BY <1>5, <2>1 DEF Counts, CountOK
<1>24. \A t \in Nat, g \in Pipe : Answered(t, g) => Answered(t, g)'
  <2>1. ASSUME NEW t \in Nat, NEW g \in Pipe, Answered(t, g) PROVE Answered(t, g)'
    <3>1. LineOf(t) \in Line BY <1>1, Basics
    <3> QED BY <1>4, <1>5, <1>6, <1>14, <2>1, <3>1 DEF Answered
  <2> QED BY <2>1
<1>25. Exacts'
  <2>1. ASSUME ~cancelled, NEW t \in Nat, NEW g \in Pipe, g > 0, IsNext(t, g)'
        PROVE  counter'[LineOf(t)][g] <= Waits(t, g)' /\ (Ready(t, g)' => Answered(t, g)')
    <3>1. /\ IsNext(t, g) /\ counter[LineOf(t)][g] <= Waits(t, g)
          /\ Ready(t, g) => Answered(t, g) BY <1>8, <2>1 DEF IInv, Exacts, CountExact
    <3>2. counter[LineOf(t)][g] \in Nat /\ Waits(t, g) \in {0, 1, 2} BY <1>1, Basics, WaitsFacts
    <3>3. CASE t = T + 1 /\ g = q /\ meta[q] = SERIAL
      <4>1. counter'[LineOf(t)][g] = counter[LineOf(t)][g] - 1
            /\ Waits(t, g)' = Waits(t, g) - 1 /\ Waits(t, g) >= 1 BY <1>9, <1>22, <3>1, <3>3
      <4>2. ASSUME Ready(t, g)' PROVE Answered(t, g)'
        <5>1. Waits(t, g)' = 0 BY <4>2 DEF Ready, Waits
        <5>2. counter[n][q] <= 1 BY <1>3, <3>1, <3>2, <3>3, <4>1, <5>1
        <5>3. counter[n][q] = 1 BY <1>3, <1>8a, <3>3, <5>2
        <5>4. freed'[w] /\ left'[w] = q BY <1>2, <1>4, <1>11, <3>3, <5>3
        <5>5. Frees(w, LineOf(t))' BY <1>3, <1>5, <1>14, <3>3, <5>4
        <5> QED BY <3>3, <5>4, <5>5 DEF Answered
      <4> QED BY <3>1, <3>2, <4>1, <4>2
    <3>4. CASE ~(t = T + 1 /\ g = q /\ meta[q] = SERIAL)
      <4>1. counter'[LineOf(t)][g] = counter[LineOf(t)][g]
            /\ Waits(t, g)' = Waits(t, g) /\ (Ready(t, g)' <=> Ready(t, g))
        BY <1>9, <1>22, <3>1, <3>4
      <4> QED BY <1>24, <3>1, <4>1
    <3> QED BY <3>3, <3>4
  <2> QED BY <1>4, <1>5, <2>1 DEF Exacts, CountExact
<1> QED BY <1>15, <1>16, <1>17, <1>18, <1>19, <1>20, <1>21, <1>23, <1>25 DEF IInv

-----------------------------------------------------------------------------
(* The forward dependency.                                                   *)

\* The forward decrement tells the next cell of the line, and nothing else.
LEMMA ForwardEffect ==
    ASSUME IInv, NEW w \in Worker, Forward(w)
    PROVE  /\ \A t \in Nat : PassedBy(t)' = PassedBy(t)
           /\ \A t \in Nat, g \in Pipe :
                /\ ToldDown(t, g)' <=> ToldDown(t, g)
                /\ ToldForward(t, g)' <=> ToldForward(t, g) \/ (t = Tok(w) /\ g = left[w])
                /\ Entered(t, g)' <=> Entered(t, g)
<1>1. TypeOK /\ Through /\ LineTask(w) /\ pc[w] = "forward" BY DEF IInv, LineTask, Forward
<1>2. PICK T \in Nat, q \in Pipe : T = Tok(w) /\ q = left[w] /\ PassedBy(T) = q + 1 /\ q \in Nat
  <2>1. Tok(w) \in Nat /\ left[w] \in Pipe /\ PassedBy(Tok(w)) = left[w] + 1 BY <1>1, CarriedFacts
  <2> QED BY <1>1, <2>1, Basics
<1>3. flow' = flow /\ numTokens' = numTokens /\ shape' = shape BY DEF Forward
<1>4. numLines' = numLines BY <1>3, LinesKept
<1>5. \A t \in Nat : PassedBy(t)' = PassedBy(t) BY <1>3, <1>4 DEF PassedBy
<1>6. \A v \in Worker \ {w} : /\ pc'[v] = pc[v] /\ left'[v] = left[v]
                              /\ pc[v] # "idle" => Tok(v)' = Tok(v) /\ At(v)' = At(v)
  BY <1>1, Others
<1>7. pc'[w] \in {"cell", "idle"} BY <1>1 DEF Forward, Goto, TypeOK
<1>8. \A v \in Worker \ {w} : pc[v] \in {"work", "down", "forward"} => Tok(v) # T
  <2>1. LineOf(T) = line[w] BY <1>1, <1>2, CarriedFacts
  <2> QED BY <1>1, <1>2, <2>1, AloneFacts DEF Carries
<1>9. ASSUME NEW t \in Nat, NEW g \in Pipe
      PROVE  /\ ToldDown(t, g)' <=> ToldDown(t, g)
             /\ ToldForward(t, g)' <=> ToldForward(t, g) \/ (t = T /\ g = q)
             /\ Entered(t, g)' <=> Entered(t, g)
  <2>1. ToldDown(t, g)' <=> ToldDown(t, g) BY <1>1, <1>5, <1>6, <1>7 DEF ToldDown
  <2>2. ToldForward(t, g)' <=> ToldForward(t, g) \/ (t = T /\ g = q)
    BY <1>1, <1>2, <1>5, <1>6, <1>7, <1>8 DEF ToldForward
  <2>3. Entered(t, g)' <=> Entered(t, g) BY <1>1, <1>5, <1>6, <1>7 DEF Entered
  <2> QED BY <2>1, <2>2, <2>3
<1> QED BY <1>2, <1>5, <1>9

\* The next cell on the line is the next of its token's, and waits for this one.
LEMMA ForwardTarget ==
    ASSUME IInv, NEW w \in Worker, pc[w] = "forward"
    PROVE  \E l \in Lines, n \in Lines, q \in Pipe, p \in Pipe, T \in Nat, t1 \in Nat :
             /\ l = line[w] /\ n = NextLine(l) /\ q = left[w] /\ T = Tok(w)
             /\ p = IF q = NumPipes - 1 THEN 0 ELSE q + 1
             /\ t1 = IF p = 0 THEN T + numLines ELSE T
             /\ LineOf(T) = l /\ LineOf(t1) = l /\ T < numTokens /\ flow[l].pipe = p
             /\ LineOf(T + 1) = n
             /\ IsNext(t1, p) /\ ~Ahead(t1, p)
             /\ counter[l][p] >= Waits(t1, p) /\ counter[l][p] \in 1 .. 2
             /\ p = 0 /\ Above(t1, 0) => t1 = numTokens
<1>1. TypeOK /\ Through BY DEF IInv
<1>2. PICK l \in Lines, n \in Lines, q \in Pipe, T \in Nat :
        l = line[w] /\ n = NextLine(l) /\ q = left[w] /\ T = Tok(w)
  BY <1>1, CarriedFacts, NextLineFacts
<1>3. LineOf(T) = l /\ T < numTokens /\ numTokens <= T + numLines /\ PassedBy(T) = q + 1
  BY <1>2, CarriedFacts
<1>4. /\ l \in Line /\ q \in Nat /\ q < NumPipes /\ numTokens \in Nat /\ numLines \in Nat \ {0}
      /\ NumPipes \in Nat \ {0} /\ 0 \in Pipe /\ meta[0] = SERIAL BY <1>1, Basics
<1>5. PICK p \in Pipe : p = (q + 1) % NumPipes /\ p = IF q = NumPipes - 1 THEN 0 ELSE q + 1
  BY <1>1, NextPipe
<1>6. flow[l].pipe = p BY <1>2, <1>5 DEF IInv, Workers, WorkerOK, At
<1>7. PICK t1 \in Nat : t1 = IF p = 0 THEN T + numLines ELSE T BY <1>4
<1>8. LineOf(t1) = l /\ LineOf(T + 1) = n BY <1>1, <1>2, <1>3, <1>7, LineFacts
<1>9. ~ToldForward(T, q) BY <1>2 DEF ToldForward
<1>10. \A v \in Worker : pc[v] = "work" => LineOf(Tok(v)) # l
  <2>1. ASSUME NEW v \in Worker, pc[v] = "work" PROVE LineOf(Tok(v)) # l
    <3>1. v # w /\ line[v] = LineOf(Tok(v)) BY <2>1, CarriedFacts
    <3> QED BY <1>2, <3>1, AloneFacts
  <2> QED BY <2>1
<1>11. IsNext(t1, p) /\ ~Ahead(t1, p)
  <2>1. CASE p = 0
    <3>1. t1 = T + numLines /\ ~(t1 < numLines) /\ t1 - numLines = T /\ q = NumPipes - 1
      BY <1>4, <1>5, <1>7, <2>1
    <3>2. Entered(T, p) BY <1>3, <1>4, <2>1 DEF Entered
    <3>3. PassedBy(t1) = 0 BY <1>1, <1>3, <1>4, <3>1, PassedFacts
    <3>4. ~Entered(t1, p) BY <1>8, <1>10, <2>1, <3>3 DEF Entered
    <3> QED BY <1>9, <2>1, <3>1, <3>2, <3>4 DEF IsNext, Ahead
  <2>2. CASE p # 0
    <3>1. t1 = T /\ p = q + 1 /\ p - 1 = q /\ p \in Nat BY <1>4, <1>5, <1>7, <2>2
    <3>2. ~Entered(t1, p) BY <1>3, <1>4, <1>8, <1>10, <3>1 DEF Entered
    <3>3. t1 < numLines \/ Entered(t1 - numLines, p)
      <4>1. CASE t1 < numLines BY <4>1
      <4>2. CASE ~(t1 < numLines)
        <5>1. PICK u \in Nat : u = t1 - numLines /\ u + numLines = T BY <1>4, <3>1, <4>2
        <5>2. PassedBy(u) = NumPipes BY <1>1, <1>3, <5>1, PassedFacts
        <5>3. Entered(u, p) BY <1>1, <1>4, <5>2, Basics DEF Entered
        <5> QED BY <5>1, <5>3
      <4> QED BY <4>1, <4>2
    <3> QED BY <1>9, <2>2, <3>1, <3>2, <3>3 DEF IsNext, Ahead
  <2> QED BY <2>1, <2>2
<1>12. counter[l][p] >= Waits(t1, p) /\ counter[l][p] \in 1 .. 2
  <2>1. counter[l][p] >= Waits(t1, p) /\ counter[l][p] \in 0 .. 2
    BY <1>1, <1>4, <1>8, <1>11 DEF IInv, Counts, CountOK, TypeOK
  <2>2. Waits(t1, p) \in {0, 1, 2} /\ Waits(t1, p) >= 1 BY <1>11, WaitsFacts
  <2> QED BY <2>1, <2>2
<1>13. p = 0 /\ Above(t1, 0) => t1 = numTokens
  <2> SUFFICES ASSUME p = 0, Above(t1, 0) PROVE t1 = numTokens OBVIOUS
  <2>1. PICK s \in Nat : s = t1 - 1 /\ t1 # 0 /\ numTokens <= t1 BY <1>3, <1>4, <1>7
  <2>2. ToldDown(s, 0) BY <1>4, <2>1 DEF Above
  <2>3. PassedBy(s) # 0
    <3>1. PassedBy(s) \in 0 .. NumPipes BY <1>1, PassedFacts
    <3> QED BY <1>4, <2>2, <3>1 DEF ToldDown
  <2>4. s < numTokens BY <1>1, <1>4, <2>3, PassedFacts
  <2> QED BY <1>4, <2>1, <2>4
<1> QED BY <1>2, <1>3, <1>5, <1>6, <1>7, <1>8, <1>11, <1>12, <1>13

\* The invariant is kept by the forward decrement and the choice of the next cell.
LEMMA ForwardInvariant ==
    ASSUME IInv, NEW w \in Worker, Forward(w)
    PROVE  IInv'
<1>1. TypeOK /\ Through /\ LineTask(w) /\ pc[w] = "forward" BY DEF IInv, LineTask, Forward
<1>2. PICK l \in Lines, n \in Lines, q \in Pipe, p \in Pipe, T \in Nat, t1 \in Nat :
        /\ l = line[w] /\ n = NextLine(l) /\ q = left[w] /\ T = Tok(w)
        /\ p = IF q = NumPipes - 1 THEN 0 ELSE q + 1
        /\ t1 = IF p = 0 THEN T + numLines ELSE T
        /\ LineOf(T) = l /\ LineOf(t1) = l /\ T < numTokens /\ flow[l].pipe = p
        /\ LineOf(T + 1) = n
        /\ IsNext(t1, p) /\ ~Ahead(t1, p)
        /\ counter[l][p] >= Waits(t1, p) /\ counter[l][p] \in 1 .. 2
        /\ p = 0 /\ Above(t1, 0) => t1 = numTokens BY <1>1, ForwardTarget
<1>3. /\ l \in Line /\ n \in Line /\ l # NoLine /\ n # NoLine
      /\ numTokens \in Nat /\ numLines \in Nat \ {0} /\ 0 \in Pipe /\ meta[0] = SERIAL
      /\ q \in Nat /\ p \in Nat /\ l \in Nat /\ n \in Nat
  <2>1. l \in Line /\ n \in Line BY <1>1, Basics
  <2>2. l # NoLine /\ n # NoLine BY <2>1, PipelineAssumption DEF Line
  <2> QED BY <1>1, <2>1, <2>2, Basics
<1> DEFINE ahead == counter[l][p] = 1
<1>4. /\ flow' = flow /\ numTokens' = numTokens /\ shape' = shape
      /\ buffer' = buffer /\ running' = running /\ runs' = runs /\ cancelled' = cancelled
      /\ counter' = [counter EXCEPT ![l][p] = @ - 1]
      /\ scheduled' = IF freed[w] /\ ahead THEN [scheduled EXCEPT ![n] = @ + 1] ELSE scheduled
      /\ line' = [line EXCEPT ![w] = IF ahead THEN l ELSE IF freed[w] THEN n ELSE NoLine]
      /\ pc' = [pc EXCEPT ![w] = IF ahead \/ freed[w] THEN "cell" ELSE "idle"]
      /\ freed' = [freed EXCEPT ![w] = FALSE]
      /\ left' = [left EXCEPT ![w] = 0]
  <2>1. p = (left[w] + 1) % NumPipes BY <1>1, <1>2, NextPipe
  <2> QED BY <1>2, <2>1 DEF Forward, Goto, runVars
<1>5. /\ numLines' = numLines /\ meta' = meta /\ Lines' = Lines
      /\ \A t : LineOf(t)' = LineOf(t) /\ NextLine(t)' = NextLine(t) BY <1>4, LinesKept
<1>6. /\ \A t \in Nat : PassedBy(t)' = PassedBy(t)
      /\ \A t \in Nat, g \in Pipe :
           /\ ToldDown(t, g)' <=> ToldDown(t, g)
           /\ ToldForward(t, g)' <=> ToldForward(t, g) \/ (t = T /\ g = q)
           /\ Entered(t, g)' <=> Entered(t, g) BY <1>2, ForwardEffect
<1>7. \A t \in Nat, g \in Pipe :
        /\ Ahead(t, g)' <=> Ahead(t, g) \/ (t = t1 /\ g = p)
        /\ Above(t, g)' <=> Above(t, g)
        /\ IsNext(t, g)' <=> IsNext(t, g)
  <2>1. ASSUME NEW t \in Nat, NEW g \in Pipe
        PROVE  /\ Ahead(t, g)' <=> Ahead(t, g) \/ (t = t1 /\ g = p)
               /\ Above(t, g)' <=> Above(t, g)
               /\ IsNext(t, g)' <=> IsNext(t, g)
    <3>1. (t < numLines \/ t - numLines \in Nat) /\ (t = 0 \/ t - 1 \in Nat) BY <1>3
    <3>2. NumPipes - 1 \in Pipe /\ (g = 0 \/ g - 1 \in Pipe) /\ NumPipes \in Nat /\ g \in Nat
          /\ q < NumPipes /\ g < NumPipes BY <1>1, Basics DEF Pipe
    <3>3. Ahead(t, g)' <=> Ahead(t, g) \/ (t = t1 /\ g = p)
      <4>1. CASE g = 0
        <5>1. t - numLines = T /\ NumPipes - 1 = q /\ ~(t < numLines) <=> t = t1 /\ g = p
          BY <1>2, <1>3, <3>2, <4>1
        <5> QED BY <1>5, <1>6, <3>1, <3>2, <4>1, <5>1 DEF Ahead
      <4>2. CASE g # 0
        <5>1. t = T /\ g - 1 = q <=> t = t1 /\ g = p BY <1>2, <1>3, <3>2, <4>2
        <5> QED BY <1>5, <1>6, <3>1, <3>2, <4>2, <5>1 DEF Ahead
      <4> QED BY <4>1, <4>2
    <3>4. Above(t, g)' <=> Above(t, g) BY <1>5, <1>6, <3>1 DEF Above
    <3>5. IsNext(t, g)' <=> IsNext(t, g) BY <1>5, <1>6, <3>1 DEF IsNext
    <3> QED BY <3>3, <3>4, <3>5
  <2> QED BY <2>1
<1>8. \A t \in Nat, g \in Pipe :
        IF t = t1 /\ g = p
        THEN Waits(t, g)' = Waits(t, g) - 1 /\ Waits(t, g) >= 1
        ELSE Waits(t, g)' = Waits(t, g) /\ (Ready(t, g)' <=> Ready(t, g))
  <2>1. ASSUME NEW t \in Nat, NEW g \in Pipe
        PROVE  IF t = t1 /\ g = p
               THEN Waits(t, g)' = Waits(t, g) - 1 /\ Waits(t, g) >= 1
               ELSE Waits(t, g)' = Waits(t, g) /\ (Ready(t, g)' <=> Ready(t, g))
    BY <1>2, <1>6, <1>7, <2>1 DEF Waits, Ready
  <2> QED BY <2>1
<1>9. /\ scheduled[l] = 0 /\ running
      /\ \A v \in Worker \ {w} : line[v] # l /\ ~Frees(v, l) /\ pc'[v] = pc[v]
           /\ line'[v] = line[v] /\ left'[v] = left[v] /\ freed'[v] = freed[v]
           /\ (pc[v] # "idle" => Tok(v)' = Tok(v) /\ At(v)' = At(v))
  BY <1>1, <1>2, AloneFacts, Others
<1>10. ahead => Ready(t1, p)' /\ (p = 0 => t1 = numTokens)
  <2> SUFFICES ASSUME ahead PROVE Ready(t1, p)' /\ (p = 0 => t1 = numTokens) OBVIOUS
  <2>1. Waits(t1, p) <= 1 /\ Waits(t1, p) \in {0, 1, 2} BY <1>2, WaitsFacts
  <2>2. Above(t1, p) BY <1>2, <2>1 DEF Waits
  <2>3. ~Entered(t1, p) BY <1>2 DEF IsNext
  <2> QED BY <1>2, <1>6, <1>7, <2>2, <2>3 DEF Ready
<1>11. freed[w] => /\ scheduled[n] = 0 /\ n # l
                   /\ \A v \in Worker \ {w} : line[v] # n /\ ~Frees(v, n)
                   /\ Ready(T + 1, q)' /\ meta[q] = SERIAL /\ Ready(T + 1, q)
                   /\ flow[n].pipe = q
                   /\ q = 0 => T + 1 = numTokens
                   /\ q > 0 => T + 1 < numTokens /\ flow[n].token = T + 1
  <2> SUFFICES ASSUME freed[w]
               PROVE  /\ scheduled[n] = 0 /\ n # l
                      /\ \A v \in Worker \ {w} : line[v] # n /\ ~Frees(v, n)
                      /\ Ready(T + 1, q)' /\ meta[q] = SERIAL /\ Ready(T + 1, q)
                      /\ flow[n].pipe = q
                      /\ q = 0 => T + 1 = numTokens
                      /\ q > 0 => T + 1 < numTokens /\ flow[n].token = T + 1 OBVIOUS
  <2>1. PICK s \in Nat : s = T + 1 /\ s <= numTokens BY <1>2, <1>3
  <2>2. Ready(s, q) /\ meta[q] = SERIAL /\ Frees(w, n) BY <1>1, <1>2, <2>1, FreedCell
  <2>3. scheduled[n] = 0 /\ \A v \in Worker \ {w} : line[v] # n /\ ~Frees(v, n)
    BY <1>3, <2>2 DEF IInv, Alones, Alone
  <2>4. LineOf(s) = n BY <1>2, <2>1
  <2>5. /\ \A v \in Worker : pc[v] \in {"work", "down", "forward"} => line[v] # n
        /\ flow[n].pipe = q
        /\ q = 0 => s = numTokens
        /\ q > 0 => s < numTokens /\ flow[n].token = s BY <2>1, <2>2, <2>4, NobodyThere DEF Ready
  <2>6. Ready(s, q)'
    <3>1. Ahead(s, q)' /\ Above(s, q)' /\ ~Entered(s, q)' BY <1>6, <1>7, <2>2 DEF Ready
    <3> QED BY <3>1 DEF Ready
  <2> QED BY <1>1, <1>2, <2>1, <2>2, <2>3, <2>5, <2>6
<1>12. TypeOK'
  <2>1. PICK c \in 0 .. 2 : c = counter[l][p] - 1 BY <1>2
  <2>2. counter' = [counter EXCEPT ![l][p] = c] BY <1>4, <2>1
  <2>3. counter' \in [Line -> [Pipe -> 0 .. 2]] BY <1>1, <1>3, <2>2 DEF TypeOK
  <2>4. scheduled' \in [Line -> Nat]
    <3>1. scheduled[n] + 1 \in Nat BY <1>1, <1>3 DEF TypeOK
    <3> QED BY <1>1, <1>3, <1>4, <3>1 DEF TypeOK
  <2> QED BY <1>1, <1>4, <1>5, <2>3, <2>4, Others DEF TypeOK, Metas
<1>13. Resting' /\ TokensThrough' BY <1>4, <1>9 DEF Resting, TokensThrough
<1>14. Through'
  <2>1. ASSUME NEW k \in Lines PROVE LineOK(k)' BY <1>1, <1>4, <1>5, <2>1 DEF Through, LineOK
  <2> QED BY <1>5, <2>1 DEF Through
<1>15. /\ pc'[w] = IF ahead \/ freed[w] THEN "cell" ELSE "idle"
       /\ line'[w] = IF ahead THEN l ELSE IF freed[w] THEN n ELSE NoLine
       /\ freed'[w] = FALSE /\ left'[w] = 0
       /\ \A k \in Line : scheduled'[k] = IF freed[w] /\ ahead /\ k = n THEN scheduled[k] + 1
                                         ELSE scheduled[k]
  <2>1. pc'[w] = IF ahead \/ freed[w] THEN "cell" ELSE "idle" BY <1>1, <1>4 DEF TypeOK
  <2>2. line'[w] = IF ahead THEN l ELSE IF freed[w] THEN n ELSE NoLine BY <1>1, <1>4 DEF TypeOK
  <2>3. freed'[w] = FALSE /\ left'[w] = 0 BY <1>1, <1>4 DEF TypeOK
  <2>4. \A k \in Line : scheduled'[k] = IF freed[w] /\ ahead /\ k = n THEN scheduled[k] + 1
                                        ELSE scheduled[k] BY <1>1, <1>3, <1>4 DEF TypeOK
  <2> QED BY <2>1, <2>2, <2>3, <2>4
<1>16. \A k \in Line, v \in Worker : /\ Frees(v, k)' <=> Frees(v, k) /\ v # w
                                     /\ Frees(w, k) <=> freed[w] /\ k = n
  <2>1. \A k \in Line, v \in Worker \ {w} : Frees(v, k)' <=> Frees(v, k) BY <1>5, <1>9 DEF Frees
  <2>2. \A k \in Line : ~Frees(w, k)' /\ (Frees(w, k) <=> freed[w] /\ k = n)
    BY <1>1, <1>2, <1>15 DEF Frees
  <2> QED BY <2>1, <2>2
<1>17. Alones'
  <2>1. ASSUME NEW k \in Line PROVE Alone(k)' /\ (k \notin Lines => flow'[k].pipe = 0)
    <3>1. Alone(k) /\ (k \notin Lines => flow[k].pipe = 0) /\ k # NoLine
      BY PipelineAssumption DEF IInv, Alones, Line
    <3>2. CASE k = l
      <4>1. scheduled'[k] = 0 BY <1>3, <1>9, <1>11, <1>15, <3>2
      <4>2. \A v \in Worker \ {w} : line'[v] # k /\ ~Frees(v, k)' BY <1>9, <1>16, <3>2
      <4> QED BY <1>4, <1>5, <1>16, <3>1, <4>1, <4>2 DEF Alone
    <3>3. CASE k = n /\ freed[w]
      <4>1. scheduled[k] = 0 /\ \A v \in Worker \ {w} : line'[v] # k /\ ~Frees(v, k)'
        BY <1>9, <1>11, <1>16, <3>3
      <4>2. CASE ahead
        <5>1. scheduled'[k] = 1 /\ line'[w] # k /\ ~Frees(w, k)'
          BY <1>11, <1>15, <1>16, <3>3, <4>1, <4>2
        <5> QED BY <1>4, <1>5, <3>1, <3>3, <4>1, <5>1 DEF Alone
      <4>3. CASE ~ahead
        <5>1. scheduled'[k] = 0 BY <1>15, <4>1, <4>3
        <5> QED BY <1>4, <1>5, <1>16, <3>1, <4>1, <5>1 DEF Alone
      <4> QED BY <4>2, <4>3
    <3>4. CASE k # l /\ ~(k = n /\ freed[w])
      <4>1. scheduled'[k] = scheduled[k] /\ line'[w] # k /\ line[w] # k BY <1>2, <1>15, <3>1, <3>4
      <4>2. \A v \in Worker : (line'[v] = k <=> line[v] = k) /\ (Frees(v, k)' <=> Frees(v, k))
        BY <1>9, <1>16, <3>4, <4>1
      <4> QED BY <1>4, <1>5, <3>1, <4>1, <4>2 DEF Alone
    <3> QED BY <3>2, <3>3, <3>4
  <2> QED BY <1>5, <2>1 DEF Alones
<1>18. HeadsOK'
  <2>1. ASSUME NEW k \in Lines, Heads(k)' PROVE HeadOK(k)'
    <3>1. k \in Line BY <1>1, Basics
    <3>2. CASE k = l
      <4>1. ahead BY <1>9, <1>11, <1>15, <2>1, <3>1, <3>2 DEF Heads
      <4>2. CASE p = 0
        <5>1. Ready(t1, p)' /\ t1 = numTokens /\ t1 = numTokens' BY <1>4, <1>10, <4>1, <4>2
        <5>2. flow'[k].pipe = 0 /\ LineOf(t1)' = k BY <1>2, <1>4, <1>5, <3>2, <4>2
        <5> QED BY <4>2, <5>1, <5>2 DEF HeadOK, LineOf
      <4>3. CASE p # 0
        <5>1. Ready(t1, p)' /\ t1 = flow'[k].token /\ p = flow'[k].pipe
          BY <1>2, <1>4, <1>10, <3>2, <4>1, <4>3 DEF Tok
        <5>2. k < numTokens'
          <6>1. l <= T BY <1>1, <1>2, LineFacts
          <6> QED BY <1>2, <1>3, <1>4, <3>2, <6>1
        <5> QED BY <4>3, <5>1, <5>2 DEF HeadOK
      <4> QED BY <4>2, <4>3
    <3>3. CASE k = n /\ freed[w]
      <4>1. PICK s \in Nat : s = T + 1 /\ Ready(s, q)' /\ LineOf(s)' = k BY <1>2, <1>5, <1>11, <3>3
      <4>2. CASE q = 0
        <5>1. s = numTokens' /\ flow'[k].pipe = 0 BY <1>4, <1>11, <3>3, <4>1, <4>2
        <5> QED BY <4>1, <4>2, <5>1 DEF HeadOK, LineOf
      <4>3. CASE q # 0
        <5>1. s = flow'[k].token /\ q = flow'[k].pipe /\ s < numTokens'
          BY <1>3, <1>4, <1>11, <3>3, <4>1, <4>3
        <5>2. k <= s BY <1>1, <1>5, <4>1, LineFacts
        <5>3. k < numTokens' BY <1>3, <1>4, <3>3, <5>1, <5>2
        <5> QED BY <4>1, <4>3, <5>1, <5>3 DEF HeadOK
      <4> QED BY <4>2, <4>3
    <3>4. CASE k # l /\ ~(k = n /\ freed[w])
      <4>1. Heads(k) BY <1>3, <1>9, <1>15, <2>1, <3>1, <3>4 DEF Heads
      <4> QED BY <1>4, <1>6, <4>1, HeadKept
    <3> QED BY <3>2, <3>3, <3>4
  <2> QED BY <1>5, <2>1 DEF HeadsOK, HeadOK
<1>19. Workers'
  <2>1. ASSUME NEW v \in Worker \ {w} PROVE WorkerOK(v)' BY <1>4, <1>6, <1>9, WorkerKept
  <2>2. WorkerOK(w)' BY <1>3, <1>5, <1>15 DEF WorkerOK
  <2> QED BY <2>1, <2>2 DEF Workers
<1>20. Orders' BY <1>5, <1>6, OrdersKept DEF IInv
<1>21. \A t \in Nat, g \in Pipe :
         IsNext(t, g) => IF t = t1 /\ g = p
                         THEN counter'[LineOf(t)][g] = counter[LineOf(t)][g] - 1
                         ELSE counter'[LineOf(t)][g] = counter[LineOf(t)][g]
  <2>1. ASSUME NEW t \in Nat, NEW g \in Pipe, IsNext(t, g)
        PROVE  IF t = t1 /\ g = p
               THEN counter'[LineOf(t)][g] = counter[LineOf(t)][g] - 1
               ELSE counter'[LineOf(t)][g] = counter[LineOf(t)][g]
    <3>1. LineOf(t) \in Line BY <1>1, Basics
    <3>2. CASE t = t1 /\ g = p BY <1>1, <1>2, <1>3, <1>4, <3>2 DEF TypeOK
    <3>3. CASE ~(t = t1 /\ g = p)
      <4>1. ~(LineOf(t) = l /\ g = p) BY <1>2, <2>1, <3>3, NextUnique
      <4> QED BY <1>1, <1>3, <1>4, <3>1, <3>3, <4>1 DEF TypeOK
    <3> QED BY <3>2, <3>3
  <2> QED BY <2>1
<1>22. Counts'
  <2>1. ASSUME NEW t \in Nat, NEW g \in Pipe, IsNext(t, g)'
        PROVE  counter'[LineOf(t)][g] >= Waits(t, g)'
    <3>1. IsNext(t, g) /\ counter[LineOf(t)][g] >= Waits(t, g)
      BY <1>7, <2>1 DEF IInv, Counts, CountOK
    <3>2. counter[LineOf(t)][g] \in Nat /\ Waits(t, g) \in {0, 1, 2} BY <1>1, Basics, WaitsFacts
    <3> QED BY <1>8, <1>21, <3>1, <3>2
  <2> QED BY <1>5, <2>1 DEF Counts, CountOK
<1>23. \A t \in Nat, g \in Pipe : Answered(t, g) => Answered(t, g)'
  <2>1. ASSUME NEW t \in Nat, NEW g \in Pipe, Answered(t, g) PROVE Answered(t, g)'
    <3>1. PICK k \in Line : k = LineOf(t) /\ k = LineOf(t)' BY <1>1, <1>5, Basics
    <3>2. Heads(k) => Heads(k)'
      <4>1. scheduled[k] > 0 => scheduled'[k] > 0
        <5>1. scheduled[k] \in Nat BY <1>1 DEF TypeOK
        <5>2. scheduled'[k] = scheduled[k] \/ scheduled'[k] = scheduled[k] + 1 BY <1>15
        <5> QED BY <5>1, <5>2
      <4>2. \A v \in Worker : pc[v] = "cell" /\ line[v] = k => pc'[v] = "cell" /\ line'[v] = k
        BY <1>1, <1>9
      <4> QED BY <4>1, <4>2 DEF Heads
    <3>3. freed[w] /\ k = n => Heads(k)'
      <4>1. CASE ahead BY <1>1, <1>15, <4>1 DEF Heads, TypeOK
      <4>2. CASE ~ahead BY <1>15, <4>2 DEF Heads
      <4> QED BY <4>1, <4>2
    <3>4. ASSUME NEW v \in Worker, Frees(v, k), left[v] = g
          PROVE  Heads(k)' \/ (Frees(v, k)' /\ left'[v] = g) BY <1>9, <1>16, <3>3, <3>4
    <3> QED BY <2>1, <3>1, <3>2, <3>4 DEF Answered
  <2> QED BY <2>1
<1>24. Exacts'
  <2>1. ASSUME ~cancelled, NEW t \in Nat, NEW g \in Pipe, g > 0, IsNext(t, g)'
        PROVE  counter'[LineOf(t)][g] <= Waits(t, g)' /\ (Ready(t, g)' => Answered(t, g)')
    <3>1. /\ IsNext(t, g) /\ counter[LineOf(t)][g] <= Waits(t, g)
          /\ Ready(t, g) => Answered(t, g) BY <1>7, <2>1 DEF IInv, Exacts, CountExact
    <3>2. counter[LineOf(t)][g] \in Nat /\ Waits(t, g) \in {0, 1, 2} BY <1>1, Basics, WaitsFacts
    <3>3. CASE t = t1 /\ g = p
      <4>1. counter'[LineOf(t)][g] = counter[LineOf(t)][g] - 1
            /\ Waits(t, g)' = Waits(t, g) - 1 /\ Waits(t, g) >= 1 BY <1>8, <1>21, <3>1, <3>3
      <4>2. ASSUME Ready(t, g)' PROVE Answered(t, g)'
        <5>1. Waits(t, g)' = 0 BY <4>2 DEF Ready, Waits
        <5>2. counter[l][p] <= 1 BY <1>2, <3>1, <3>2, <3>3, <4>1, <5>1
        <5>3. ahead BY <1>2, <5>2
        <5>4. Heads(l)' BY <1>15, <5>3 DEF Heads
        <5> QED BY <1>2, <1>5, <3>3, <5>4 DEF Answered
      <4> QED BY <3>1, <3>2, <4>1, <4>2
    <3>4. CASE ~(t = t1 /\ g = p)
      <4>1. counter'[LineOf(t)][g] = counter[LineOf(t)][g]
            /\ Waits(t, g)' = Waits(t, g) /\ (Ready(t, g)' <=> Ready(t, g))
        BY <1>8, <1>21, <3>1, <3>4
      <4> QED BY <1>23, <3>1, <4>1
    <3> QED BY <3>3, <3>4
  <2> QED BY <1>4, <1>5, <2>1 DEF Exacts, CountExact
<1> QED BY <1>12, <1>13, <1>14, <1>17, <1>18, <1>19, <1>20, <1>22, <1>24 DEF IInv

-----------------------------------------------------------------------------
(* The steps that move no token.                                             *)

Quiet ==
    /\ flow' = flow /\ numTokens' = numTokens /\ shape' = shape /\ left' = left
    /\ freed' = freed /\ counter' = counter /\ buffer' = buffer
    /\ \A v \in Worker : \/ pc'[v] = pc[v] /\ line'[v] = line[v]
                         \/ pc[v] = "idle" /\ pc'[v] = "cell"

\* Steps that move no token leave what was done with tokens.
LEMMA QuietEffect ==
    ASSUME Quiet
    PROVE  /\ \A t \in Nat : PassedBy(t)' = PassedBy(t)
           /\ \A t \in Nat, g \in Pipe :
                /\ ToldDown(t, g)' <=> ToldDown(t, g)
                /\ ToldForward(t, g)' <=> ToldForward(t, g)
                /\ Entered(t, g)' <=> Entered(t, g)
           /\ \A v \in Worker, k \in Line : Frees(v, k)' <=> Frees(v, k)
<1>1. numLines' = numLines /\ \A t : NextLine(t)' = NextLine(t) BY LinesKept DEF Quiet
<1>2. \A t \in Nat : PassedBy(t)' = PassedBy(t) BY <1>1 DEF PassedBy, Quiet
<1>3. \A v \in Worker : /\ pc'[v] \in {"work", "down", "forward"} <=> pc[v] \in {"work", "down", "forward"}
                        /\ pc[v] \in {"work", "down", "forward"} =>
                             /\ pc'[v] = pc[v] /\ line'[v] = line[v]
                             /\ Tok(v)' = Tok(v) /\ At(v)' = At(v) BY DEF Quiet, Tok, At
<1>4. left' = left /\ freed' = freed BY DEF Quiet
<1>5. ASSUME NEW t \in Nat, NEW g \in Pipe
      PROVE  /\ ToldDown(t, g)' <=> ToldDown(t, g)
             /\ ToldForward(t, g)' <=> ToldForward(t, g)
             /\ Entered(t, g)' <=> Entered(t, g)
  <2>1. ToldDown(t, g)' <=> ToldDown(t, g) BY <1>2, <1>3, <1>4 DEF ToldDown
  <2>2. ToldForward(t, g)' <=> ToldForward(t, g) BY <1>2, <1>3, <1>4 DEF ToldForward
  <2>3. Entered(t, g)' <=> Entered(t, g) BY <1>2, <1>3 DEF Entered
  <2> QED BY <2>1, <2>2, <2>3
<1>6. \A v \in Worker, k \in Line : Frees(v, k)' <=> Frees(v, k) BY <1>1, <1>3, <1>4 DEF Frees
<1> QED BY <1>2, <1>5, <1>6

\* They keep the parts of the invariant that speak of tokens.
LEMMA QuietInvariant ==
    ASSUME IInv, Quiet
    PROVE  /\ Through' /\ Orders' /\ Counts'
           /\ \A v \in Worker : pc'[v] = pc[v] /\ line'[v] = line[v] => WorkerOK(v)'
           /\ \A k \in Lines : Heads(k) => HeadOK(k)'
<1>1. TypeOK /\ Through BY DEF IInv
<1>2. /\ numLines' = numLines /\ meta' = meta /\ Lines' = Lines
      /\ \A t : LineOf(t)' = LineOf(t) /\ NextLine(t)' = NextLine(t) BY LinesKept DEF Quiet
<1>3. Through'
  <2>1. ASSUME NEW k \in Lines PROVE LineOK(k)' BY <1>1, <1>2, <2>1 DEF Through, LineOK, Quiet
  <2> QED BY <1>2, <2>1 DEF Through
<1>4. \A t \in Nat, g \in Pipe :
        /\ ToldDown(t, g)' <=> ToldDown(t, g)
        /\ ToldForward(t, g)' <=> ToldForward(t, g)
        /\ Entered(t, g)' <=> Entered(t, g) BY QuietEffect
<1>5. Orders' BY <1>2, <1>4, OrdersKept DEF IInv
<1>6. Counts' BY <1>4, CountsKept DEF Quiet
<1>7. ASSUME NEW v \in Worker, pc'[v] = pc[v] /\ line'[v] = line[v] PROVE WorkerOK(v)'
  <2>1. Tok(v)' = Tok(v) /\ At(v)' = At(v) BY <1>7 DEF Quiet, Tok, At
  <2> QED BY <1>4, <1>7, <2>1, WorkerKept DEF Quiet
<1>8. ASSUME NEW k \in Lines, Heads(k) PROVE HeadOK(k)' BY <1>4, <1>8, HeadKept DEF Quiet
<1> QED BY <1>3, <1>5, <1>6, <1>7, <1>8

\* The invariant is kept when a worker takes the task of a line.
LEMMA TakeInvariant ==
    ASSUME IInv, NEW w \in Worker, NEW l \in Line, Take(w, l)
    PROVE  IInv'
<1>1. TypeOK /\ Through /\ l # NoLine BY PipelineAssumption DEF IInv, Line
<1>2. /\ pc[w] = "idle" /\ scheduled[l] > 0
      /\ scheduled' = [scheduled EXCEPT ![l] = @ - 1]
      /\ IF cancelled THEN pc' = pc /\ line' = line
         ELSE pc' = [pc EXCEPT ![w] = "cell"] /\ line' = [line EXCEPT ![w] = l]
      /\ flow' = flow /\ numTokens' = numTokens /\ shape' = shape /\ left' = left
      /\ freed' = freed /\ counter' = counter /\ buffer' = buffer
      /\ running' = running /\ runs' = runs /\ cancelled' = cancelled BY DEF Take, Goto, runVars
<1>3. /\ numLines' = numLines /\ meta' = meta /\ Lines' = Lines
      /\ \A t : LineOf(t)' = LineOf(t) /\ NextLine(t)' = NextLine(t) BY <1>2, LinesKept
<1>4. \A v \in Worker \ {w} : pc'[v] = pc[v] /\ line'[v] = line[v] BY <1>1, <1>2 DEF TypeOK
<1>5. IF cancelled THEN pc'[w] = "idle" /\ line'[w] = line[w] ELSE pc'[w] = "cell" /\ line'[w] = l
  BY <1>1, <1>2 DEF TypeOK
<1>6. Quiet BY <1>2, <1>4, <1>5 DEF Quiet
<1>7. /\ l \in Lines /\ scheduled[l] = 1 /\ running
      /\ \A v \in Worker : line[v] # l /\ ~Frees(v, l)
  <2>1. scheduled[l] \in Nat /\ scheduled[l] # 0 BY <1>1, <1>2 DEF TypeOK
  <2> QED BY <1>2, <2>1 DEF IInv, Alones, Alone, Resting
<1>8. /\ scheduled' \in [Line -> Nat] /\ scheduled'[l] = 0
      /\ \A k \in Line : k # l => scheduled'[k] = scheduled[k] BY <1>1, <1>2, <1>7 DEF TypeOK
<1>9. TypeOK' BY ZenonT(60), <1>1, <1>2, <1>3, <1>8 DEF TypeOK, Metas
<1>10. Resting' /\ TokensThrough' BY <1>2, <1>7 DEF Resting, TokensThrough
<1>11. \A v \in Worker, k \in Line : Frees(v, k)' <=> Frees(v, k) BY <1>6, QuietEffect
<1>12. Alones'
  <2>1. ASSUME NEW k \in Line PROVE Alone(k)' /\ (k \notin Lines => flow'[k].pipe = 0)
    <3>1. Alone(k) /\ (k \notin Lines => flow[k].pipe = 0) BY DEF IInv, Alones
    <3>2. CASE k = l BY <1>2, <1>3, <1>4, <1>7, <1>8, <1>11, <3>1, <3>2 DEF Alone
    <3>3. CASE k # l
      <4>1. \A v \in Worker : line'[v] = k => line[v] = k BY <1>4, <1>5, <3>3
      <4> QED BY <1>2, <1>3, <1>8, <1>11, <3>1, <3>3, <4>1 DEF Alone
    <3> QED BY <3>2, <3>3
  <2> QED BY <1>3, <2>1 DEF Alones
<1>13. \A k \in Line : /\ Heads(k)' => Heads(k)
                       /\ ~cancelled /\ Heads(k) => Heads(k)'
  <2>1. ASSUME NEW k \in Line PROVE (Heads(k)' => Heads(k)) /\ (~cancelled /\ Heads(k) => Heads(k)')
    <3>1. CASE k = l
      <4>1. Heads(k) BY <1>2, <3>1 DEF Heads
      <4>2. ~cancelled => Heads(k)' BY <1>5, <3>1 DEF Heads
      <4> QED BY <4>1, <4>2
    <3>2. CASE k # l
      <4>1. \A v \in Worker : pc'[v] = "cell" /\ line'[v] = k <=> pc[v] = "cell" /\ line[v] = k
        BY <1>2, <1>4, <1>5, <3>2
      <4> QED BY <1>8, <3>2, <4>1 DEF Heads
    <3> QED BY <3>1, <3>2
  <2> QED BY <2>1
<1>14. HeadsOK'
  <2>1. ASSUME NEW k \in Lines PROVE HeadOK(k)'
    <3>1. k \in Line BY <1>1, Basics
    <3>2. CASE Heads(k) BY <1>6, <3>2, QuietInvariant
    <3>3. CASE ~Heads(k) BY <1>13, <3>1, <3>3 DEF HeadOK
    <3> QED BY <3>2, <3>3
  <2> QED BY <1>3, <2>1 DEF HeadsOK
<1>15. Workers'
  <2>1. ASSUME NEW v \in Worker \ {w} PROVE WorkerOK(v)' BY <1>4, <1>6, QuietInvariant
  <2>2. WorkerOK(w)'
    <3>1. CASE cancelled BY <1>2, <1>5, <1>6, <3>1, QuietInvariant
    <3>2. CASE ~cancelled
      <4>1. ~freed[w] BY <1>2 DEF IInv, Workers, WorkerOK
      <4> QED BY <1>1, <1>2, <1>3, <1>5, <1>7, <3>2, <4>1 DEF WorkerOK
    <3> QED BY <3>1, <3>2
  <2> QED BY <2>1, <2>2 DEF Workers
<1>16. \A t \in Nat, g \in Pipe : ~cancelled /\ Answered(t, g) => Answered(t, g)'
  <2>1. ASSUME NEW t \in Nat, NEW g \in Pipe, ~cancelled, Answered(t, g) PROVE Answered(t, g)'
    <3>1. PICK k \in Line : k = LineOf(t) /\ k = LineOf(t)' BY <1>1, <1>3, Basics
    <3> QED BY <1>2, <1>11, <1>13, <2>1, <3>1 DEF Answered
  <2> QED BY <2>1
<1>17. Orders' /\ Counts' /\ Through' BY <1>6, QuietInvariant
<1>18. Exacts'
  <2>1. \A t \in Nat, f \in Pipe : /\ ToldDown(t, f)' <=> ToldDown(t, f)
                                   /\ ToldForward(t, f)' <=> ToldForward(t, f)
                                   /\ Entered(t, f)' <=> Entered(t, f) BY <1>6, QuietEffect
  <2> QED BY <1>2, <1>16, <2>1, CountsKept
<1> QED BY <1>9, <1>10, <1>12, <1>14, <1>15, <1>17, <1>18 DEF IInv

\* The invariant is kept when the run is cancelled.
LEMMA CancelInvariant ==
    ASSUME IInv, Cancel
    PROVE  IInv'
<1>1. TypeOK BY DEF IInv
<1>2. /\ running /\ running' = running /\ cancelled' /\ runs' = runs
      /\ scheduled' = scheduled /\ pc' = pc /\ line' = line
      /\ flow' = flow /\ numTokens' = numTokens /\ shape' = shape /\ left' = left
      /\ freed' = freed /\ counter' = counter /\ buffer' = buffer BY DEF Cancel, workerVars
<1>3. /\ numLines' = numLines /\ meta' = meta /\ Lines' = Lines
      /\ \A t : LineOf(t)' = LineOf(t) /\ NextLine(t)' = NextLine(t) BY <1>2, LinesKept
<1>4. Quiet BY <1>2 DEF Quiet
<1>5. TypeOK' BY <1>1, <1>2, <1>3 DEF Cancel, TypeOK, Metas
<1>6. Resting' /\ TokensThrough' BY <1>2 DEF Resting, TokensThrough
<1>7. Alones'
  <2>1. ASSUME NEW k \in Line PROVE Alone(k)' /\ (k \notin Lines => flow'[k].pipe = 0)
    <3>1. Alone(k) /\ (k \notin Lines => flow[k].pipe = 0) BY DEF IInv, Alones
    <3>2. \A v \in Worker : Frees(v, k)' <=> Frees(v, k) BY <1>4, QuietEffect
    <3> QED BY <1>2, <1>3, <3>1, <3>2 DEF Alone
  <2> QED BY <1>3, <2>1 DEF Alones
<1>8. HeadsOK'
  <2>1. ASSUME NEW k \in Lines, Heads(k)' PROVE HeadOK(k)'
    <3>1. Heads(k) BY <1>2, <2>1 DEF Heads
    <3> QED BY <1>4, <3>1, QuietInvariant
  <2> QED BY <1>3, <2>1 DEF HeadsOK, HeadOK
<1>9. Workers' /\ Orders' /\ Counts' /\ Through' BY <1>2, <1>4, QuietInvariant DEF Workers
<1>10. Exacts' BY <1>2 DEF Exacts, CountExact
<1> QED BY <1>5, <1>6, <1>7, <1>8, <1>9, <1>10 DEF IInv

\* The invariant is kept when a run starts at the line of the next token.
LEMMA StartInvariant ==
    ASSUME IInv, Start
    PROVE  IInv'
<1>1. TypeOK /\ Through /\ Resting BY DEF IInv
<1>2. PICK l \in Lines, N \in Nat : l = LineOf(numTokens) /\ N = numTokens BY <1>1, Basics
<1>3. /\ ~running /\ ~cancelled /\ running' = TRUE /\ cancelled' = cancelled
      /\ runs' \in 0 .. MaxRuns
      /\ scheduled' = [scheduled EXCEPT ![l] = @ + 1] /\ pc' = pc /\ line' = line
      /\ flow' = flow /\ numTokens' = numTokens /\ shape' = shape /\ left' = left
      /\ freed' = freed /\ counter' = counter /\ buffer' = buffer
  BY <1>1, <1>2, PipelineAssumption DEF Start, workerVars, LineOf, TypeOK
<1>4. /\ numLines' = numLines /\ meta' = meta /\ Lines' = Lines
      /\ \A t : LineOf(t)' = LineOf(t) /\ NextLine(t)' = NextLine(t) BY <1>3, LinesKept
<1>5. Quiet BY <1>3 DEF Quiet
<1>6. /\ \A k \in Line : scheduled[k] = 0 /\ flow[k].pipe = 0
      /\ \A v \in Worker : pc[v] = "idle" /\ line[v] = NoLine
  BY <1>1, <1>3 DEF Resting, IInv, TokensThrough, Workers, WorkerOK
<1>7. /\ l \in Line /\ numLines \in Nat \ {0} /\ NumPipes \in Nat \ {0} /\ 0 \in Pipe
  BY <1>1, Basics
<1>8. /\ scheduled' \in [Line -> Nat] /\ scheduled'[l] = 1
      /\ \A k \in Line : k # l => scheduled'[k] = 0 BY <1>1, <1>3, <1>6, <1>7 DEF TypeOK
<1>9. TypeOK' BY <1>1, <1>3, <1>4, <1>8 DEF TypeOK, Metas
<1>10. Resting' /\ TokensThrough' BY <1>3 DEF Resting, TokensThrough
<1>11. Alones'
  <2>1. ASSUME NEW k \in Line PROVE Alone(k)' /\ (k \notin Lines => flow'[k].pipe = 0)
    <3>1. k # NoLine /\ \A v \in Worker : ~Frees(v, k)' /\ line'[v] # k
      BY <1>3, <1>6, PipelineAssumption DEF Line, Frees
    <3>2. scheduled'[k] <= 1 /\ (k \notin Lines => scheduled'[k] = 0) BY <1>2, <1>8
    <3> QED BY <1>3, <1>4, <1>6, <3>1, <3>2 DEF Alone
  <2> QED BY <1>4, <2>1 DEF Alones
<1>12. \A t \in Nat : t < N => PassedBy(t) = NumPipes
  <2>1. ASSUME NEW t \in Nat, t < N PROVE PassedBy(t) = NumPipes
    <3>1. flow[LineOf(t)].pipe = 0 BY <1>1, <1>6, Basics
    <3> QED BY <1>1, <1>2, <2>1, <3>1, PassedFacts
  <2> QED BY <2>1
<1>13. \A t \in Nat, g \in Pipe : t < N => ToldForward(t, g) /\ ToldDown(t, g)
  BY <1>1, <1>6, <1>7, <1>12, Basics DEF ToldForward, ToldDown
<1>14. Ready(N, 0)
  <2>1. ~Entered(N, 0)
    <3>1. PassedBy(N) = 0 BY <1>1, <1>2, PassedFacts
    <3> QED BY <1>6, <3>1 DEF Entered
  <2>2. Ahead(N, 0)
    <3>1. NumPipes - 1 \in Pipe /\ (N < numLines \/ (N - numLines \in Nat /\ N - numLines < N))
      BY <1>7 DEF Pipe
    <3> QED BY <1>13, <3>1 DEF Ahead
  <2>3. Above(N, 0)
    <3>1. N = 0 \/ (N - 1 \in Nat /\ N - 1 < N) BY <1>2
    <3> QED BY <1>7, <1>13, <3>1 DEF Above
  <2> QED BY <2>1, <2>2, <2>3 DEF Ready
<1>15. Ready(N, 0)'
  <2>1. Ahead(N, 0)' /\ Above(N, 0)' /\ ~Entered(N, 0)'
    BY <1>1, <1>3, <1>5, <1>7, <1>14, QuietEffect, MoreTold DEF Ready
  <2> QED BY <2>1 DEF Ready
<1>16. HeadsOK'
  <2>1. ASSUME NEW k \in Lines, Heads(k)' PROVE HeadOK(k)'
    <3>1. k \in Line BY <1>1, Basics
    <3>2. k = l BY <1>3, <1>6, <1>8, <2>1, <3>1 DEF Heads
    <3>3. flow'[k].pipe = 0 /\ k = LineOf(N)' /\ N = numTokens'
      BY <1>2, <1>3, <1>4, <1>6, <3>1, <3>2
    <3> QED BY <1>15, <3>3 DEF HeadOK, LineOf
  <2> QED BY <1>4, <2>1 DEF HeadsOK, HeadOK
<1>17. Workers' /\ Orders' /\ Counts' /\ Through' BY <1>3, <1>5, QuietInvariant DEF Workers
<1>18. Exacts'
  <2>1. \A t \in Nat, f \in Pipe : /\ ToldDown(t, f)' <=> ToldDown(t, f)
                                   /\ ToldForward(t, f)' <=> ToldForward(t, f)
                                   /\ Entered(t, f)' <=> Entered(t, f) BY <1>5, QuietEffect
  <2>2. \A t \in Nat, f \in Pipe : ~Answered(t, f)
    <3>1. ASSUME NEW t \in Nat PROVE LineOf(t) \in Line BY <1>1, Basics
    <3> QED BY <1>6, <3>1 DEF Answered, Heads, Frees
  <2> QED BY <1>3, <2>1, <2>2, CountsKept
<1> QED BY <1>9, <1>10, <1>11, <1>16, <1>17, <1>18 DEF IInv

\* A run that is over undisturbed has brought every token through: the least that were
\* left behind would be ready, and nobody would be there to take it on.
LEMMA EndInvariant ==
    ASSUME IInv, End
    PROVE  IInv'
<1>1. TypeOK /\ Through BY DEF IInv
<1>2. /\ running /\ running' = FALSE /\ cancelled' = cancelled /\ runs' = runs
      /\ scheduled' = scheduled /\ pc' = pc /\ line' = line
      /\ flow' = flow /\ numTokens' = numTokens /\ shape' = shape /\ left' = left
      /\ freed' = freed /\ counter' = counter /\ buffer' = buffer
      /\ \A k \in Line : scheduled[k] = 0
      /\ \A v \in Worker : pc[v] = "idle" BY DEF End, workerVars
<1>3. /\ numLines' = numLines /\ meta' = meta /\ Lines' = Lines
      /\ \A t : LineOf(t)' = LineOf(t) /\ NextLine(t)' = NextLine(t) BY <1>2, LinesKept
<1>4. Quiet BY <1>2 DEF Quiet
<1>5. TypeOK' BY <1>1, <1>2, <1>3 DEF TypeOK, Metas
<1>6. Resting' BY <1>2 DEF Resting
<1>7. \A k \in Line : ~Heads(k)' /\ ~Heads(k) /\ \A v \in Worker : ~Frees(v, k) /\ ~Frees(v, k)'
  BY <1>2 DEF Heads, Frees
<1>8. Alones'
  <2>1. ASSUME NEW k \in Line PROVE Alone(k)' /\ (k \notin Lines => flow'[k].pipe = 0)
    <3>1. Alone(k) /\ (k \notin Lines => flow[k].pipe = 0) BY DEF IInv, Alones
    <3> QED BY <1>2, <1>3, <1>7, <3>1 DEF Alone
  <2> QED BY <1>3, <2>1 DEF Alones
<1>9. HeadsOK'
  <2>1. \A k \in Lines : k \in Line BY <1>1, Basics
  <2> QED BY <1>3, <1>7, <2>1 DEF HeadsOK, HeadOK
<1>10. Workers' /\ Orders' /\ Counts' /\ Through' BY <1>2, <1>4, QuietInvariant DEF Workers
<1>11. \A t \in Nat, f \in Pipe : ~Answered(t, f)
  <2>1. \A t \in Nat : LineOf(t) \in Line BY <1>1, Basics
  <2> QED BY <1>7, <2>1 DEF Answered
<1>12. Exacts'
  <2>1. \A t \in Nat, f \in Pipe : /\ ToldDown(t, f)' <=> ToldDown(t, f)
                                   /\ ToldForward(t, f)' <=> ToldForward(t, f)
                                   /\ Entered(t, f)' <=> Entered(t, f) BY <1>4, QuietEffect
  <2> QED BY <1>2, <1>11, <2>1, CountsKept
<1>13. ASSUME ~cancelled, NEW k \in Line PROVE flow[k].pipe = 0
  <2> SUFFICES ASSUME flow[k].pipe # 0 PROVE FALSE OBVIOUS
  <2>1. k \in Lines BY DEF IInv, Alones
  <2>2. numTokens \in Nat /\ numLines \in Nat \ {0} /\ NumPipes \in Nat \ {0}
        /\ flow[k].pipe \in Pipe /\ flow[k].token \in Nat BY <1>1, Basics
  <2> DEFINE Behind == {t \in Nat : t < numTokens /\ PassedBy(t) # NumPipes}
  <2>3. flow[k].token \in Behind
    <3>1. flow[k].pipe > 0 /\ flow[k].pipe < NumPipes BY <2>2 DEF Pipe
    <3> QED BY <1>1, <2>1, <2>2, <3>1, PassedFacts
  <2>4. PICK t \in Behind : \A u \in Behind : t <= u
    <3>1. Behind \in SUBSET Nat /\ Behind # {} BY <2>3
    <3> HIDE DEF Behind
    <3> QED BY <3>1, LeastNumber
  <2>5. t \in Nat /\ t < numTokens /\ PassedBy(t) # NumPipes BY <2>4
  <2>6. \A u \in Nat : u < t => PassedBy(u) = NumPipes
    <3>1. ASSUME NEW u \in Nat, u < t, PassedBy(u) # NumPipes PROVE FALSE
      <4>1. u \in Behind BY <2>2, <2>5, <3>1
      <4>2. t <= u BY <2>4, <4>1
      <4> QED BY <2>5, <3>1, <4>2
    <3> QED BY <3>1
  <2> HIDE DEF Behind
  <2>7. PICK f \in Pipe : f = PassedBy(t) /\ f > 0 /\ f \in Nat /\ f < NumPipes
    <3>1. PassedBy(t) \in 0 .. NumPipes /\ PassedBy(t) # 0 BY <1>1, <2>2, <2>5, PassedFacts
    <3> QED BY <2>2, <2>5, <3>1 DEF Pipe
  <2>8. \A u \in Nat, g \in Pipe : /\ Entered(u, g) <=> PassedBy(u) > g
                                   /\ ToldDown(u, g) <=> PassedBy(u) > g
                                   /\ ToldForward(u, g) <=> PassedBy(u) > g
    BY <1>2 DEF Entered, ToldDown, ToldForward
  <2>9. IsNext(t, f) /\ ~Entered(t, f)
    <3>1. t < numLines \/ (t - numLines \in Nat /\ t - numLines < t) BY <2>2, <2>5
    <3>2. ~Entered(t, f) BY <2>5, <2>7, <2>8
    <3> QED BY <2>6, <2>7, <2>8, <3>1, <3>2 DEF IsNext
  <2>10. Ahead(t, f)
    <3>1. f # 0 /\ f - 1 \in Pipe /\ f > f - 1 BY <2>2, <2>7 DEF Pipe
    <3> QED BY <2>5, <2>7, <2>8, <3>1 DEF Ahead
  <2>11. Above(t, f)
    <3>1. t = 0 \/ (t - 1 \in Nat /\ t - 1 < t) BY <2>5
    <3> QED BY <2>6, <2>7, <2>8, <3>1 DEF Above
  <2>12. Answered(t, f) BY <1>13, <2>5, <2>7, <2>9, <2>10, <2>11 DEF IInv, Exacts, CountExact, Ready
  <2> QED BY <1>11, <2>5, <2>12
<1>14. TokensThrough' BY <1>2, <1>13 DEF TokensThrough
<1> QED BY <1>5, <1>6, <1>8, <1>9, <1>10, <1>12, <1>14 DEF IInv

-----------------------------------------------------------------------------
(* The pipeline before its first token.                                      *)

Fresh ==
    /\ TypeOK /\ counter = ResetCounters(meta) /\ numTokens = 0 /\ ~running
    /\ \A l \in Line : flow[l].pipe = 0 /\ scheduled[l] = 0
    /\ \A w \in Worker : pc[w] = "idle" /\ line[w] = NoLine /\ ~freed[w]

\* A pipeline before its first token is in the invariant.
LEMMA FreshInvariant ==
    ASSUME Fresh
    PROVE  IInv
<1>1. TypeOK BY DEF Fresh
<1>2. /\ numLines \in Nat \ {0} /\ NumPipes \in Nat \ {0} /\ Lines \subseteq Line /\ 0 \in Pipe
      /\ meta[0] = SERIAL /\ \A f \in Pipe : f \in Nat /\ meta[f] \in {SERIAL, PARALLEL}
      /\ \A l \in Line : l \in Nat
      /\ \A t \in Nat : LineOf(t) \in Line BY <1>1, Basics
<1>3. \A t \in Nat, f \in Pipe : PassedBy(t) = 0 /\ ~Entered(t, f) /\ ~ToldDown(t, f) /\ ~ToldForward(t, f)
  <2>1. \A t \in Nat : PassedBy(t) = 0 BY DEF Fresh, PassedBy
  <2> QED BY <1>2, <2>1 DEF Fresh, Entered, ToldDown, ToldForward
<1>4. \A l \in Line : ~Heads(l) /\ \A w \in Worker : ~Frees(w, l) BY DEF Fresh, Heads, Frees
<1>5. Resting /\ TokensThrough BY DEF Fresh, Resting, TokensThrough
<1>6. Through
  <2>1. ASSUME NEW l \in Lines PROVE LineOK(l)
    <3>1. flow[l].pipe = 0 /\ l \in Nat /\ numTokens = 0 BY <1>2 DEF Fresh
    <3> QED BY <3>1 DEF LineOK
  <2> QED BY <2>1 DEF Through
<1>7. Alones
  <2>1. ASSUME NEW l \in Line PROVE Alone(l) /\ (l \notin Lines => flow[l].pipe = 0)
    BY <1>4, PipelineAssumption DEF Fresh, Alone, Line
  <2> QED BY <2>1 DEF Alones
<1>8. HeadsOK BY <1>2, <1>4 DEF HeadsOK, HeadOK
<1>9. Workers BY DEF Fresh, Workers, WorkerOK
<1>10. Orders BY <1>3 DEF Orders, InOrder
<1>11. ASSUME NEW t \in Nat, NEW f \in Pipe, IsNext(t, f)
       PROVE  counter[LineOf(t)][f] = Waits(t, f) /\ (f > 0 => ~Ready(t, f))
  <2>1. t < numLines
    <3>1. t < numLines \/ t - numLines \in Nat BY <1>2
    <3> QED BY <1>3, <1>11, <3>1 DEF IsNext
  <2>2. LineOf(t) = t /\ t \in Line BY <1>1, <1>2, <2>1, LineFacts
  <2>3. counter[t][f] = IF t = 0 THEN (IF f = 0 THEN 0 ELSE 1)
                        ELSE IF f = 0 THEN meta[f] - 1 ELSE meta[f] BY <2>2 DEF Fresh, ResetCounters
  <2>4. Ahead(t, f) <=> f = 0
    <3>1. f = 0 \/ f - 1 \in Pipe BY <1>2 DEF Pipe
    <3> QED BY <1>3, <2>1, <3>1 DEF Ahead
  <2>5. Above(t, f) <=> (meta[f] = SERIAL => t = 0)
    <3>1. t = 0 \/ t - 1 \in Nat OBVIOUS
    <3> QED BY <1>3, <3>1 DEF Above
  <2>6. meta[f] \in {1, 2} /\ SERIAL = 2 /\ (f = 0 => meta[f] = 2) BY <1>2 DEF SERIAL, PARALLEL
  <2>7. Waits(t, f) = (IF f = 0 THEN 0 ELSE 1) + (IF meta[f] = 2 /\ t # 0 THEN 1 ELSE 0)
    BY <2>4, <2>5, <2>6 DEF Waits
  <2>8. counter[t][f] = Waits(t, f) BY <2>3, <2>6, <2>7
  <2>9. f > 0 => ~Ready(t, f) BY <2>4 DEF Ready
  <2> QED BY <2>2, <2>8, <2>9
<1>12. Counts
  <2>1. \A t \in Nat, f \in Pipe : Waits(t, f) \in {0, 1, 2} BY WaitsFacts
  <2> QED BY <1>11, <2>1 DEF Counts, CountOK
<1>13. Exacts
  <2>1. \A t \in Nat, f \in Pipe : Waits(t, f) \in {0, 1, 2} BY WaitsFacts
  <2> QED BY <1>11, <2>1 DEF Exacts, CountExact
<1> QED BY <1>1, <1>5, <1>6, <1>7, <1>8, <1>9, <1>10, <1>12, <1>13 DEF IInv

\* The counters that reset() sets are at most two.
LEMMA ResetCountersType ==
    ASSUME NEW m \in Metas
    PROVE  ResetCounters(m) \in [Line -> [Pipe -> 0 .. 2]]
<1>1. m \in [Pipe -> {SERIAL, PARALLEL}] BY DEF Metas
<1>2. ASSUME NEW l \in Line, NEW f \in Pipe
      PROVE  (IF l = 0 THEN (IF f = 0 THEN 0 ELSE 1)
              ELSE IF f = 0 THEN m[f] - 1 ELSE m[f]) \in 0 .. 2
  <2>1. m[f] \in {1, 2} BY <1>1 DEF SERIAL, PARALLEL
  <2> QED BY <2>1
<1> QED BY <1>2 DEF ResetCounters

\* The constructor makes a pipeline before its first token.
LEMMA InitFresh == Init => Fresh
<1> SUFFICES ASSUME Init PROVE Fresh OBVIOUS
<1>1. /\ MaxLines \in Nat \ {0} /\ NumPipes \in Nat \ {0} /\ MaxTokens \in Nat /\ MaxRuns \in Nat
      /\ 0 \in Pipe /\ 0 \in 0 .. MaxTokens /\ 0 \in 0 .. MaxRuns /\ NumPipes \in 0 .. NumPipes
  BY PipelineAssumption DEF Pipe
<1>2. counter \in [Line -> [Pipe -> 0 .. 2]] BY ResetCountersType DEF Init
<1>3. flow \in [Line -> [pipe : Pipe, token : 0 .. MaxTokens]]
      /\ buffer \in [Line -> [token : 0 .. MaxTokens, pipe : 0 .. NumPipes]] BY <1>1 DEF Init
<1>4. TypeOK BY <1>1, <1>2, <1>3 DEF Init, TypeOK
<1> QED BY <1>4 DEF Init, Fresh

\* So does reset(), whatever an earlier run left in the counters.
LEMMA ResetFresh ==
    ASSUME IInv, Reset
    PROVE  Fresh'
<1>1. TypeOK /\ Resting /\ Workers BY DEF IInv
<1>2. /\ ~running /\ running' = running /\ cancelled' = FALSE /\ runs' = runs
      /\ numLines' \in 1 .. MaxLines /\ meta' \in Metas /\ numTokens' = 0
      /\ flow' = [l \in Line |-> [flow[l] EXCEPT !.pipe = 0]]
      /\ counter' = ResetCounters(meta')
      /\ buffer' = buffer /\ scheduled' = scheduled /\ pc' = pc /\ line' = line
      /\ left' = left /\ freed' = freed BY DEF Reset, workerVars
<1>3. 0 \in Pipe /\ 0 \in 0 .. MaxTokens BY <1>1, Basics, PipelineAssumption
<1>4. counter' \in [Line -> [Pipe -> 0 .. 2]] BY <1>2, ResetCountersType
<1>5. flow' \in [Line -> [pipe : Pipe, token : 0 .. MaxTokens]] /\ \A l \in Line : flow'[l].pipe = 0
  BY ZenonT(60), <1>1, <1>2, <1>3 DEF TypeOK
<1>6. TypeOK' BY <1>1, <1>2, <1>3, <1>4, <1>5 DEF TypeOK
<1>7. \A w \in Worker : pc[w] = "idle" /\ line[w] = NoLine /\ ~freed[w]
  BY <1>1, <1>2 DEF Resting, Workers, WorkerOK
<1>8. \A l \in Line : scheduled[l] = 0 BY <1>1, <1>2 DEF Resting
<1>9. counter' = ResetCounters(meta)' BY <1>2 DEF ResetCounters
<1> QED BY <1>2, <1>5, <1>6, <1>7, <1>8, <1>9 DEF Fresh

-----------------------------------------------------------------------------
(* The theorems.                                                             *)

\* The invariant is kept by stuttering.
LEMMA StutterInvariant ==
    ASSUME IInv, UNCHANGED vars
    PROVE  IInv'
<1>1. /\ Quiet /\ running' = running /\ cancelled' = cancelled /\ runs' = runs
      /\ scheduled' = scheduled /\ pc' = pc /\ line' = line
      /\ numLines' = numLines /\ meta' = meta BY DEF vars, workerVars, runVars, shape, Quiet
<1>2. TypeOK /\ Lines' = Lines /\ \A t : LineOf(t)' = LineOf(t) BY <1>1 DEF IInv, Lines, LineOf
<1>3. TypeOK' BY <1>1, <1>2 DEF TypeOK, Metas, Quiet
<1>4. Resting' /\ TokensThrough' BY <1>1 DEF IInv, Resting, TokensThrough, Quiet
<1>5. Workers' /\ Orders' /\ Counts' /\ Through' BY <1>1, QuietInvariant DEF Workers
<1>6. \A k \in Line : /\ Heads(k)' <=> Heads(k)
                      /\ \A v \in Worker : Frees(v, k)' <=> Frees(v, k)
  BY <1>1, QuietEffect DEF Heads
<1>7. Alones'
  <2>1. ASSUME NEW k \in Line PROVE Alone(k)' /\ (k \notin Lines => flow'[k].pipe = 0)
    <3>1. Alone(k) /\ (k \notin Lines => flow[k].pipe = 0) BY DEF IInv, Alones
    <3> QED BY <1>1, <1>2, <1>6, <3>1 DEF Alone, Quiet
  <2> QED BY <1>2, <2>1 DEF Alones
<1>8. HeadsOK'
  <2>1. ASSUME NEW k \in Lines, Heads(k)' PROVE HeadOK(k)'
    <3>1. Heads(k) BY <1>1, <2>1 DEF Heads
    <3> QED BY <1>1, <3>1, QuietInvariant
  <2> QED BY <1>2, <2>1 DEF HeadsOK, HeadOK
<1>9. Exacts'
  <2>1. \A t \in Nat, f \in Pipe : /\ ToldDown(t, f)' <=> ToldDown(t, f)
                                   /\ ToldForward(t, f)' <=> ToldForward(t, f)
                                   /\ Entered(t, f)' <=> Entered(t, f) BY <1>1, QuietEffect
  <2>2. \A t \in Nat, f \in Pipe : Answered(t, f) => Answered(t, f)'
    <3>1. \A t \in Nat : LineOf(t) \in Line BY <1>2, Basics
    <3> QED BY <1>1, <1>2, <1>6, <3>1 DEF Answered, Quiet
  <2> QED BY <1>1, <2>1, <2>2, CountsKept DEF Quiet
<1> QED BY <1>3, <1>4, <1>5, <1>7, <1>8, <1>9 DEF IInv

\* The invariant holds at first.
LEMMA Initially == Init => IInv BY InitFresh, FreshInvariant

\* A step to a pipeline before its first token is a step to the invariant.
LEMMA FreshNext == (Fresh => IInv)'
<1>1. Fresh => IInv BY FreshInvariant
<1> QED BY <1>1, PTL

\* Every step keeps the invariant.
LEMMA Inductive == IInv /\ [Next]_vars => IInv'
<1> SUFFICES ASSUME IInv, [Next]_vars PROVE IInv' OBVIOUS
<1>1. CASE Start BY <1>1, StartInvariant
<1>2. CASE End BY <1>2, EndInvariant
<1>3. CASE Reset BY <1>3, ResetFresh, FreshNext
<1>4. CASE Cancel BY <1>4, CancelInvariant
<1>5. ASSUME NEW w \in Worker, NEW l \in Line, Take(w, l) PROVE IInv' BY <1>5, TakeInvariant
<1>6. ASSUME NEW w \in Worker, LineTask(w) PROVE IInv'
  BY <1>6, CellInvariant, WorkInvariant, WithdrawInvariant, DownInvariant, ForwardInvariant
     DEF LineTask, Callable
<1>7. CASE UNCHANGED vars BY <1>7, StutterInvariant
<1> QED BY <1>1, <1>2, <1>3, <1>4, <1>5, <1>6, <1>7 DEF Next, Step

\* The invariant implies what the run checks.
LEMMA Suffices == IInv => Consistent
<1> SUFFICES ASSUME IInv PROVE Consistent OBVIOUS
<1>1. TypeOK /\ TokensThrough BY DEF IInv
<1>2. OneCarrier
  <2>1. ASSUME NEW l \in Line
        PROVE  /\ scheduled[l] <= 1
               /\ \A w \in Worker : line[w] = l =>
                     scheduled[l] = 0 /\ \A v \in Worker \ {w} : line[v] # l
    <3>1. Alone(l) BY DEF IInv, Alones
    <3> QED BY <3>1 DEF Alone
  <2> QED BY <2>1 DEF OneCarrier
<1>3. HandedOn
  <2>1. ASSUME NEW w \in Worker, pc[w] \in {"cell", "work"}, flow[line[w]].pipe > 0
        PROVE  buffer[line[w]] = [token |-> flow[line[w]].token, pipe |-> flow[line[w]].pipe - 1]
    <3>1. line[w] \in Lines BY <2>1, CarrierTypes
    <3>2. LineOK(line[w]) BY <3>1 DEF IInv, Through
    <3> QED BY <2>1, <3>2 DEF LineOK
  <2> QED BY <2>1 DEF HandedOn
<1> QED BY <1>1, <1>2, <1>3 DEF Consistent

\* A line has one carrier, although a worker may go on with the line below and the node
\* of a line may run twice at a time; an undisturbed run leaves no token in the middle of
\* its line; and a pipe finds in its line's buffer what the pipe before it returned for the
\* same token: over stops, exceptions, cancellations, resets and later runs
\* (algorithm/pipeline.h, _build and reset; algorithm/data_pipeline.h, _on_pipe).
THEOREM PipelineConsistent == Spec => []Consistent BY Initially, Inductive, Suffices, PTL DEF Spec

-----------------------------------------------------------------------------
(* The scheduler implements the flow of tokens.                              *)

Passed == [t \in Token |-> PassedBy(t)]
Inside == {flow[line[w]].token : w \in {v \in Worker : pc[v] = "work"}}

\* The tokens in callables are those of the workers at work.
LEMMA InsideIs == \A x : x \in Inside <=> \E w \in Worker : pc[w] = "work" /\ Tok(w) = x
  BY DEF Inside, Tok

\* The same after a step.
LEMMA InsideNext == (\A x : x \in Inside <=> \E w \in Worker : pc[w] = "work" /\ Tok(w) = x)'
<1>1. \A x : x \in Inside <=> \E w \in Worker : pc[w] = "work" /\ Tok(w) = x BY InsideIs
<1> QED BY <1>1, PTL

\* A callable of a serial pipe is called for the tokens in order.
LEMMA Turns ==
    ASSUME IInv, NEW t \in Nat, NEW f \in Pipe, Ready(t, f), meta[f] = SERIAL, NEW u \in Nat, u < t
    PROVE  PassedBy(u) > f
<1>1. t - 1 \in Nat /\ ToldDown(t - 1, f) BY DEF Ready, Above
<1>2. PICK s \in Nat : s = t - 1 /\ ToldDown(s, f) BY <1>1
<1>3. Entered(s, f) BY <1>2, EnteredFacts
<1>4. u = s \/ u \in 0 .. s - 1 BY <1>2
<1>5. ToldDown(u, f) BY <1>2, <1>3, <1>4 DEF IInv, Orders, InOrder
<1> QED BY <1>5, EnteredFacts

\* Entering a cell calls the next callable for a token whose turn it is.
LEMMA CellEnters ==
    ASSUME IInv, NEW w \in Worker, Cell(w)
    PROVE  \E t \in Token : Flow!Enter(t)
<1>1. TypeOK /\ Through /\ LineTask(w) BY DEF IInv, LineTask
<1>2. PICK T \in Nat, f \in Pipe : /\ Tok(w)' = T /\ f = At(w) /\ LineOf(T) = line[w] /\ Ready(T, f)
                                   /\ f = 0 => T = numTokens
                                   /\ f > 0 => T = Tok(w) /\ T < numTokens BY CellToken
<1>3. /\ numLines \in Nat \ {0} /\ NumPipes \in Nat \ {0} /\ f \in Nat /\ f < NumPipes
      /\ numTokens \in 0 .. MaxTokens /\ numTokens \in Nat BY <1>1, Basics DEF TypeOK
<1>4. T \in Token /\ \A t \in Token : t \in Nat BY <1>2, <1>3, PipelineAssumption DEF Token
<1>5. PassedBy(T) = f
  <2>1. CASE f = 0 BY <1>1, <1>2, <1>3, <2>1, PassedFacts
  <2>2. CASE f # 0
    BY <1>1, <1>2, <1>3, <2>2, PassedFacts DEF Tok, At, Ready, Ahead, ToldForward, Entered
  <2> QED BY <2>1, <2>2
<1>6. T \notin Inside
  <2>1. ASSUME NEW v \in Worker, pc[v] = "work", Tok(v) = T PROVE FALSE
    <3>1. v # w /\ LineOf(T) = line[v] BY <2>1, CarriedFacts DEF Cell
    <3> QED BY <1>1, <1>2, <3>1, Others, AloneFacts
  <2> QED BY <2>1, InsideIs
<1>7. f = 0 => \A u \in Token : u + numLines <= T => PassedBy(u) = NumPipes
  <2>1. ASSUME f = 0, NEW u \in Token, u + numLines <= T PROVE PassedBy(u) = NumPipes
    <3>1. u \in Nat /\ PassedBy(u) \in 0 .. NumPipes BY <1>1, <1>4, PassedFacts
    <3>2. CASE u + numLines < numTokens BY <1>1, <3>1, <3>2, PassedFacts
    <3>3. CASE u + numLines >= numTokens
      <4>1. u = T - numLines /\ ~(T < numLines) BY <1>2, <1>3, <2>1, <3>1, <3>3
      <4>2. ToldForward(u, NumPipes - 1) BY <1>2, <2>1, <4>1 DEF Ready, Ahead
      <4> QED BY <1>3, <3>1, <4>2 DEF ToldForward
    <3> QED BY <1>3, <3>1, <3>2, <3>3
  <2> QED BY <2>1
<1>8. meta[f] = SERIAL => \A u \in Token : u < T => PassedBy(u) > f BY <1>2, <1>4, Turns
<1>9. shape' = shape /\ Passed' = Passed
  <2>1. shape' = shape BY <1>1, Others
  <2> QED BY <1>4, <2>1, CellEffect DEF Passed
<1>10. Inside' = Inside \cup {T}
  <2>1. /\ pc'[w] = "work" /\ pc[w] = "cell"
        /\ \A v \in Worker \ {w} : pc'[v] = pc[v] /\ (pc[v] # "idle" => Tok(v)' = Tok(v))
    BY <1>1, Others DEF Cell, Goto, TypeOK
  <2>2. \A x : x \in Inside' <=> x \in Inside \/ x = T BY <1>2, <2>1, InsideIs, InsideNext
  <2> QED BY <2>2
<1>11. Passed[T] = f /\ \A u \in Token : Passed[u] = PassedBy(u) BY <1>4, <1>5 DEF Passed
<1>12. Flow!Enter(T)
  BY <1>3, <1>6, <1>7, <1>8, <1>9, <1>10, <1>11 DEF Flow!Enter, Passed, Inside, shape
<1> QED BY <1>4, <1>12

\* A callable that returns moves its token one pipe on.
LEMMA WorkLeaves ==
    ASSUME IInv, NEW w \in Worker, Work(w)
    PROVE  \E t \in Token : Flow!Leave(t)
<1>1. TypeOK /\ LineTask(w) /\ pc[w] = "work" /\ pc'[w] = "down"
  BY DEF IInv, LineTask, Callable, Work, Goto, TypeOK
<1>2. PICK T \in Token : /\ T = Tok(w) /\ LineOf(T) = line[w] /\ PassedBy(T)' = PassedBy(T) + 1
                         /\ \A t \in Nat \ {T} : PassedBy(t)' = PassedBy(t) BY WorkEffect
<1>3. \A t \in Token : t \in Nat BY PipelineAssumption DEF Token
<1>4. \A v \in Worker \ {w} : /\ pc'[v] = pc[v] /\ (pc[v] # "idle" => Tok(v)' = Tok(v))
                              /\ pc[v] = "work" => Tok(v) # T
  BY <1>1, <1>2, Others, AloneFacts DEF Carries
<1>5. T \in Inside /\ Inside' = Inside \ {T}
  <2>1. \A x : x \in Inside' <=> x \in Inside /\ x # T BY <1>1, <1>2, <1>4, InsideIs, InsideNext
  <2> QED BY <1>1, <1>2, <2>1, InsideIs
<1>6. Passed' = [Passed EXCEPT ![T] = @ + 1] BY <1>2, <1>3 DEF Passed
<1>7. shape' = shape BY <1>1, Others
<1>8. Flow!Leave(T) BY <1>5, <1>6, <1>7 DEF Flow!Leave, Passed, Inside, shape
<1> QED BY <1>8

\* A token that stops the pipeline, or throws, gets no further.
LEMMA WithdrawWithdraws ==
    ASSUME IInv, NEW w \in Worker, Stop(w) \/ Throw(w)
    PROVE  \E t \in Token : Flow!Withdraw(t)
<1>1. TypeOK /\ LineTask(w) /\ pc[w] = "work" /\ pc'[w] = "idle"
  BY DEF IInv, LineTask, Callable, Stop, Throw, Goto, TypeOK
<1>2. PICK T \in Token : T = Tok(w) /\ LineOf(T) = line[w] BY <1>1, CarriedFacts
<1>3. \A t \in Token : t \in Nat BY PipelineAssumption DEF Token
<1>4. \A v \in Worker \ {w} : /\ pc'[v] = pc[v] /\ (pc[v] # "idle" => Tok(v)' = Tok(v))
                              /\ pc[v] = "work" => Tok(v) # T
  BY <1>1, <1>2, Others, AloneFacts DEF Carries
<1>5. T \in Inside /\ Inside' = Inside \ {T}
  <2>1. \A x : x \in Inside' <=> x \in Inside /\ x # T BY <1>1, <1>2, <1>4, InsideIs, InsideNext
  <2> QED BY <1>1, <1>2, <2>1, InsideIs
<1>6. Passed' = Passed BY <1>3, WithdrawEffect DEF Passed
<1>7. shape' = shape BY <1>1, Others
<1>8. Flow!Withdraw(T) BY <1>5, <1>6, <1>7 DEF Flow!Withdraw, Passed, Inside, shape
<1> QED BY <1>8

\* Before the first token, none has passed a pipe.
LEMMA FreshFlow == Fresh => Passed = [t \in Token |-> 0] /\ Inside = {}
  BY PipelineAssumption DEF Fresh, Passed, PassedBy, Inside, Token

\* The same after a step.
LEMMA FreshFlowNext == (Fresh => Passed = [t \in Token |-> 0] /\ Inside = {})'
<1>1. Fresh => Passed = [t \in Token |-> 0] /\ Inside = {} BY FreshFlow
<1> QED BY <1>1, PTL

\* reset() starts the numbers of tokens over.
LEMMA ResetStartsOver ==
    ASSUME IInv, Reset
    PROVE  Flow!StartOver
<1>1. Inside = {} BY DEF IInv, Resting, Reset, Inside
<1>2. Passed' = [t \in Token |-> 0] /\ Inside' = {} BY ResetFresh, FreshFlowNext
<1>3. numLines' \in 1 .. MaxLines /\ meta' \in Metas BY DEF Reset
<1> QED BY <1>1, <1>2, <1>3 DEF Flow!StartOver, Flow!Pipes, Metas, Pipe, Passed, Inside

\* Steps that move no token are stutters of the flow.
LEMMA InsideKept ==
    ASSUME shape' = shape, \A t \in Nat : PassedBy(t)' = PassedBy(t),
           \A v \in Worker : /\ pc'[v] = "work" <=> pc[v] = "work"
                             /\ pc[v] = "work" => Tok(v)' = Tok(v)
    PROVE  UNCHANGED Flow!tokenVars
<1>1. \A t \in Token : t \in Nat BY PipelineAssumption DEF Token
<1>2. Passed' = Passed BY <1>1 DEF Passed
<1>3. \A x : x \in Inside' <=> x \in Inside BY InsideIs, InsideNext
<1>4. Inside' = Inside BY <1>3
<1> QED BY <1>2, <1>4 DEF Flow!tokenVars, Passed, Inside, shape

\* So are the quiet steps.
LEMMA QuietStutters ==
    ASSUME Quiet
    PROVE  UNCHANGED Flow!tokenVars
<1>1. \A t \in Nat : PassedBy(t)' = PassedBy(t) BY QuietEffect
<1>2. \A v \in Worker : /\ pc'[v] = "work" <=> pc[v] = "work"
                        /\ pc[v] = "work" => Tok(v)' = Tok(v) BY DEF Quiet, Tok
<1> QED BY <1>1, <1>2, InsideKept DEF Quiet

\* Every step of the scheduler is a step of the flow of tokens or a stutter.
LEMMA StepFlows ==
    ASSUME IInv, [Next]_vars
    PROVE  [Flow!TokenNext]_(Flow!tokenVars)
<1>1. CASE Start BY <1>1, QuietStutters DEF Start, workerVars, Quiet
<1>2. CASE End BY <1>2, QuietStutters DEF End, workerVars, Quiet
<1>3. CASE Reset BY <1>3, ResetStartsOver DEF Flow!TokenNext
<1>4. CASE Cancel BY <1>4, QuietStutters DEF Cancel, workerVars, Quiet
<1>5. ASSUME NEW w \in Worker, NEW l \in Line, Take(w, l) PROVE UNCHANGED Flow!tokenVars
  <2>1. \A v \in Worker : \/ pc'[v] = pc[v] /\ line'[v] = line[v]
                          \/ pc[v] = "idle" /\ pc'[v] = "cell" BY <1>5 DEF Take, Goto, IInv, TypeOK
  <2>2. Quiet BY <1>5, <2>1 DEF Take, Quiet
  <2> QED BY <2>2, QuietStutters
<1>6. ASSUME NEW w \in Worker, Cell(w) PROVE Flow!TokenNext BY <1>6, CellEnters DEF Flow!TokenNext
<1>7. ASSUME NEW w \in Worker, Work(w) PROVE Flow!TokenNext BY <1>7, WorkLeaves DEF Flow!TokenNext
<1>8. ASSUME NEW w \in Worker, Stop(w) \/ Throw(w) PROVE Flow!TokenNext
  BY <1>8, WithdrawWithdraws DEF Flow!TokenNext
<1>9. ASSUME NEW w \in Worker, Down(w) \/ Forward(w) PROVE UNCHANGED Flow!tokenVars
  <2>1. shape' = shape /\ pc[w] # "work" /\ pc'[w] # "work"
        /\ \A v \in Worker \ {w} : pc'[v] = pc[v] /\ (pc[v] # "idle" => Tok(v)' = Tok(v))
    <3>1. LineTask(w) BY <1>9 DEF LineTask
    <3>2. pc[w] # "work" /\ pc'[w] # "work" BY <1>9 DEF Down, Forward, Goto, IInv, TypeOK
    <3> QED BY <3>1, <3>2, Others
  <2>2. \A t \in Nat : PassedBy(t)' = PassedBy(t) BY <1>9, DownEffect, ForwardEffect
  <2> QED BY <2>1, <2>2, InsideKept
<1>10. CASE UNCHANGED vars BY <1>10, QuietStutters DEF vars, workerVars, Quiet
<1> QED
  BY <1>1, <1>2, <1>3, <1>4, <1>5, <1>6, <1>7, <1>8, <1>9, <1>10 DEF Next, Step, LineTask, Callable

\* The scheduler starts where the flow of tokens does.
LEMMA InitFlows == Init => Flow!TokenInit
<1> SUFFICES ASSUME Init PROVE Flow!TokenInit OBVIOUS
<1>1. Passed = [t \in Token |-> 0] /\ Inside = {} BY InitFresh, FreshFlow
<1> QED BY <1>1 DEF Init, Flow!TokenInit, Flow!Pipes, Metas, Pipe, Passed, Inside

\* The scheduler implements the flow of tokens: every token goes through all pipes in order
\* and each once, a serial pipe admits the tokens one at a time and in order, and a token
\* starts only when the one numLines before it has left the last pipe, although _build only
\* counts the cells of the grid down and reset() arms them again.
THEOREM PipelineImplementsTokenFlow == Spec => ImplementsTokenFlow
<1> SUFFICES Spec => Flow!TokenSpec BY DEF ImplementsTokenFlow
<1> QED BY Initially, Inductive, InitFlows, StepFlows, PTL DEF Spec, Flow!TokenSpec
=============================================================================
