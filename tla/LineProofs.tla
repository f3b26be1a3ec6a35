----------------------------- MODULE LineProofs -----------------------------
(*****************************************************************************)
(* The programs of laboratories 5, 6 and 7, for every text, every size of    *)
(* their arrays and whatever is typed. The loop over the bytes is a function *)
(* that calls itself; what it leaves is shown by induction over the bytes    *)
(* read, from what a state of the loop says about the lines begun so far.    *)
(*****************************************************************************)
EXTENDS LineQuery, SequenceTheorems, FiniteSetTheorems, WellFoundedInduction, TLAPS

-----------------------------------------------------------------------------
(*****************************************************************************)
(* Numbers.                                                                  *)
(*****************************************************************************)
Less == {pair \in Nat \X Nat : pair[1] < pair[2]}

\* The natural numbers are well founded,
LEMMA LessIsWellFounded == IsWellFoundedOn(Less, Nat)
  BY NatLessThanWellFounded DEF OpToRel, Less

\* so a set of them that is not empty has a least element.
LEMMA LeastElement ==
  ASSUME NEW S \in SUBSET Nat, S # {}
  PROVE  Min(S) \in S /\ \A y \in S : Min(S) <= y
<1>1. PICK x \in S : \A y \in S : <<y, x>> \notin Less
  BY LessIsWellFounded, WFMin
<1>2. ASSUME NEW y \in S PROVE x <= y
  <2>1. x \in Nat /\ y \in Nat /\ <<y, x>> \notin Less
    BY <1>1
  <2>2. <<y, x>> \in Nat \X Nat /\ ~(y < x)
    BY <2>1 DEF Less
  <2>3. QED
    BY <2>1, <2>2
<1>3. QED
  BY <1>2 DEF Min

\* The least element of a set is whatever element no other is below.
LEMMA LeastIs ==
  ASSUME NEW S \in SUBSET Int, NEW x \in S, \A y \in S : x <= y
  PROVE  Min(S) = x
<1>1. ASSUME NEW z \in S, \A y \in S : z <= y PROVE z = x
  <2>1. z <= x /\ x <= z /\ z \in Int /\ x \in Int
    BY <1>1
  <2>2. QED
    BY <2>1
<1>2. QED
  BY <1>1 DEF Min

\* What holds of 0 and of every successor holds up to n.
LEMMA Upwards ==
  ASSUME NEW n \in Nat, NEW S, 0 \in S, \A i \in 0 .. n - 1 : i \in S => i + 1 \in S
  PROVE  \A i \in 0 .. n : i \in S
<1> DEFINE Left == {i \in 0 .. n : i \notin S}
<1>1. Left \in SUBSET Nat
  OBVIOUS
<1>2. SUFFICES ASSUME Left # {} PROVE FALSE
  OBVIOUS
<1>3. PICK m \in Left : \A y \in Left : m <= y
  BY <1>1, <1>2, LeastElement
<1>4. m \in 0 .. n /\ m \notin S /\ m # 0
  BY <1>3
<1>5. m - 1 \in 0 .. n - 1 /\ m - 1 \in 0 .. n /\ ~(m <= m - 1) /\ (m - 1) + 1 = m
  BY <1>4
<1>6. m - 1 \in S
  BY <1>3, <1>5
<1>7. QED
  BY <1>4, <1>5, <1>6

\* Steps that stay within S, and a function that takes them one by one.
Stays(step, I, S) == \A i \in I : \A x \in S : step[i][x] \in S
Follows(f, first, step, I) == f[0] = first /\ \A i \in I : f[i] = step[i][f[i - 1]]

\* Such a function exists for n steps,
LEMMA Iteration ==
  ASSUME NEW n \in Nat, NEW S, NEW first \in S, NEW step, Stays(step, 1 .. n, S)
  PROVE  \E f \in [0 .. n -> S] : Follows(f, first, step, 1 .. n)
<1> USE DEF Stays, Follows
<1> DEFINE Upto(f, m) == f[0] = first /\ \A i \in 1 .. m : f[i] = step[i][f[i - 1]]
           R == {m \in 0 .. n : \E f \in [0 .. m -> S] : Upto(f, m)}
<1>1. 0 \in R
  <2> DEFINE f == [i \in 0 .. 0 |-> first]
  <2>1. Upto(f, 0) /\ f \in [0 .. 0 -> S]
    OBVIOUS
  <2> HIDE DEF Upto, f
  <2>2. QED
    BY <2>1
<1>2. ASSUME NEW m \in 0 .. n - 1, m \in R PROVE m + 1 \in R
  <2>1. PICK f \in [0 .. m -> S] : Upto(f, m)
    BY <1>2
  <2> DEFINE v == step[m + 1][f[m]]
             g == [i \in 0 .. m + 1 |-> IF i = m + 1 THEN v ELSE f[i]]
  <2>2. v \in S
    BY <2>1
  <2>3. g[0] = first /\ g[m + 1] = v /\ \A i \in 0 .. m : g[i] = f[i]
    BY <2>1
  <2>4. g \in [0 .. m + 1 -> S]
    BY <2>1, <2>2
  <2>5. ASSUME NEW i \in 1 .. m + 1 PROVE g[i] = step[i][g[i - 1]]
    <3>1. CASE i = m + 1
      <4>1. i - 1 = m /\ m \in 0 .. m
        BY <3>1
      <4>2. QED
        BY <2>3, <3>1, <4>1
    <3>2. CASE i \in 1 .. m
      <4>1. i \in 0 .. m /\ i - 1 \in 0 .. m
        BY <3>2
      <4>2. QED
        BY <2>1, <2>3, <3>2, <4>1
    <3>3. QED
      BY <3>1, <3>2
  <2> HIDE DEF g
  <2>6. Upto(g, m + 1)
    BY <2>3, <2>5
  <2> HIDE DEF Upto
  <2>7. QED
    BY <2>4, <2>6
<1> HIDE DEF R
<1>3. n \in R
  BY <1>1, <1>2, Upwards
<1>4. QED
  BY <1>3 DEF R

\* and for steps without end.
LEMMA EndlessIteration ==
  ASSUME NEW S, NEW first \in S, NEW step, Stays(step, Nat, S)
  PROVE  \E f \in [Nat -> S] : Follows(f, first, step, Nat \ {0})
<1> DEFINE Upto(f, m) == f[0] = first /\ \A i \in 1 .. m : f[i] = step[i][f[i - 1]]
           Begun(m) == CHOOSE f \in [0 .. m -> S] : Upto(f, m)
<1>1. ASSUME NEW m \in Nat
      PROVE  Begun(m) \in [0 .. m -> S] /\ Upto(Begun(m), m)
  <2>1. Stays(step, 1 .. m, S)
    BY DEF Stays
  <2>2. \E f \in [0 .. m -> S] : Follows(f, first, step, 1 .. m)
    BY <2>1, Iteration
  <2>3. \E f \in [0 .. m -> S] : Upto(f, m)
    BY <2>2 DEF Follows
  <2> HIDE DEF Upto
  <2>4. QED
    BY <2>3
<1> HIDE DEF Begun
<1>2. ASSUME NEW m \in Nat PROVE Begun(m + 1)[m] = Begun(m)[m]
  <2> DEFINE R == {i \in 0 .. m : Begun(m + 1)[i] = Begun(m)[i]}
  <2>1. 0 \in R
    BY <1>1
  <2>2. ASSUME NEW i \in 0 .. m - 1, i \in R PROVE i + 1 \in R
    <3>1. i + 1 \in 1 .. m /\ i + 1 \in 1 .. m + 1 /\ (i + 1) - 1 = i /\ m + 1 \in Nat
      OBVIOUS
    <3>2. Begun(m + 1)[i + 1] = step[i + 1][Begun(m + 1)[i]]
      BY <1>1, <3>1
    <3>3. Begun(m)[i + 1] = step[i + 1][Begun(m)[i]]
      BY <1>1, <3>1
    <3>4. QED
      BY <2>2, <3>1, <3>2, <3>3
  <2> HIDE DEF R
  <2>3. m \in R
    BY <2>1, <2>2, Upwards
  <2>4. QED
    BY <2>3 DEF R
<1> DEFINE g == [i \in Nat |-> Begun(i)[i]]
<1>3. g \in [Nat -> S]
  <2>1. ASSUME NEW i \in Nat PROVE Begun(i)[i] \in S
    <3>1. i \in 0 .. i
      OBVIOUS
    <3>2. QED
      BY <1>1, <3>1
  <2>2. QED
    BY <2>1
<1>4. g[0] = first
  BY <1>1
<1>5. ASSUME NEW i \in Nat \ {0} PROVE g[i] = step[i][g[i - 1]]
  <2>1. i - 1 \in Nat /\ i \in 1 .. i /\ (i - 1) + 1 = i
    OBVIOUS
  <2>2. Begun(i)[i] = step[i][Begun(i)[i - 1]]
    BY <1>1, <2>1
  <2>3. Begun((i - 1) + 1)[i - 1] = Begun(i - 1)[i - 1]
    BY <1>2, <2>1
  <2>4. QED
    BY <2>1, <2>2, <2>3
<1> HIDE DEF g
<1>6. QED
  BY <1>3, <1>4, <1>5 DEF Follows

-----------------------------------------------------------------------------
(*****************************************************************************)
(* Doubling.                                                                 *)
(*****************************************************************************)
\* The powers of two are what their recursive definition says, and a number is
\* less than its power.
LEMMA DoubledFacts ==
  /\ Doubled \in [Nat -> Nat]
  /\ Doubled[0] = 1
  /\ \A i \in Nat : Doubled[i + 1] = 2 * Doubled[i] /\ i < Doubled[i]
<1> DEFINE Is(f) == f = [i \in Nat |-> IF i = 0 THEN 1 ELSE 2 * f[i - 1]]
           step == [i \in Nat |-> [x \in Nat |-> 2 * x]]
<1>1. \E f : Is(f)
  <2>1. \A i \in Nat : \A x \in Nat : step[i][x] = 2 * x
    OBVIOUS
  <2> HIDE DEF step
  <2>2. PICK f \in [Nat -> Nat] : Follows(f, 1, step, Nat \ {0})
    <3>1. Stays(step, Nat, Nat)
      BY <2>1 DEF Stays
    <3>2. 1 \in Nat
      OBVIOUS
    <3>3. QED
      BY <3>1, <3>2, EndlessIteration
  <2>3. ASSUME NEW i \in Nat PROVE f[i] = IF i = 0 THEN 1 ELSE 2 * f[i - 1]
    <3>1. CASE i = 0
      BY <2>2, <3>1 DEF Follows
    <3>2. CASE i # 0
      <4>1. i - 1 \in Nat /\ i \in Nat \ {0}
        BY <3>2
      <4>2. f[i] = step[i][f[i - 1]] /\ f[i - 1] \in Nat
        BY <2>2, <4>1 DEF Follows
      <4>3. QED
        BY <2>1, <3>2, <4>1, <4>2
    <3>3. QED
      BY <3>1, <3>2
  <2>4. QED
    BY <2>3
<1>2. Doubled = CHOOSE f : Is(f)
  BY DEF Doubled
<1>3. Is(Doubled)
  BY <1>1, <1>2
<1>4. Doubled[0] = 1 /\ \A i \in Nat : Doubled[i + 1] = 2 * Doubled[i]
  <2>1. ASSUME NEW i \in Nat PROVE Doubled[i + 1] = 2 * Doubled[i]
    <3>1. i + 1 \in Nat /\ i + 1 # 0 /\ (i + 1) - 1 = i
      OBVIOUS
    <3>2. Doubled[i + 1] = IF i + 1 = 0 THEN 1 ELSE 2 * Doubled[(i + 1) - 1]
      BY <1>3, <3>1
    <3>3. QED
      BY <3>1, <3>2
  <2>2. QED
    BY <1>3, <2>1
<1>5. ASSUME NEW n \in Nat PROVE Doubled[n] \in Nat /\ n < Doubled[n]
  <2> DEFINE S == {i \in 0 .. n : Doubled[i] \in Nat /\ i < Doubled[i]}
  <2>1. 0 \in S
    BY <1>4
  <2>2. ASSUME NEW i \in 0 .. n - 1, i \in S PROVE i + 1 \in S
    <3>1. PICK k \in Nat : k = Doubled[i]
      BY <2>2
    <3>2. i < k /\ Doubled[i + 1] = 2 * k
      BY <1>4, <2>2, <3>1
    <3>3. QED
      BY <3>1, <3>2
  <2> HIDE DEF S
  <2>3. n \in S
    BY <2>1, <2>2, Upwards
  <2>4. QED
    BY <2>3 DEF S
<1>6. Doubled \in [Nat -> Nat]
  <2>1. \A n \in Nat : Doubled[n] \in Nat
    BY <1>5
  <2>2. Doubled = [i \in Nat |-> Doubled[i]]
    BY <1>3
  <2>3. QED
    BY <2>1, <2>2
<1>7. QED
  BY <1>4, <1>5, <1>6

-----------------------------------------------------------------------------
(*****************************************************************************)
(* The loop over the bytes.                                                  *)
(*****************************************************************************)
\* The entries of a table, and the states of the loop.
Entry == [off : Int, len : Int]
States == [pos : Nat, lines : Nat, off : Int, len : Nat, blanks : Nat, table : Seq(Entry)]

\* What the proofs use of a program's record.
Typed(p) ==
  /\ p.nl \in {0, 1} /\ p.cut \in Nat /\ p.chunk \in Nat /\ p.step \in Nat

\* A state of the loop, part by part.
StateOf(pos, lines, off, len, blanks, entries) ==
  [pos |-> pos, lines |-> lines, off |-> off, len |-> len, blanks |-> blanks, table |-> entries]

\* Entering a line changes these parts of the state,
LEMMA ClosedParts ==
  ASSUME NEW p, NEW s \in States, NEW ended \in BOOLEAN
  PROVE  Closed(p, s, ended) =
           StateOf(s.pos, s.lines + (IF ended THEN 1 ELSE 0), NextOffset(p, s, ended), 0, 0,
                   Entered(p, s, ended))
<1> DEFINE off == NextOffset(p, s, ended)
           entries == Entered(p, s, ended)
<1>1. Closed(p, s, ended) =
        [s EXCEPT !.table = entries, !.off = off,
                  !.lines = @ + (IF ended THEN 1 ELSE 0), !.len = 0, !.blanks = 0]
  BY DEF Closed
<1> HIDE DEF off, entries
<1>2. QED
  BY <1>1 DEF StateOf, States, off, entries

\* the offset and the entry being numbers.
LEMMA ClosedTyped ==
  ASSUME NEW p, Typed(p), NEW s \in States, NEW ended \in BOOLEAN
  PROVE  /\ NextOffset(p, s, ended) \in Int
         /\ Counted(p, s, ended) \in Int
         /\ Entered(p, s, ended) \in Seq(Entry)
         /\ Closed(p, s, ended) \in States
<1>1. /\ s.pos \in Nat /\ s.lines \in Nat /\ s.off \in Int /\ s.len \in Nat /\ s.blanks \in Nat
      /\ s.table \in Seq(Entry)
  BY DEF States
<1>2. NextOffset(p, s, ended) \in Int
  <2>1. CASE p.entry = "break"
    BY <1>1, <2>1 DEF NextOffset, Typed
  <2>2. CASE p.entry = "previous"
    BY <1>1, <2>2 DEF NextOffset, Typed
  <2>3. CASE p.entry \notin {"break", "previous"} /\ p.chunk > 0 /\ ~ended
    BY <1>1, <2>3 DEF NextOffset, Typed
  <2>4. CASE /\ p.entry \notin {"break", "previous"} /\ ~(p.chunk > 0 /\ ~ended)
             /\ p.step > 0
    BY <1>1, <2>4 DEF NextOffset, Typed
  <2>5. CASE /\ p.entry \notin {"break", "previous"} /\ ~(p.chunk > 0 /\ ~ended)
             /\ ~(p.step > 0)
    BY <1>1, <2>5 DEF NextOffset, Typed
  <2>6. QED
    BY <2>1, <2>2, <2>3, <2>4, <2>5
<1>3. Counted(p, s, ended) \in Int
  <2>1. CASE p.entry # "previous"
    BY <1>1, <2>1 DEF Counted, Typed
  <2>2. CASE s.table = <<>> /\ p.entry = "previous"
    BY <1>1, <2>2 DEF Counted
  <2>3. CASE s.table # <<>> /\ p.entry = "previous"
    <3>1. Last(s.table) \in Entry
      BY <1>1, <2>3 DEF Last
    <3>2. Last(s.table).off \in Int
      BY <3>1 DEF Entry
    <3>3. QED
      BY <1>1, <2>3, <3>2 DEF Counted
  <2>4. QED
    BY <2>1, <2>2, <2>3
<1>4. [off |-> s.off + s.blanks, len |-> Counted(p, s, ended)] \in Entry
  BY <1>1, <1>3 DEF Entry
<1>5. Entered(p, s, ended) \in Seq(Entry)
  BY <1>1, <1>4 DEF Entered
<1>6. Closed(p, s, ended) =
        StateOf(s.pos, s.lines + (IF ended THEN 1 ELSE 0), NextOffset(p, s, ended), 0, 0,
                Entered(p, s, ended))
  BY ClosedParts
<1>7. s.lines + (IF ended THEN 1 ELSE 0) \in Nat
  BY <1>1
<1>8. Closed(p, s, ended) \in States
  BY <1>1, <1>2, <1>5, <1>6, <1>7 DEF StateOf, States
<1>9. QED
  BY <1>2, <1>3, <1>5, <1>8

\* The state after a byte that is counted, or left out as a leading blank.
Behind(p, s, b) ==
  IF p.blanks /\ b = Blank /\ s.len = 0
  THEN StateOf(s.pos + 1, s.lines, s.off, s.len, s.blanks + 1, s.table)
  ELSE StateOf(s.pos + 1, s.lines, s.off, s.len + 1, s.blanks, s.table)

\* The state when a newline has been read.
Over(s) == StateOf(s.pos + 1, s.lines, s.off, s.len, s.blanks, s.table)

\* One byte, in these terms.
LEMMA ScanCases ==
  ASSUME NEW p, NEW s \in States, NEW b
  PROVE  Scan(p, s, b) =
           IF p.full = "stop" /\ s.lines = Room THEN s
           ELSE IF b = Newline THEN Closed(p, Over(s), TRUE)
           ELSE IF PieceIsFull(p, Behind(p, s, b)) THEN Closed(p, Behind(p, s, b), FALSE)
           ELSE Behind(p, s, b)
<1> DEFINE r == [s EXCEPT !.pos = @ + 1]
           c == IF p.blanks /\ b = Blank /\ s.len = 0
                THEN [r EXCEPT !.blanks = @ + 1] ELSE [r EXCEPT !.len = @ + 1]
<1>1. Scan(p, s, b) = IF p.full = "stop" /\ s.lines = Room THEN s
                      ELSE IF b = Newline THEN Closed(p, r, TRUE)
                      ELSE IF PieceIsFull(p, c) THEN Closed(p, c, FALSE)
                      ELSE c
  BY Zenon DEF Scan
<1>2. r = Over(s)
  BY DEF States, Over, StateOf
<1> HIDE DEF r
<1>3. c = Behind(p, s, b)
  <2>1. CASE p.blanks /\ b = Blank /\ s.len = 0
    <3>1. c = [r EXCEPT !.blanks = @ + 1]
      BY <2>1
    <3>2. c = StateOf(s.pos + 1, s.lines, s.off, s.len, s.blanks + 1, s.table)
      BY <1>2, <3>1 DEF Over, StateOf
    <3>3. QED
      BY <2>1, <3>2 DEF Behind
  <2>2. CASE ~(p.blanks /\ b = Blank /\ s.len = 0)
    <3>1. c = [r EXCEPT !.len = @ + 1]
      BY <2>2
    <3>2. c = StateOf(s.pos + 1, s.lines, s.off, s.len + 1, s.blanks, s.table)
      BY <1>2, <3>1 DEF Over, StateOf
    <3>3. QED
      BY <2>2, <3>2 DEF Behind
  <2>3. QED
    BY <2>1, <2>2
<1> HIDE DEF c
<1>4. QED
  BY <1>1, <1>2, <1>3

\* A byte takes the loop from a state to a state.
LEMMA ScanTyped ==
  ASSUME NEW p, Typed(p), NEW s \in States, NEW b
  PROVE  /\ Scan(p, s, b) \in States
         /\ Over(s) \in States
         /\ Behind(p, s, b) \in States
<1>1. Over(s) \in States
  BY DEF States, Over, StateOf
<1>2. Behind(p, s, b) \in States
  BY DEF States, Behind, StateOf
<1>3. Closed(p, Over(s), TRUE) \in States /\ Closed(p, Behind(p, s, b), FALSE) \in States
  <2>1. TRUE \in BOOLEAN /\ FALSE \in BOOLEAN
    OBVIOUS
  <2>2. QED
    BY <1>1, <1>2, <2>1, ClosedTyped
<1>4. QED
  BY <1>1, <1>2, <1>3, ScanCases

\* The loop is what its recursive definition says: it begins with Start, and
\* each byte takes it one step further.
LEMMA ScansFacts ==
  ASSUME NEW p, Typed(p), NEW t \in Seq(Byte)
  PROVE  /\ Scans(p, t)[0] = Start
         /\ \A i \in 0 .. Len(t) : Scans(p, t)[i] \in States
         /\ \A i \in 1 .. Len(t) : Scans(p, t)[i] = Scan(p, Scans(p, t)[i - 1], t[i])
<1> DEFINE n == Len(t)
           Is(f) == f = [i \in 0 .. n |-> IF i = 0 THEN Start ELSE Scan(p, f[i - 1], t[i])]
           step == [i \in 1 .. n |-> [x \in States |-> Scan(p, x, t[i])]]
           Loops(f) == /\ f[0] = Start
                         /\ \A i \in 1 .. n : f[i] = Scan(p, f[i - 1], t[i])
<1>1. n \in Nat
  OBVIOUS
<1>2. Start \in States
  BY DEF Start, States
<1>3. \E f : Is(f)
  <2>1. \A i \in 1 .. n : \A x \in States : step[i][x] = Scan(p, x, t[i])
    OBVIOUS
  <2> HIDE DEF step
  <2>2. PICK f \in [0 .. n -> States] : Follows(f, Start, step, 1 .. n)
    <3>1. Stays(step, 1 .. n, States)
      BY <2>1, ScanTyped DEF Stays
    <3>2. QED
      BY <1>1, <1>2, <3>1, Iteration
  <2>3. ASSUME NEW i \in 0 .. n
        PROVE  f[i] = IF i = 0 THEN Start ELSE Scan(p, f[i - 1], t[i])
    <3>1. CASE i = 0
      BY <2>2, <3>1 DEF Follows
    <3>2. CASE i # 0
      <4>1. i \in 1 .. n /\ i - 1 \in 0 .. n
        BY <1>1, <3>2
      <4>2. f[i] = step[i][f[i - 1]] /\ f[i - 1] \in States
        BY <2>2, <4>1 DEF Follows
      <4>3. QED
        BY <2>1, <3>2, <4>1, <4>2
    <3>3. QED
      BY <3>1, <3>2
  <2>4. f = [i \in 0 .. n |-> IF i = 0 THEN Start ELSE Scan(p, f[i - 1], t[i])]
    BY <2>3
  <2>5. QED
    BY <2>4
<1>4. Scans(p, t) = CHOOSE f : Is(f)
  BY DEF Scans
<1> DEFINE f == Scans(p, t)
<1> HIDE DEF f
<1>5. Is(f)
  BY <1>3, <1>4 DEF f
<1>6. Loops(f)
  <2>1. ASSUME NEW i \in 1 .. n PROVE f[i] = Scan(p, f[i - 1], t[i])
    <3>1. i \in 0 .. n /\ i # 0
      BY <1>1
    <3>2. QED
      BY <1>5, <3>1
  <2>2. QED
    BY <1>1, <1>5, <2>1
<1>7. \A i \in 0 .. n : f[i] \in States
  <2> DEFINE S == {i \in 0 .. n : f[i] \in States}
  <2>1. 0 \in S
    BY <1>1, <1>2, <1>6
  <2>2. ASSUME NEW i \in 0 .. n - 1, i \in S PROVE i + 1 \in S
    <3>1. i + 1 \in 1 .. n /\ i + 1 \in 0 .. n /\ (i + 1) - 1 = i /\ f[i] \in States
      BY <1>1, <2>2
    <3>2. f[i + 1] = Scan(p, f[i], t[i + 1])
      BY <1>6, <3>1
    <3>3. QED
      BY <3>1, <3>2, ScanTyped
  <2> HIDE DEF S
  <2>3. \A i \in 0 .. n : i \in S
    BY <1>1, <2>1, <2>2, Upwards
  <2>4. QED
    BY <2>3 DEF S
<1>8. QED
  BY <1>6, <1>7 DEF f

-----------------------------------------------------------------------------
(*****************************************************************************)
(* The lines of a text.                                                      *)
(*****************************************************************************)
\* The newlines among the first i bytes.
Passed(i) == Cardinality({j \in 1 .. i : text[j] = Newline})

\* Line k lies between a and e.
Spanned(k, a, e) ==
  /\ a \in Starts /\ Passed(a) = k - 1 /\ e \in a .. Len(text)
  /\ \A j \in a + 1 .. e : text[j] # Newline
  /\ e = Len(text) \/ text[e + 1] = Newline

\* Counting newlines: one more with every newline,
LEMMA PassedFacts ==
  /\ Passed(0) = 0
  /\ \A i \in Nat : Passed(i) \in Nat
  /\ \A i \in Nat : Passed(i + 1) = Passed(i) + (IF text[i + 1] = Newline THEN 1 ELSE 0)
<1> DEFINE S(i) == {j \in 1 .. i : text[j] = Newline}
<1>1. ASSUME NEW i \in Nat PROVE IsFiniteSet(S(i))
  <2>1. IsFiniteSet(1 .. i)
    BY FS_Interval
  <2>2. QED
    BY <2>1, FS_Subset
<1>2. S(0) = {}
  OBVIOUS
<1>3. ASSUME NEW i \in Nat
      PROVE  S(i + 1) = IF text[i + 1] = Newline THEN S(i) \cup {i + 1} ELSE S(i)
  OBVIOUS
<1>4. \A i \in Nat : i + 1 \notin S(i)
  OBVIOUS
<1> HIDE DEF S
<1>5. \A i \in Nat : Cardinality(S(i)) \in Nat
  BY <1>1, FS_CardinalityType
<1>6. Cardinality(S(0)) = 0
  BY <1>2, FS_EmptySet
<1>7. ASSUME NEW i \in Nat
      PROVE  Cardinality(S(i + 1)) = Cardinality(S(i)) + (IF text[i + 1] = Newline THEN 1 ELSE 0)
  <2>1. Cardinality(S(i) \cup {i + 1}) = Cardinality(S(i)) + 1
    BY <1>1, <1>4, FS_AddElement
  <2>2. Cardinality(S(i)) \in Nat
    BY <1>5
  <2>3. CASE text[i + 1] = Newline
    <3>1. S(i + 1) = S(i) \cup {i + 1}
      BY <1>3, <2>3
    <3>2. QED
      BY <2>1, <2>2, <2>3, <3>1
  <2>4. CASE text[i + 1] # Newline
    <3>1. S(i + 1) = S(i)
      BY <1>3, <2>4
    <3>2. QED
      BY <2>2, <2>4, <3>1
  <2>5. QED
    BY <2>3, <2>4
<1>8. QED
  BY <1>5, <1>6, <1>7 DEF Passed, S

\* none when there is no newline between,
LEMMA PassedStays ==
  ASSUME NEW a \in Nat, NEW e \in Nat, a <= e, \A j \in a + 1 .. e : text[j] # Newline
  PROVE  Passed(e) = Passed(a)
<1>1. {j \in 1 .. e : text[j] = Newline} = {j \in 1 .. a : text[j] = Newline}
  OBVIOUS
<1>2. QED
  BY <1>1 DEF Passed

\* and never fewer.
LEMMA PassedGrows ==
  ASSUME NEW a \in Nat, NEW e \in Nat, a <= e
  PROVE  Passed(a) <= Passed(e)
<1>1. IsFiniteSet({j \in 1 .. e : text[j] = Newline})
  <2>1. IsFiniteSet(1 .. e)
    BY FS_Interval
  <2>2. QED
    BY <2>1, FS_Subset
<1>2. {j \in 1 .. a : text[j] = Newline} \subseteq {j \in 1 .. e : text[j] = Newline}
  OBVIOUS
<1>3. QED
  BY <1>1, <1>2, FS_Subset DEF Passed

\* A line starts behind more newlines than any line before it.
LEMMA StartsDiffer ==
  ASSUME text \in Seq(Byte), NEW a \in Starts, NEW b \in Starts, a < b
  PROVE  Passed(a) < Passed(b)
<1>1. a \in Nat /\ b \in Nat /\ b # 0 /\ b - 1 \in Nat /\ a <= b - 1 /\ (b - 1) + 1 = b
  BY DEF Starts
<1>2. text[b] = Newline
  BY <1>1 DEF Starts
<1>3. Passed(b) = Passed(b - 1) + 1
  BY <1>1, <1>2, PassedFacts
<1>4. Passed(a) <= Passed(b - 1) /\ Passed(a) \in Nat /\ Passed(b - 1) \in Nat
  BY <1>1, PassedFacts, PassedGrows
<1>5. QED
  BY <1>3, <1>4

\* As many lines start before a as newlines are passed there; and all in all.
LEMMA StartsCounted ==
  ASSUME text \in Seq(Byte)
  PROVE  /\ \A a \in Starts : Cardinality({j \in Starts : j < a}) = Passed(a)
         /\ Newlines = Passed(Len(text))
<1> DEFINE B(i) == {j \in 1 .. i : text[j] = Newline}
<1>1. Len(text) \in Nat
  OBVIOUS
<1>2. ASSUME NEW i \in Nat PROVE Cardinality({0} \cup B(i)) = Passed(i) + 1
  <2>1. IsFiniteSet(1 .. i)
    BY FS_Interval
  <2>2. IsFiniteSet(B(i)) /\ 0 \notin B(i)
    BY <2>1, FS_Subset
  <2> HIDE DEF B
  <2>3. Cardinality(B(i) \cup {0}) = Cardinality(B(i)) + 1
    BY <2>2, FS_AddElement
  <2>4. B(i) \cup {0} = {0} \cup B(i)
    OBVIOUS
  <2>5. QED
    BY <2>3, <2>4 DEF B, Passed
<1>3. Newlines = Passed(Len(text))
  <2>1. Starts = {0} \cup B(Len(text))
    BY DEF Starts
  <2>2. Passed(Len(text)) \in Nat
    BY <1>1, PassedFacts
  <2> HIDE DEF B
  <2>3. QED
    BY <1>1, <1>2, <2>1, <2>2 DEF Newlines
<1>4. ASSUME NEW a \in Starts PROVE Cardinality({j \in Starts : j < a}) = Passed(a)
  <2>1. CASE a = 0
    <3>1. {j \in Starts : j < a} = {}
      BY <2>1 DEF Starts
    <3>2. QED
      BY <2>1, <3>1, FS_EmptySet, PassedFacts
  <2>2. CASE a # 0
    <3>1. a - 1 \in Nat /\ (a - 1) + 1 = a /\ a \in 1 .. Len(text) /\ text[a] = Newline
      BY <2>2 DEF Starts
    <3>2. {j \in Starts : j < a} = {0} \cup B(a - 1)
      BY <1>1, <3>1 DEF Starts
    <3> HIDE DEF B
    <3>3. Passed(a) = Passed(a - 1) + 1
      BY <3>1, PassedFacts
    <3>4. QED
      BY <1>2, <3>1, <3>2, <3>3
  <2>3. QED
    BY <2>1, <2>2
<1>5. QED
  BY <1>3, <1>4

\* Where a line lies is all there is to know of it.
LEMMA LineIs ==
  ASSUME text \in Seq(Byte), NEW k \in Nat, NEW a, NEW e, Spanned(k, a, e)
  PROVE  LineStart(k) = a /\ LineEnd(k) = e
<1>1. a \in Starts /\ a \in Nat /\ e \in Nat /\ a <= e /\ e <= Len(text) /\ Len(text) \in Nat
  BY DEF Spanned, Starts
<1>2. LineStart(k) = a
  <2>1. \A i \in Starts : Cardinality({j \in Starts : j < i}) = k - 1 <=> Passed(i) = k - 1
    BY StartsCounted
  <2>2. ASSUME NEW i \in Starts, Passed(i) = k - 1 PROVE i = a
    <3>1. i \in Nat /\ Passed(a) = k - 1
      BY DEF Starts, Spanned
    <3>2. ~(i < a) /\ ~(a < i)
      BY <1>1, <2>2, <3>1, StartsDiffer
    <3>3. QED
      BY <1>1, <3>1, <3>2
  <2>3. Passed(a) = k - 1
    BY DEF Spanned
  <2>4. QED
    BY <1>1, <2>1, <2>2, <2>3 DEF LineStart
<1>3. LineEnd(k) = e
  <2> DEFINE S == {Len(text)} \cup {i - 1 : i \in Starts \ (0 .. a)}
  <2>1. S \in SUBSET Int
    BY <1>1 DEF Starts
  <2>2. e \in S
    <3>1. CASE e = Len(text)
      BY <3>1
    <3>2. CASE e # Len(text)
      <4>1. e + 1 \in 1 .. Len(text) /\ text[e + 1] = Newline
        BY <1>1, <3>2 DEF Spanned
      <4>2. e + 1 \in Starts \ (0 .. a)
        BY <1>1, <4>1 DEF Starts
      <4>3. (e + 1) - 1 = e
        BY <1>1
      <4>4. QED
        BY <4>2, <4>3
    <3>3. QED
      BY <3>1, <3>2
  <2>3. ASSUME NEW i \in Starts \ (0 .. a) PROVE e <= i - 1
    <3>1. i \in 1 .. Len(text) /\ a < i /\ text[i] = Newline
      BY <1>1 DEF Starts
    <3>2. i \notin a + 1 .. e
      BY <3>1 DEF Spanned
    <3>3. QED
      BY <1>1, <3>1, <3>2
  <2>4. \A y \in S : e <= y
    BY <1>1, <2>3
  <2>5. LineEnd(k) = Min(S)
    BY <1>2 DEF LineEnd
  <2> HIDE DEF S
  <2>6. QED
    BY <2>1, <2>2, <2>4, <2>5, LeastIs
<1>4. QED
  BY <1>2, <1>3

\* Behind any number of bytes, a line has begun.
LEMMA LineBegun ==
  ASSUME text \in Seq(Byte)
  PROVE  \A i \in 0 .. Len(text) : \E a \in Starts :
           a <= i /\ Passed(a) = Passed(i) /\ \A j \in a + 1 .. i : text[j] # Newline
<1> DEFINE Q(i) == \E a \in Starts :
                     a <= i /\ Passed(a) = Passed(i) /\ \A j \in a + 1 .. i : text[j] # Newline
           S == {i \in 0 .. Len(text) : Q(i)}
<1>1. Len(text) \in Nat
  OBVIOUS
<1>2. 0 \in S
  BY <1>1 DEF Starts
<1>3. ASSUME NEW i \in 0 .. Len(text) - 1, i \in S PROVE i + 1 \in S
  <2>1. i \in Nat /\ i + 1 \in 1 .. Len(text) /\ i + 1 \in 0 .. Len(text)
    BY <1>1
  <2>2. CASE text[i + 1] = Newline
    <3>1. i + 1 \in Starts
      BY <2>1, <2>2 DEF Starts
    <3>2. Q(i + 1)
      BY <2>1, <3>1
    <3> HIDE DEF Q
    <3>3. QED
      BY <2>1, <3>2
  <2>3. CASE text[i + 1] # Newline
    <3>1. PICK a \in Starts :
            a <= i /\ Passed(a) = Passed(i) /\ \A j \in a + 1 .. i : text[j] # Newline
      BY <1>3
    <3>2. a \in Nat
      BY DEF Starts
    <3>3. a <= i + 1 /\ \A j \in a + 1 .. i + 1 : text[j] # Newline
      BY <2>1, <2>3, <3>1, <3>2
    <3>4. Passed(i + 1) = Passed(i)
      <4>1. Passed(i) \in Nat /\ Passed(i + 1) = Passed(i) + (IF text[i + 1] = Newline THEN
         1 ELSE 0)
        BY <2>1, PassedFacts
      <4>2. QED
        BY <2>3, <4>1
    <3>5. Q(i + 1)
      BY <3>1, <3>3, <3>4
    <3> HIDE DEF Q
    <3>6. QED
      BY <2>1, <3>5
  <2>4. QED
    BY <2>2, <2>3
<1> HIDE DEF S
<1>4. \A i \in 0 .. Len(text) : i \in S
  BY <1>1, <1>2, <1>3, Upwards
<1>5. QED
  BY <1>4 DEF S

\* Byte i lies in the line with as many newlines before it.
LEMMA LineAt ==
  ASSUME text \in Seq(Byte), NEW i \in 0 .. Len(text)
  PROVE  LET k == Passed(i) + 1
         IN  /\ Spanned(k, LineStart(k), LineEnd(k))
             /\ LineStart(k) <= i /\ i <= LineEnd(k)
<1> DEFINE k == Passed(i) + 1
           S == {e \in i .. Len(text) : e = Len(text) \/ text[e + 1] = Newline}
<1>1. i \in Nat /\ Len(text) \in Nat
  OBVIOUS
<1>2. Passed(i) \in Nat /\ k \in Nat /\ k - 1 = Passed(i)
  <2>1. Passed(i) \in Nat
    BY <1>1, PassedFacts
  <2>2. QED
    BY <2>1
<1>3. PICK a \in Starts :
        a <= i /\ Passed(a) = Passed(i) /\ \A j \in a + 1 .. i : text[j] # Newline
  BY LineBegun
<1>4. a \in Nat
  BY DEF Starts
<1>5. S \in SUBSET Nat /\ Len(text) \in S
  BY <1>1
<1>6. PICK e \in S : \A y \in S : e <= y
  BY <1>5, LeastElement
<1>7. e \in i .. Len(text) /\ (e = Len(text) \/ text[e + 1] = Newline)
  BY <1>6
<1>8. ASSUME NEW j \in a + 1 .. e PROVE text[j] # Newline
  <2>1. CASE j <= i
    BY <1>1, <1>3, <1>4, <1>7, <2>1
  <2>2. CASE j > i
    <3>1. j - 1 \in i .. Len(text) /\ (j - 1) + 1 = j /\ ~(e <= j - 1)
      BY <1>1, <1>4, <1>7, <2>2
    <3>2. j - 1 \notin S
      BY <1>6, <3>1
    <3>3. QED
      BY <3>1, <3>2
  <2>3. QED
    BY <1>1, <1>4, <1>7, <2>1, <2>2
<1> HIDE DEF k
<1>9. Spanned(k, a, e)
  BY <1>1, <1>2, <1>3, <1>4, <1>7, <1>8 DEF Spanned
<1>10. LineStart(k) = a /\ LineEnd(k) = e
  BY <1>2, <1>9, LineIs
<1>11. QED
  BY <1>1, <1>3, <1>7, <1>9, <1>10 DEF k

\* Every number of newlines is that of some number of bytes.
LEMMA PassedThrough ==
  ASSUME text \in Seq(Byte)
  PROVE  \A i \in 0 .. Len(text) : \A m \in 0 .. Passed(i) : \E j \in 0 .. i : Passed(j) = m
<1> DEFINE Q(i) == \A m \in 0 .. Passed(i) : \E j \in 0 .. i : Passed(j) = m
           S == {i \in 0 .. Len(text) : Q(i)}
<1>1. Len(text) \in Nat
  OBVIOUS
<1>2. 0 \in S
  <2>1. Q(0)
    BY PassedFacts
  <2> HIDE DEF Q
  <2>2. QED
    BY <1>1, <2>1
<1>3. ASSUME NEW i \in 0 .. Len(text) - 1, i \in S PROVE i + 1 \in S
  <2> i \in Nat
    BY <1>1
  <2> Passed(i) \in Nat
    BY PassedFacts
  <2>1. i + 1 \in 0 .. Len(text) /\ i + 1 \in 0 .. i + 1
    BY <1>1
  <2>2. Passed(i + 1) = Passed(i) + (IF text[i + 1] = Newline THEN 1 ELSE 0)
    BY <2>1, PassedFacts
  <2>3. ASSUME NEW m \in 0 .. Passed(i + 1) PROVE \E j \in 0 .. i + 1 : Passed(j) = m
    <3>1. CASE m = Passed(i + 1)
      BY <2>1, <3>1
    <3>2. CASE m # Passed(i + 1)
      <4>1. m \in 0 .. Passed(i)
        BY <2>1, <2>2, <3>2
      <4>2. PICK j \in 0 .. i : Passed(j) = m
        BY <1>3, <4>1
      <4>3. j \in 0 .. i + 1
        BY <2>1
      <4>4. QED
        BY <4>2, <4>3
    <3>3. QED
      BY <3>1, <3>2
  <2>4. Q(i + 1)
    BY <2>3
  <2> HIDE DEF Q
  <2>5. QED
    BY <2>1, <2>4
<1> HIDE DEF S
<1>4. \A i \in 0 .. Len(text) : i \in S
  BY <1>1, <1>2, <1>3, Upwards
<1>5. QED
  BY <1>4 DEF S

\* A text has one line more than newlines. All but the last end in one, and the
\* next line starts behind it.
LEMMA LinesOfText ==
  ASSUME text \in Seq(Byte)
  PROVE  /\ Newlines \in Nat
         /\ \A k \in 1 .. Newlines + 1 :
              /\ Spanned(k, LineStart(k), LineEnd(k))
              /\ LineStart(k) \in Nat /\ LineEnd(k) \in LineStart(k) .. Len(text)
              /\ LineLength(k) \in Nat
              /\ LineEnd(k) = LineStart(k) + LineLength(k)
         /\ \A k \in 1 .. Newlines :
              /\ LineEnd(k) < Len(text) /\ text[LineEnd(k) + 1] = Newline
              /\ LineStart(k + 1) = LineEnd(k) + 1
         /\ LineEnd(Newlines + 1) = Len(text)
<1>1. Len(text) \in Nat /\ Len(text) \in 0 .. Len(text)
  OBVIOUS
<1>2. Newlines = Passed(Len(text)) /\ Newlines \in Nat
  BY <1>1, PassedFacts, StartsCounted
<1>3. ASSUME NEW k \in 1 .. Newlines + 1
      PROVE  /\ Spanned(k, LineStart(k), LineEnd(k))
             /\ LineStart(k) \in Nat /\ LineEnd(k) \in LineStart(k) .. Len(text)
             /\ LineLength(k) \in Nat
             /\ LineEnd(k) = LineStart(k) + LineLength(k)
  <2>1. k - 1 \in 0 .. Passed(Len(text)) /\ (k - 1) + 1 = k
    BY <1>2
  <2>2. PICK i \in 0 .. Len(text) : Passed(i) = k - 1
    BY <1>1, <2>1, PassedThrough
  <2>3. Spanned(k, LineStart(k), LineEnd(k))
    BY <2>1, <2>2, LineAt
  <2>4. LineStart(k) \in Nat /\ LineEnd(k) \in LineStart(k) .. Len(text)
    BY <2>3 DEF Spanned, Starts
  <2>5. LineLength(k) = LineEnd(k) - LineStart(k)
    BY DEF LineLength
  <2>6. QED
    BY <1>1, <2>3, <2>4, <2>5
<1>4. ASSUME NEW k \in 1 .. Newlines
      PROVE  /\ LineEnd(k) < Len(text) /\ text[LineEnd(k) + 1] = Newline
             /\ LineStart(k + 1) = LineEnd(k) + 1
  <2> DEFINE a == LineStart(k)
             e == LineEnd(k)
  <2>1. k \in 1 .. Newlines + 1 /\ k \in Nat
    BY <1>2
  <2>2. Spanned(k, a, e) /\ a \in Nat /\ e \in a .. Len(text)
    BY <1>3, <2>1
  <2> HIDE DEF a, e
  <2>3. e \in Nat /\ a <= e
    BY <1>1, <2>2
  <2>4. Passed(e) = k - 1
    <3>1. Passed(a) = k - 1 /\ \A j \in a + 1 .. e : text[j] # Newline
      BY <2>2 DEF Spanned
    <3>2. QED
      BY <2>2, <2>3, <3>1, PassedStays
  <2>5. e # Len(text)
    BY <1>2, <2>1, <2>4
  <2>6. e < Len(text) /\ text[e + 1] = Newline
    BY <1>1, <2>2, <2>5 DEF Spanned
  <2>7. e + 1 \in Starts /\ e + 1 \in Nat /\ e + 1 \in 0 .. Len(text)
    BY <1>1, <2>3, <2>6 DEF Starts
  <2>8. Passed(e + 1) = k
    <3>1. Passed(e + 1) = Passed(e) + 1
      BY <2>3, <2>6, PassedFacts
    <3>2. QED
      BY <2>1, <2>4, <3>1
  <2>9. LineStart(k + 1) = e + 1
    <3>1. Spanned(k + 1, LineStart(k + 1), LineEnd(k + 1)) /\ LineStart(k + 1) <= e + 1
      BY <2>7, <2>8, LineAt
    <3>2. LineStart(k + 1) \in Starts /\ Passed(LineStart(k + 1)) = (k + 1) - 1
      BY <3>1 DEF Spanned
    <3>3. LineStart(k + 1) \in Nat
      BY <3>2 DEF Starts
    <3>4. ~(LineStart(k + 1) < e + 1)
      <4>1. ASSUME LineStart(k + 1) < e + 1 PROVE FALSE
        <5>1. Passed(LineStart(k + 1)) < Passed(e + 1)
          BY <2>7, <3>2, <4>1, StartsDiffer
        <5>2. QED
          BY <2>1, <2>8, <3>2, <5>1
      <4>2. QED
        BY <4>1
    <3>5. QED
      BY <2>7, <3>1, <3>3, <3>4
  <2>10. QED
    BY <2>6, <2>9 DEF e
<1>5. LineEnd(Newlines + 1) = Len(text)
  <2>1. Len(text) <= LineEnd(Newlines + 1)
    BY <1>1, <1>2, LineAt
  <2>2. Newlines + 1 \in 1 .. Newlines + 1
    BY <1>2
  <2>3. LineEnd(Newlines + 1) \in LineStart(Newlines + 1) .. Len(text)
    BY <1>3, <2>2
  <2>4. LineStart(Newlines + 1) \in Nat
    BY <1>3, <2>2
  <2>5. QED
    BY <1>1, <2>1, <2>3, <2>4
<1>6. QED
  BY <1>2, <1>3, <1>4, <1>5

-----------------------------------------------------------------------------
(*****************************************************************************)
(* What the loop has done when it has read i bytes.                          *)
(*****************************************************************************)
\* What the proofs use of the programs' records.
Shape(p) ==
  /\ p.nl \in {0, 1} /\ p.cut \in {0, Cut} /\ p.chunk \in {0, Chunk} /\ p.step \in {0, 2}
  /\ p.entry \in {"line", "previous", "break"} /\ p.blanks \in BOOLEAN
  /\ p.full \in {"over", "skip", "stop"} /\ p.tail \in {"always", "some", "never"}
  /\ p.entry # "line" => /\ p.cut = 0 /\ p.chunk = 0 /\ p.step = 0 /\ ~p.blanks
                         /\ p.full = "over" /\ p.nl = 1 /\ p.tail = "some"
  /\ p.blanks => p.cut = 0 /\ p.chunk = 0 /\ p.step = 0 /\ p.nl = 0
  /\ p.cut > 0 => p.chunk = 0
  /\ p.chunk > 0 => p.step = 0
  /\ p.step > 0 => p.nl = 0
  /\ p.full = "stop" => p.cut = 0 /\ p.chunk = 0
  /\ p.full # "over" => p.grow = "fixed" /\ p.marks = 0
  /\ p.chunk > 0 => p.full = "skip"
  /\ p.grow \in {"fixed", "exact", "double", "lines"} /\ p.marks \in {0, 1, 2}
  /\ p.grow = "lines" => p.marks = 0 /\ p.entry = "line" /\ p.cut = 0
  /\ \/ p.buf = 0
     \/ p.full # "skip" /\ p.entry = "previous" /\ p.buf = Buffer + 1
     \/ p.full # "skip" /\ p.entry = "line" /\ p.step = 0 /\ p.buf = Buffer
     \/ p.full # "skip" /\ p.entry = "line" /\ p.step = 0 /\ p.buf = Cut + 1 /\ p.cut = Cut
  /\ p.lag \in {0, 1} /\ p.last \in {0, 1}
  /\ p.lag = 1 \/ p.last = 1 \/ p.dump \in {"rest", "entries", "before"} =>
       p.entry = "line" /\ p.step = 0 /\ ~p.blanks /\ p.full # "stop"
  /\ p.lag = 1 => p.cut = 0 /\ p.chunk = 0 /\ p.last = 0
  /\ p.dump \in {"nothing", "file", "rest", "entries", "before"}
  /\ p.dump \in {"rest", "entries", "before"} => p.tail # "never"
  /\ p.dump = "rest" => p.cut = 0 /\ p.chunk = 0 /\ p.full = "over"
  /\ p.low \in {"refuse", "retry", "wild"} /\ (p.high = "wild" => p.full = "over")
  /\ p.reader \in {"token", "prefix", "whole"} /\ (p.reader = "whole" => p.junk = "value")
  /\ p.reader = "token" =>
       p.junk \in {"clear", "value", "retry", "stay", "keep", "unset", "quit"}
  /\ p.eof \in {"again", "keep", "unset", "timeout"} /\ p.kept \in Int \union {NoNumber}
  /\ p.timer = "flag" => p.junk = "stay"
  /\ p.closed = "open" => /\ p.entry = "line" /\ p.step = 0 /\ p.nl = 0 /\ p.lag = 0
                          /\ p.full # "stop"

\* The blanks that are left out of line k, and the entry of a line that ends in a
\* newline.
LeftOut(k) == IF prog.blanks THEN Indent(k) ELSE 0

OffsetOf(k) ==
  IF prog.entry = "break" /\ k > 1 THEN LineStart(k) - 1
  ELSE IF prog.step > 0 THEN LineStart(k) + k - 1
  ELSE LineStart(k) + LeftOut(k)

LengthOf(k) ==
  IF prog.entry = "previous" THEN (IF k = 1 THEN 1 ELSE LineStart(k) - LineStart(k - 1))
  ELSE LineLength(k) - LeftOut(k) + prog.nl

EntryOf(k) == [off |-> OffsetOf(k), len |-> LengthOf(k)]

\* No piece was full among the first i bytes.
Whole(i) ==
  /\ prog.cut > 0 => \A j \in 0 .. i : j - LineStart(Passed(j) + 1) < prog.cut
  /\ prog.chunk > 0 => \A j \in 1 .. i : text[j] = Newline \/ j % prog.chunk # 0

\* The state describes line k, which begins at a,
InLineAt(s, k, a) ==
  /\ s.off = IF prog.entry = "break" /\ k > 1 THEN a - 1
             ELSE IF prog.step > 0 THEN a + k - 1 ELSE a
  /\ s.blanks + s.len = s.pos - a
  /\ ~prog.blanks => s.blanks = 0
  /\ \A j \in a + 1 .. a + s.blanks : text[j] = Blank
  /\ prog.blanks /\ s.len > 0 => text[a + s.blanks + 1] # Blank
  /\ \/ Len(s.table) = s.lines
     \/ prog.full = "skip" /\ Len(s.table) = Room /\ s.lines >= Room

\* the line that was begun.
InLine(s) == InLineAt(s, s.lines + 1, LineStart(s.lines + 1))

\* The lines that ended have their entries.
Noted(s) ==
  \A k \in 1 .. s.lines : FitsPieces(k) =>
    \/ k <= Len(s.table) /\ s.table[k] = EntryOf(k)
    \/ prog.full = "skip" /\ Len(s.table) = Room /\ k > Room

\* How far the loop has come.
Come(s, i) ==
  /\ s \in States /\ s.pos \in 0 .. i /\ s.lines = Passed(s.pos)
  /\ s.pos = i \/ (prog.full = "stop" /\ s.lines = Room)
  /\ prog.full # "skip" => s.lines <= Len(s.table)
  /\ prog.full = "skip" => Len(s.table) <= Room

Known(s, i) == Come(s, i) /\ Noted(s) /\ (Whole(s.pos) => InLine(s))

\* The programs' records are like that.
LEMMA Shapes == \A p \in AllPrograms : Shape(p)
<1>1. Shape(Komarevtsev5)
  BY LineAssumption DEF Shape, Komarevtsev5
<1>2. Shape(Komarevtsev6)
  BY LineAssumption DEF Shape, Komarevtsev6, Komarevtsev5
<1>3. Shape(Komarevtsev7)
  BY LineAssumption DEF Shape, Komarevtsev7, Komarevtsev6, Komarevtsev5
<1>4. Shape(Daniil5)
  BY LineAssumption DEF Shape, Daniil5, Komarevtsev5
<1>5. Shape(Daniil6)
  BY LineAssumption DEF Shape, Daniil6, Daniil5, Komarevtsev5
<1>6. Shape(Daniil7)
  BY LineAssumption DEF Shape, Daniil7, Daniil6, Daniil5, Komarevtsev5
<1>7. Shape(Zelenkov5)
  BY LineAssumption DEF Shape, Zelenkov5, Daniil5, Komarevtsev5
<1>8. Shape(Zelenkov6)
  BY LineAssumption DEF Shape, Zelenkov6, Daniil6, Daniil5, Komarevtsev5
<1>9. Shape(Zelenkov7)
  BY LineAssumption DEF Shape, Zelenkov7, Daniil7, Daniil6, Daniil5, Komarevtsev5
<1>10. Shape(Dolgov7)
  BY LineAssumption DEF Shape, Dolgov7, Daniil7, Daniil6, Daniil5, Komarevtsev5
<1>11. Shape(Trushkin5)
  BY LineAssumption DEF Shape, Trushkin5, Komarevtsev5
<1>12. Shape(Trushkin7)
  BY LineAssumption DEF Shape, Trushkin7, Trushkin5, Komarevtsev5
<1>13. Shape(Trushkin6)
  BY LineAssumption DEF Shape, Trushkin6, Trushkin7, Trushkin5, Komarevtsev5
<1>14. Shape(Dolgov6)
  BY LineAssumption DEF Shape, Dolgov6, Trushkin6, Trushkin7, Trushkin5, Komarevtsev5
<1>15. Shape(Shestakov5)
  BY LineAssumption DEF Shape, Shestakov5, Komarevtsev5
<1>16. Shape(Shestakov6)
  BY LineAssumption DEF Shape, Shestakov6, Shestakov5, Komarevtsev5
<1>17. Shape(Shestakov7)
  BY LineAssumption DEF Shape, Shestakov7, Shestakov5, Komarevtsev5
<1>18. Shape(ZaVialoV5)
  BY LineAssumption DEF Shape, ZaVialoV5, Komarevtsev5
<1>19. Shape(ZaVialoV6)
  BY LineAssumption DEF Shape, ZaVialoV6, ZaVialoV5, Komarevtsev5
<1>20. Shape(ZaVialoV7)
  BY LineAssumption DEF Shape, ZaVialoV7, ZaVialoV6, ZaVialoV5, Komarevtsev5
<1>21. Shape(Karakulin5)
  BY LineAssumption DEF Shape, Karakulin5, Komarevtsev5
<1>22. Shape(Makanin5)
  BY LineAssumption DEF Shape, Makanin5, Komarevtsev5
<1>23. Shape(Makanin6)
  BY LineAssumption DEF Shape, Makanin6, Makanin5, Komarevtsev5
<1>24. Shape(Makanin7)
  BY LineAssumption DEF Shape, Makanin7, Makanin6, Makanin5, Komarevtsev5
<1>25. Shape(Perminov5)
  BY LineAssumption DEF Shape, Perminov5, Komarevtsev5
<1>26. Shape(Perminov6)
  BY LineAssumption DEF Shape, Perminov6, Perminov5, Komarevtsev5
<1>27. Shape(Perminov7)
  BY LineAssumption DEF Shape, Perminov7, Perminov5, Komarevtsev5
<1>28. Shape(Tsyrenov5)
  BY LineAssumption DEF Shape, Tsyrenov5, Komarevtsev5
<1>29. Shape(Tsyrenov6)
  BY LineAssumption DEF Shape, Tsyrenov6, Tsyrenov5, Komarevtsev5
<1>30. Shape(Tsyrenov7)
  BY LineAssumption DEF Shape, Tsyrenov7, Tsyrenov6, Tsyrenov5, Komarevtsev5
<1>31. Shape(Chelbaev5)
  BY LineAssumption DEF Shape, Chelbaev5, Komarevtsev5
<1>32. Shape(Chelbaev6)
  BY LineAssumption DEF Shape, Chelbaev6, Chelbaev5, Komarevtsev5
<1>33. Shape(Chelbaev7)
  BY LineAssumption DEF Shape, Chelbaev7, Chelbaev5, Komarevtsev5
<1>34. Shape(Bedareva6)
  BY LineAssumption DEF Shape, Bedareva6, Komarevtsev5
<1>35. Shape(Bedareva7)
  BY LineAssumption DEF Shape, Bedareva7, Bedareva6, Komarevtsev5
<1>36. QED
  BY <1>1, <1>2, <1>3, <1>4, <1>5, <1>6, <1>7, <1>8, <1>9, <1>10, <1>11, <1>12, <1>13,
     <1>14, <1>15, <1>16, <1>17, <1>18, <1>19, <1>20, <1>21, <1>22, <1>23, <1>24, <1>25, <1>26,
     <1>27, <1>28, <1>29, <1>30, <1>31, <1>32, <1>33, <1>34, <1>35 DEF AllPrograms

\* A number below another is no multiple of it.
LEMMA NoMultiple ==
  ASSUME NEW c \in Nat, NEW j \in Nat, 0 < j, j < c
  PROVE  j % c # 0
  OBVIOUS

\* A newline ends the line that was begun.
LEMMA AtNewline ==
  ASSUME text \in Seq(Byte), NEW i \in 0 .. Len(text) - 1, text[i + 1] = Newline
  PROVE  LET k == Passed(i) + 1
         IN  /\ k \in 1 .. Newlines /\ LineEnd(k) = i /\ LineStart(k) \in 0 .. i
             /\ LineLength(k) = i - LineStart(k)
             /\ Passed(i + 1) = k /\ LineStart(k + 1) = i + 1
<1> DEFINE k == Passed(i) + 1
<1>1. i \in Nat /\ Len(text) \in Nat /\ i + 1 \in Nat /\ i + 1 <= Len(text) /\ i \in 0 .. Len(text)
  OBVIOUS
<1>2. Passed(i) \in Nat
  BY <1>1, PassedFacts
<1>3. Passed(i + 1) = k
  BY <1>1, PassedFacts
<1>4. Passed(i + 1) <= Newlines /\ Newlines \in Nat
  BY <1>1, PassedGrows, StartsCounted, LinesOfText
<1> HIDE DEF k
<1>5. k \in 1 .. Newlines /\ k \in 1 .. Newlines + 1
  <2>1. k = Passed(i) + 1
    BY DEF k
  <2>2. QED
    BY <1>2, <1>3, <1>4, <2>1
<1>6. Spanned(k, LineStart(k), LineEnd(k)) /\ LineStart(k) <= i /\ i <= LineEnd(k)
  BY <1>1, LineAt DEF k
<1>7. /\ LineStart(k) \in Nat /\ LineEnd(k) \in LineStart(k) .. Len(text)
      /\ LineStart(k + 1) = LineEnd(k) + 1
  BY <1>5, LinesOfText
<1>8. LineEnd(k) = i
  <2>1. \A j \in LineStart(k) + 1 .. LineEnd(k) : text[j] # Newline
    BY <1>6 DEF Spanned
  <2>2. i + 1 \notin LineStart(k) + 1 .. LineEnd(k)
    BY <2>1
  <2>3. QED
    BY <1>1, <1>6, <1>7, <2>2
<1>9. QED
  BY <1>1, <1>3, <1>5, <1>6, <1>7, <1>8 DEF k, LineLength

\* Any other byte belongs to it.
LEMMA AtByte ==
  ASSUME text \in Seq(Byte), NEW i \in 0 .. Len(text) - 1, text[i + 1] # Newline
  PROVE  LET k == Passed(i) + 1
         IN  /\ k \in 1 .. Newlines + 1 /\ Passed(i + 1) = Passed(i)
             /\ LineStart(k) \in 0 .. i /\ i + 1 <= LineEnd(k)
<1> DEFINE k == Passed(i) + 1
<1>1. i \in Nat /\ Len(text) \in Nat /\ i + 1 \in 0 .. Len(text) /\ i \in 0 .. Len(text)
  OBVIOUS
<1>2. Passed(i) \in Nat
  BY <1>1, PassedFacts
<1>3. Passed(i + 1) = Passed(i)
  <2>1. Passed(i + 1) = Passed(i) + (IF text[i + 1] = Newline THEN 1 ELSE 0)
    BY <1>1, PassedFacts
  <2>2. QED
    BY <1>2, <2>1
<1>4. Passed(i) <= Newlines /\ Newlines \in Nat
  BY <1>1, PassedGrows, StartsCounted, LinesOfText
<1> HIDE DEF k
<1>5. k \in 1 .. Newlines + 1
  BY <1>2, <1>4 DEF k
<1>6. LineStart(k) <= i /\ i + 1 <= LineEnd(k) /\ LineStart(k) \in Nat
  <2>1. LineStart(k) <= i
    BY <1>1, LineAt DEF k
  <2>2. i + 1 <= LineEnd(k)
    BY <1>1, <1>3, LineAt DEF k
  <2>3. QED
    BY <1>5, <2>1, <2>2, LinesOfText
<1>7. QED
  BY <1>1, <1>3, <1>5, <1>6 DEF k

\* As far as the lines fit, no piece is full.
LEMMA FitsIsWhole ==
  ASSUME text \in Seq(Byte), Shape(prog), NEW k \in 1 .. Newlines + 1, FitsPieces(k),
         NEW i \in 0 .. LineEnd(k)
  PROVE  Whole(i)
<1>1. /\ Newlines \in Nat /\ LineEnd(k) \in LineStart(k) .. Len(text) /\ LineStart(k) \in Nat
      /\ Spanned(k, LineStart(k), LineEnd(k))
  BY LinesOfText
<1>2. Len(text) \in Nat /\ i \in Nat /\ LineEnd(k) \in Nat /\ LineEnd(k) <= Len(text)
  BY <1>1
<1>3. prog.cut \in Nat /\ prog.chunk \in Nat
  BY LineAssumption DEF Shape
<1>4. Passed(LineEnd(k)) = k - 1
  <2>1. Passed(LineStart(k)) = k - 1 /\ \A j \in LineStart(k) + 1 .. LineEnd(k) : text[j] # Newline
    BY <1>1 DEF Spanned
  <2>2. LineStart(k) <= LineEnd(k)
    BY <1>1, <1>2
  <2>3. QED
    BY <1>1, <1>2, <2>1, <2>2, PassedStays
<1>5. ASSUME prog.cut > 0, NEW j \in 0 .. i PROVE j - LineStart(Passed(j) + 1) < prog.cut
  <2> DEFINE m == Passed(j) + 1
  <2>1. j \in Nat /\ j <= LineEnd(k) /\ j \in 0 .. Len(text)
    BY <1>2
  <2>2. Passed(j) \in Nat /\ Passed(j) <= Passed(LineEnd(k))
    BY <1>2, <2>1, PassedFacts, PassedGrows
  <2>3. m \in 1 .. k /\ m \in 1 .. Newlines + 1
    BY <1>1, <1>4, <2>2
  <2>4. j <= LineEnd(m)
    BY <2>1, LineAt
  <2> HIDE DEF m
  <2>5. LineLength(m) < prog.cut
    BY <1>5, <2>3 DEF FitsPieces
  <2>6. LineStart(m) \in Nat /\ LineLength(m) \in Nat /\ LineEnd(m) = LineStart(m) + LineLength(m)
    BY <2>3, LinesOfText
  <2>7. j - LineStart(m) < prog.cut
    BY <1>3, <2>1, <2>4, <2>5, <2>6
  <2>8. QED
    BY <2>7 DEF m
<1>6. ASSUME prog.chunk > 0, NEW j \in 1 .. i PROVE j % prog.chunk # 0
  <2>1. LineEnd(k) < prog.chunk
    BY <1>6 DEF FitsPieces
  <2>2. j \in Nat /\ 0 < j /\ j < prog.chunk
    BY <1>2, <1>3, <2>1
  <2>3. QED
    BY <1>3, <2>2, NoMultiple
<1>7. QED
  BY <1>5, <1>6 DEF Whole

\* The leading blanks of a line end where something else is.
LEMMA IndentIs ==
  ASSUME text \in Seq(Byte), NEW k \in 1 .. Newlines + 1, NEW b \in 0 .. LineLength(k),
         \A j \in LineStart(k) + 1 .. LineStart(k) + b : text[j] = Blank,
         b < LineLength(k) => text[LineStart(k) + b + 1] # Blank
  PROVE  Indent(k) = b
<1> DEFINE S == {LineLength(k)} \cup
                {i \in 0 .. LineLength(k) - 1 : text[LineStart(k) + i + 1] # Blank}
<1>1. LineLength(k) \in Nat /\ LineStart(k) \in Nat
  BY LinesOfText
<1>2. S \in SUBSET Int /\ b \in S
  BY <1>1
<1>3. ASSUME NEW y \in S PROVE b <= y
  <2>1. CASE y = LineLength(k)
    BY <1>1, <2>1
  <2>2. CASE y \in 0 .. LineLength(k) - 1 /\ text[LineStart(k) + y + 1] # Blank
    <3>1. LineStart(k) + y + 1 \notin LineStart(k) + 1 .. LineStart(k) + b
      BY <2>2
    <3>2. QED
      BY <1>1, <2>2, <3>1
  <2>3. QED
    BY <2>1, <2>2
<1>4. Indent(k) = Min(S)
  BY DEF Indent
<1> HIDE DEF S
<1>5. QED
  BY <1>2, <1>3, <1>4, LeastIs

\* What an entry does to the table: it is the last, and the others stay; or the
\* table is full.
LEMMA EnteredFacts ==
  ASSUME NEW p, Typed(p), NEW s \in States, NEW ended \in BOOLEAN
  PROVE  LET e == [off |-> s.off + s.blanks, len |-> Counted(p, s, ended)]
             entries == Entered(p, s, ended)
         IN  /\ entries \in Seq(Entry)
             /\ \A k \in 1 .. Len(s.table) : entries[k] = s.table[k]
             /\ \/ p.full = "skip" /\ Len(s.table) = Room /\ entries = s.table
                \/ /\ ~(p.full = "skip" /\ Len(s.table) = Room)
                   /\ Len(entries) = Len(s.table) + 1 /\ entries[Len(s.table) + 1] = e
<1> DEFINE e == [off |-> s.off + s.blanks, len |-> Counted(p, s, ended)]
           entries == Entered(p, s, ended)
<1>1. s.table \in Seq(Entry) /\ s.off \in Int /\ s.blanks \in Nat
  BY DEF States
<1>2. Counted(p, s, ended) \in Int /\ entries \in Seq(Entry)
  BY ClosedTyped
<1>3. e \in Entry
  BY <1>1, <1>2 DEF Entry
<1>4. CASE p.full = "skip" /\ Len(s.table) = Room
  BY <1>1, <1>2, <1>4 DEF Entered
<1>5. CASE ~(p.full = "skip" /\ Len(s.table) = Room)
  <2>1. entries = Append(s.table, e)
    BY <1>5 DEF Entered
  <2> HIDE DEF e, entries
  <2>2. /\ Len(entries) = Len(s.table) + 1 /\ entries[Len(s.table) + 1] = e
        /\ \A k \in 1 .. Len(s.table) : entries[k] = s.table[k]
    BY <1>1, <1>3, <2>1
  <2>3. QED
    BY <1>2, <1>5, <2>2 DEF e, entries
<1>6. QED
  BY <1>4, <1>5

\* What is counted does not depend on how many bytes were read, but for the
\* program that counts from the line before.
LEMMA OverCounts ==
  ASSUME NEW s \in States
  PROVE  /\ Over(s).pos = s.pos + 1 /\ Over(s).lines = s.lines /\ Over(s).off = s.off
         /\ Over(s).len = s.len /\ Over(s).blanks = s.blanks /\ Over(s).table = s.table
  BY DEF Over, StateOf

\* At the end of a line the state holds where it begins and how long it is.
LEMMA LineMeasured ==
  ASSUME text \in Seq(Byte), Shape(prog), NEW s \in States, NEW k \in 1 .. Newlines + 1,
         k = s.lines + 1, s.pos = LineEnd(k), InLine(s)
  PROVE  /\ s.off + s.blanks = OffsetOf(k)
         /\ s.len = LineLength(k) - LeftOut(k) /\ LeftOut(k) \in Nat
<1> DEFINE a == LineStart(k)
<1>1. /\ s.off \in Int /\ s.blanks \in Nat /\ s.len \in Nat /\ k \in Nat
      /\ a \in Nat /\ LineLength(k) \in Nat /\ s.pos = a + LineLength(k)
  BY LinesOfText DEF States
<1>2. /\ s.off = IF prog.entry = "break" /\ k > 1 THEN a - 1
                 ELSE IF prog.step > 0 THEN a + k - 1 ELSE a
      /\ s.blanks + s.len = s.pos - a
      /\ ~prog.blanks => s.blanks = 0
      /\ \A j \in a + 1 .. a + s.blanks : text[j] = Blank
      /\ prog.blanks /\ s.len > 0 => text[a + s.blanks + 1] # Blank
  BY DEF InLine, InLineAt
<1>3. s.blanks + s.len = LineLength(k)
  BY <1>1, <1>2
<1>4. LeftOut(k) = s.blanks
  <2>1. CASE prog.blanks
    <3>1. s.blanks \in 0 .. LineLength(k) /\ (s.blanks < LineLength(k) => s.len > 0)
      BY <1>1, <1>3
    <3>2. Indent(k) = s.blanks
      BY <1>2, <2>1, <3>1, IndentIs
    <3>3. QED
      BY <2>1, <3>2 DEF LeftOut
  <2>2. CASE ~prog.blanks
    BY <1>2, <2>2 DEF LeftOut
  <2>3. QED
    BY <2>1, <2>2
<1> HIDE DEF a
<1>5. s.off + s.blanks = OffsetOf(k)
  <2>1. CASE prog.entry = "break" /\ k > 1
    <3>1. s.blanks = 0
      BY <1>2, <2>1 DEF Shape
    <3>2. QED
      BY <1>1, <1>2, <2>1, <3>1 DEF OffsetOf, a
  <2>2. CASE ~(prog.entry = "break" /\ k > 1) /\ prog.step > 0
    <3>1. s.blanks = 0
      BY <1>2, <2>2 DEF Shape
    <3>2. QED
      BY <1>1, <1>2, <2>2, <3>1 DEF OffsetOf, a
  <2>3. CASE ~(prog.entry = "break" /\ k > 1) /\ ~(prog.step > 0)
    BY <1>1, <1>2, <1>4, <2>3 DEF OffsetOf, a
  <2>4. QED
    BY <2>1, <2>2, <2>3
<1>6. QED
  BY <1>1, <1>3, <1>4, <1>5

\* A line that ends gets its entry.
LEMMA ClosingEntry ==
  ASSUME text \in Seq(Byte), Shape(prog), NEW i \in 0 .. Len(text) - 1, text[i + 1] = Newline,
         NEW s, Come(s, i), s.pos = i, Noted(s), InLine(s)
  PROVE  [off |-> s.off + s.blanks, len |-> Counted(prog, Over(s), TRUE)] = EntryOf(s.lines + 1)
<1> DEFINE k == s.lines + 1
           a == LineStart(k)
<1>1. /\ s \in States /\ s.lines = Passed(i)
      /\ s.off \in Int /\ s.blanks \in Nat /\ s.len \in Nat /\ s.table \in Seq(Entry)
      /\ s.lines \in Nat /\ i \in Nat
  BY DEF Come, States
<1>2. k = Passed(i) + 1
  BY <1>1
<1>3. /\ k \in 1 .. Newlines /\ a \in 0 .. i /\ LineEnd(k) = i
  BY <1>2, AtNewline
<1>4. k \in 1 .. Newlines + 1
  BY <1>3, LinesOfText
<1>5. /\ s.off = IF prog.entry = "break" /\ k > 1 THEN a - 1
                 ELSE IF prog.step > 0 THEN a + k - 1 ELSE a
      /\ \/ Len(s.table) = s.lines
         \/ prog.full = "skip" /\ Len(s.table) = Room /\ s.lines >= Room
  BY DEF InLine, InLineAt
<1> HIDE DEF k
<1>6. /\ s.off + s.blanks = OffsetOf(k)
      /\ s.len = LineLength(k) - LeftOut(k) /\ LeftOut(k) \in Nat
  BY <1>1, <1>3, <1>4, LineMeasured DEF k
<1> HIDE DEF a
<1>7. prog.nl \in {0, 1} /\ a \in Nat /\ k \in Nat
  BY <1>3 DEF Shape
<1>8. LineLength(k) \in Nat
  BY <1>4, LinesOfText
<1>9. Counted(prog, Over(s), TRUE) = LengthOf(k)
  <2>1. CASE prog.entry # "previous"
    <3>1. Counted(prog, Over(s), TRUE) = s.len + prog.nl
      BY <1>1, <2>1, OverCounts DEF Counted
    <3>2. LengthOf(k) = LineLength(k) - LeftOut(k) + prog.nl
      BY <2>1 DEF LengthOf
    <3>3. QED
      BY <1>6, <3>1, <3>2
  <2>2. CASE prog.entry = "previous"
    <3>1. Len(s.table) = s.lines /\ prog.cut = 0 /\ prog.chunk = 0 /\ prog.step = 0 /\ ~prog.blanks
      BY <1>5, <2>2 DEF Shape
    <3>2. CASE k = 1
      <4>1. s.table = <<>>
        BY <1>1, <3>1, <3>2 DEF k
      <4>2. Counted(prog, Over(s), TRUE) = 1
        BY <1>1, <2>2, <4>1, OverCounts DEF Counted
      <4>3. LengthOf(k) = 1
        BY <2>2, <3>2 DEF LengthOf
      <4>4. QED
        BY <4>2, <4>3
    <3>3. CASE k # 1
      <4>1. s.lines \in 1 .. s.lines /\ s.lines = k - 1 /\ s.table # <<>> /\ s.lines > 0
        BY <1>1, <1>3, <3>1, <3>3 DEF k
      <4>2. FitsPieces(s.lines)
        BY <3>1 DEF FitsPieces
      <4>3. s.table[s.lines] = EntryOf(s.lines)
        BY <2>2, <4>1, <4>2 DEF Noted, Shape
      <4>4. Last(s.table) = EntryOf(s.lines)
        BY <3>1, <4>3 DEF Last
      <4>5. s.lines \in 1 .. Newlines + 1
        BY <1>3, <4>1, LinesOfText
      <4>6. LineStart(s.lines) \in Nat
        BY <4>5, LinesOfText
      <4>7. Last(s.table).off = LineStart(s.lines)
        BY <2>2, <3>1, <4>4, <4>6 DEF EntryOf, OffsetOf, LeftOut
      <4>8. s.off = a
        BY <1>5, <2>2, <3>1
      <4>9. Counted(prog, Over(s), TRUE) = s.off - Last(s.table).off
        BY <1>1, <2>2, <4>1, OverCounts DEF Counted
      <4>10. QED
        BY <2>2, <3>3, <4>1, <4>7, <4>8, <4>9 DEF LengthOf, a
    <3>4. QED
      BY <3>2, <3>3
  <2>3. QED
    BY <2>1, <2>2
<1>10. QED
  BY <1>6, <1>9 DEF EntryOf, k

\* What counts as whole of more bytes was so of fewer.
LEMMA WholeBefore ==
  ASSUME NEW i \in Nat, Whole(i + 1)
  PROVE  Whole(i)
<1>1. \A j \in 0 .. i : j \in 0 .. i + 1
  OBVIOUS
<1>2. \A j \in 1 .. i : j \in 1 .. i + 1
  OBVIOUS
<1>3. QED
  BY <1>1, <1>2 DEF Whole

\* Entries stay when others are added.
LEMMA NotedStays ==
  ASSUME NEW s, NEW n, Noted(s), s.lines \in Nat, Len(s.table) \in Nat, Len(n.table) \in Nat,
         Len(s.table) <= Len(n.table), prog.full = "skip" => Len(n.table) <= Room,
         \A k \in 1 .. Len(s.table) : n.table[k] = s.table[k],
         NEW k \in 1 .. s.lines, FitsPieces(k)
  PROVE  \/ k <= Len(n.table) /\ n.table[k] = EntryOf(k)
         \/ prog.full = "skip" /\ Len(n.table) = Room /\ k > Room
<1>1. CASE k <= Len(s.table) /\ s.table[k] = EntryOf(k)
  BY <1>1
<1>2. CASE prog.full = "skip" /\ Len(s.table) = Room /\ k > Room
  BY <1>2
<1>3. QED
  BY <1>1, <1>2 DEF Noted

\* A newline takes the loop from one known state to another.
LEMMA NewlineKnown ==
  ASSUME text \in Seq(Byte), Shape(prog), NEW i \in 0 .. Len(text) - 1, text[i + 1] = Newline,
         NEW s, Known(s, i), s.pos = i
  PROVE  Known(Closed(prog, Over(s), TRUE), i + 1)
<1> DEFINE n == Closed(prog, Over(s), TRUE)
           k == s.lines + 1
           a == LineStart(k)
           e == [off |-> s.off + s.blanks, len |-> Counted(prog, Over(s), TRUE)]
<1>1. /\ s \in States /\ s.lines = Passed(i)
      /\ s.off \in Int /\ s.blanks \in Nat /\ s.len \in Nat /\ s.table \in Seq(Entry)
      /\ s.lines \in Nat /\ i \in Nat /\ i + 1 \in 0 .. i + 1 /\ Len(s.table) \in Nat
      /\ Come(s, i) /\ Noted(s)
      /\ prog.full # "skip" => s.lines <= Len(s.table)
      /\ prog.full = "skip" => Len(s.table) <= Room
  BY DEF Known, Come, States
<1>2. Typed(prog) /\ Room \in Nat
  BY LineAssumption DEF Shape, Typed
<1>3. Over(s) \in States
  BY <1>1, <1>2, ScanTyped
<1>4. n = StateOf(s.pos + 1, s.lines + 1, NextOffset(prog, Over(s), TRUE), 0, 0,
                  Entered(prog, Over(s), TRUE))
  <2>1. TRUE \in BOOLEAN
    OBVIOUS
  <2>2. QED
    BY <1>1, <1>3, <2>1, ClosedParts, OverCounts
<1>5. n \in States
  BY <1>2, <1>3, ClosedTyped
<1> HIDE DEF n
<1>6. /\ n.pos = i + 1 /\ n.lines = k /\ n.off = NextOffset(prog, Over(s), TRUE)
      /\ n.len = 0 /\ n.blanks = 0 /\ n.table = Entered(prog, Over(s), TRUE)
  BY <1>1, <1>4 DEF StateOf
<1>7. /\ n.table \in Seq(Entry)
      /\ \A m \in 1 .. Len(s.table) : n.table[m] = s.table[m]
      /\ \/ prog.full = "skip" /\ Len(s.table) = Room /\ n.table = s.table
         \/ /\ ~(prog.full = "skip" /\ Len(s.table) = Room)
            /\ Len(n.table) = Len(s.table) + 1 /\ n.table[Len(s.table) + 1] = e
  <2>1. TRUE \in BOOLEAN
    OBVIOUS
  <2> DEFINE f == [off |-> Over(s).off + Over(s).blanks, len |-> Counted(prog, Over(s), TRUE)]
             entries == Entered(prog, Over(s), TRUE)
  <2>2. /\ entries \in Seq(Entry)
        /\ \A m \in 1 .. Len(Over(s).table) : entries[m] = Over(s).table[m]
        /\ \/ prog.full = "skip" /\ Len(Over(s).table) = Room /\ entries = Over(s).table
           \/ /\ ~(prog.full = "skip" /\ Len(Over(s).table) = Room)
              /\ Len(entries) = Len(Over(s).table) + 1 /\ entries[Len(Over(s).table) + 1] = f
    BY <1>2, <1>3, <2>1, EnteredFacts
  <2>3. f = e
    BY <1>1, OverCounts
  <2>4. n.table = entries /\ Over(s).table = s.table
    BY <1>1, <1>6, OverCounts
  <2> HIDE DEF f, e, entries
  <2>5. QED
    BY <2>2, <2>3, <2>4
<1>8. k = Passed(i) + 1 /\ k \in Nat
  BY <1>1
<1>9. /\ k \in 1 .. Newlines /\ LineEnd(k) = i /\ a \in 0 .. i /\ Passed(i + 1) = k
      /\ LineStart(k + 1) = i + 1
  BY <1>8, AtNewline
<1>10. k \in 1 .. Newlines + 1
  BY <1>9, LinesOfText
<1> HIDE DEF n, k, a, e
<1>11. /\ Len(n.table) \in Nat /\ Len(s.table) <= Len(n.table)
       /\ prog.full = "skip" => Len(n.table) <= Room
  BY <1>1, <1>2, <1>7
<1>12. Come(n, i + 1)
  <2>1. prog.full # "skip" => k <= Len(n.table)
    BY <1>1, <1>7 DEF k
  <2>2. QED
    BY <1>1, <1>5, <1>6, <1>9, <1>11, <2>1 DEF Come
<1>13. ASSUME Whole(i)
       PROVE  \/ Len(n.table) = k /\ n.table[k] = EntryOf(k)
              \/ prog.full = "skip" /\ Len(n.table) = Room /\ k > Room
  <2>1. InLine(s)
    BY <1>13 DEF Known
  <2>2. e = EntryOf(k)
    BY <1>1, <2>1, ClosingEntry DEF e, k
  <2>3. CASE Len(s.table) = s.lines
    BY <1>1, <1>2, <1>7, <1>8, <2>2, <2>3 DEF k
  <2>4. CASE prog.full = "skip" /\ Len(s.table) = Room /\ s.lines >= Room
    BY <1>1, <1>2, <1>7, <2>4 DEF k
  <2>5. QED
    BY <2>1, <2>3, <2>4 DEF InLine, InLineAt
<1>14. Noted(n)
  <2>1. SUFFICES ASSUME NEW m \in 1 .. n.lines, FitsPieces(m)
                 PROVE  \/ m <= Len(n.table) /\ n.table[m] = EntryOf(m)
                        \/ prog.full = "skip" /\ Len(n.table) = Room /\ m > Room
    BY DEF Noted
  <2>2. CASE m = k
    <3>1. i \in 0 .. LineEnd(k)
      BY <1>1, <1>9
    <3>2. Whole(i)
      BY <1>10, <2>1, <2>2, <3>1, FitsIsWhole
    <3>3. QED
      BY <1>8, <1>13, <2>2, <3>2
  <2>3. CASE m # k
    <3>1. m \in 1 .. s.lines
      BY <1>1, <1>6, <2>3 DEF k
    <3>2. QED
      BY <1>1, <1>7, <1>11, <2>1, <3>1, NotedStays
  <2>4. QED
    BY <2>2, <2>3
<1>15. ASSUME Whole(i + 1) PROVE InLine(n)
  <2>1. Whole(i)
    BY <1>1, <1>15, WholeBefore
  <2>2. /\ s.off = IF prog.entry = "break" /\ k > 1 THEN a - 1
                   ELSE IF prog.step > 0 THEN a + k - 1 ELSE a
        /\ s.blanks + s.len = i - a
        /\ ~prog.blanks => s.blanks = 0
    BY <1>1, <2>1 DEF Known, InLine, InLineAt, k, a
  <2>3. a \in Nat
    BY <1>9
  <2>4. n.off = IF prog.entry = "break" THEN i ELSE IF prog.step > 0 THEN i + 1 + k ELSE i + 1
    <3>1. CASE prog.entry = "break"
      <4>1. n.off = Over(s).pos - 1
        BY <1>6, <3>1 DEF NextOffset, Shape
      <4>2. QED
        BY <1>1, <3>1, <4>1, OverCounts
    <3>2. CASE prog.entry = "previous"
      <4>1. n.off = Over(s).pos
        BY <1>6, <3>2 DEF NextOffset, Shape
      <4>2. prog.step = 0
        BY <3>2 DEF Shape
      <4>3. QED
        BY <1>1, <3>2, <4>1, <4>2, OverCounts
    <3>3. CASE prog.entry = "line" /\ prog.step > 0
      <4>1. prog.step = 2 /\ s.blanks = 0 /\ s.off = a + k - 1
        BY <2>2, <3>3 DEF Shape
      <4>2. n.off = Over(s).off + Over(s).len + prog.step
        BY <1>6, <3>3 DEF NextOffset
      <4>3. Over(s).off = s.off /\ Over(s).len = s.len
        BY <1>1, OverCounts
      <4>4. s.len = i - a
        BY <1>1, <2>2, <2>3, <4>1
      <4>5. n.off = s.off + s.len + 2
        BY <4>1, <4>2, <4>3
      <4>6. n.off = i + 1 + k
        BY <1>1, <1>8, <2>3, <4>1, <4>4, <4>5
      <4>7. QED
        BY <3>3, <4>6
    <3>4. CASE prog.entry = "line" /\ ~(prog.step > 0)
      <4>1. s.off = a
        BY <2>2, <3>4
      <4>2. n.off = Over(s).off + Over(s).blanks + Over(s).len + 1
        BY <1>6, <3>4 DEF NextOffset
      <4>3. Over(s).off = s.off /\ Over(s).len = s.len /\ Over(s).blanks = s.blanks
        BY <1>1, OverCounts
      <4>4. n.off = i + 1
        BY <1>1, <2>2, <2>3, <4>1, <4>2, <4>3
      <4>5. QED
        BY <3>4, <4>4
    <3>5. QED
      BY <3>1, <3>2, <3>3, <3>4 DEF Shape
  <2>5. k + 1 > 1 /\ (i + 1) - 1 = i /\ (i + 1) + (k + 1) - 1 = i + 1 + k /\ (i + 1) - (i + 1) = 0
    BY <1>1, <1>9
  <2>6. n.off = IF prog.entry = "break" /\ k + 1 > 1 THEN (i + 1) - 1
                ELSE IF prog.step > 0 THEN (i + 1) + (k + 1) - 1 ELSE i + 1
    BY <2>4, <2>5
  <2>7. \/ Len(n.table) = n.lines
        \/ prog.full = "skip" /\ Len(n.table) = Room /\ n.lines >= Room
    <3>1. CASE Len(n.table) = k
      BY <1>6, <3>1
    <3>2. CASE prog.full = "skip" /\ Len(n.table) = Room /\ k > Room
      <4>1. k >= Room
        BY <1>2, <1>8, <3>2
      <4>2. n.lines = k
        BY <1>6
      <4>3. QED
        BY <3>2, <4>1, <4>2
    <3>3. \/ Len(n.table) = k
          \/ prog.full = "skip" /\ Len(n.table) = Room /\ k > Room
      BY <1>13, <2>1
    <3>4. QED
      BY <3>1, <3>2, <3>3
  <2>8. \A j \in (i + 1) + 1 .. (i + 1) + 0 : text[j] = Blank
    BY <1>1
  <2>9. n.blanks + n.len = n.pos - (i + 1) /\ n.len = 0 /\ n.blanks = 0
    BY <1>1, <1>6
  <2>10. InLineAt(n, k + 1, i + 1)
    BY <2>6, <2>7, <2>8, <2>9 DEF InLineAt
  <2>11. QED
    BY <1>6, <1>9, <2>10 DEF InLine
<1>16. QED
  BY <1>6, <1>12, <1>14, <1>15 DEF Known, n

\* A byte of a line lengthens it, or the blanks before it.
LEMMA BehindFacts ==
  ASSUME NEW p, NEW s \in States, NEW b
  PROVE  LET n == Behind(p, s, b)
         IN  /\ n.pos = s.pos + 1 /\ n.lines = s.lines /\ n.off = s.off /\ n.table = s.table
             /\ \/ /\ p.blanks /\ b = Blank /\ s.len = 0
                   /\ n.blanks = s.blanks + 1 /\ n.len = s.len
                \/ /\ ~(p.blanks /\ b = Blank /\ s.len = 0)
                   /\ n.blanks = s.blanks /\ n.len = s.len + 1
<1>1. CASE p.blanks /\ b = Blank /\ s.len = 0
  BY <1>1 DEF Behind, StateOf
<1>2. CASE ~(p.blanks /\ b = Blank /\ s.len = 0)
  BY <1>2 DEF Behind, StateOf
<1>3. QED
  BY <1>1, <1>2

\* Such a byte takes the loop from a known state to another,
LEMMA ByteKnown ==
  ASSUME text \in Seq(Byte), Shape(prog), NEW i \in 0 .. Len(text) - 1, text[i + 1] # Newline,
         NEW s, Known(s, i), s.pos = i
  PROVE  LET n == Behind(prog, s, text[i + 1])
         IN  Known(n, i + 1) /\ (Whole(i) => InLine(n))
<1> DEFINE b == text[i + 1]
           n == Behind(prog, s, b)
           k == s.lines + 1
           a == LineStart(k)
<1>1. /\ s \in States /\ s.lines = Passed(i)
      /\ s.off \in Int /\ s.blanks \in Nat /\ s.len \in Nat /\ s.table \in Seq(Entry)
      /\ s.lines \in Nat /\ i \in Nat /\ i + 1 \in 0 .. i + 1 /\ Len(s.table) \in Nat
      /\ Come(s, i) /\ Noted(s)
      /\ prog.full # "skip" => s.lines <= Len(s.table)
      /\ prog.full = "skip" => Len(s.table) <= Room
  BY DEF Known, Come, States
<1>2. /\ n.pos = s.pos + 1 /\ n.lines = s.lines /\ n.off = s.off /\ n.table = s.table
      /\ \/ /\ prog.blanks /\ b = Blank /\ s.len = 0
            /\ n.blanks = s.blanks + 1 /\ n.len = s.len
         \/ /\ ~(prog.blanks /\ b = Blank /\ s.len = 0)
            /\ n.blanks = s.blanks /\ n.len = s.len + 1
  BY <1>1, BehindFacts
<1>3. n \in States
  <2>1. Typed(prog)
    BY LineAssumption DEF Shape, Typed
  <2>2. QED
    BY <1>1, <2>1, ScanTyped
<1>4. /\ k \in 1 .. Newlines + 1 /\ Passed(i + 1) = Passed(i) /\ a \in 0 .. i
  BY <1>1, AtByte
<1> HIDE DEF n, k, a
<1>5. Come(n, i + 1)
  BY <1>1, <1>2, <1>3, <1>4 DEF Come
<1>6. Noted(n)
  BY <1>1, <1>2 DEF Noted
<1>7. ASSUME Whole(i) PROVE InLine(n)
  <2>1. InLineAt(s, k, a)
    BY <1>1, <1>7 DEF Known, InLine, k, a
  <2>2. /\ s.blanks + s.len = i - a
        /\ ~prog.blanks => s.blanks = 0
        /\ \A j \in a + 1 .. a + s.blanks : text[j] = Blank
        /\ prog.blanks /\ s.len > 0 => text[a + s.blanks + 1] # Blank
    BY <2>1 DEF InLineAt
  <2>3. a \in Nat
    BY <1>4
  <2>4. n.blanks + n.len = n.pos - a
    <3>1. n.pos = i + 1
      BY <1>1, <1>2
    <3>2. (s.blanks + 1) + s.len = (i + 1) - a /\ s.blanks + (s.len + 1) = (i + 1) - a
      <4>1. s.blanks \in Nat /\ s.len \in Nat /\ i \in Nat /\ s.blanks + s.len = i - a
        BY <1>1, <2>2
      <4>2. QED
        BY <2>3, <4>1
    <3>3. CASE n.blanks = s.blanks + 1 /\ n.len = s.len
      BY <3>1, <3>2, <3>3
    <3>4. CASE n.blanks = s.blanks /\ n.len = s.len + 1
      BY <3>1, <3>2, <3>4
    <3>5. QED
      BY <1>2, <3>3, <3>4
  <2>5. /\ ~prog.blanks => n.blanks = 0
        /\ \A j \in a + 1 .. a + n.blanks : text[j] = Blank
        /\ prog.blanks /\ n.len > 0 => text[a + n.blanks + 1] # Blank
    <3>1. CASE prog.blanks /\ b = Blank /\ s.len = 0
      <4>1. n.blanks = s.blanks + 1 /\ n.len = 0
        BY <1>2, <3>1
      <4>2. i + 1 = a + n.blanks
        BY <1>1, <2>2, <2>3, <3>1, <4>1
      <4>3. ASSUME NEW j \in a + 1 .. a + n.blanks PROVE text[j] = Blank
        <5>1. j \in a + 1 .. a + s.blanks \/ j = i + 1
          BY <1>1, <2>3, <4>1, <4>2
        <5>2. QED
          BY <2>2, <3>1, <5>1
      <4>4. QED
        BY <3>1, <4>1, <4>3
    <3>2. CASE ~(prog.blanks /\ b = Blank /\ s.len = 0)
      <4>1. n.blanks = s.blanks
        BY <1>2, <3>2
      <4>2. CASE s.len > 0
        BY <2>2, <4>1, <4>2
      <4>3. CASE s.len = 0
        <5>1. a + s.blanks + 1 = i + 1
          BY <1>1, <2>2, <2>3, <4>3
        <5>2. prog.blanks => text[a + n.blanks + 1] # Blank
          BY <3>2, <4>1, <4>3, <5>1
        <5>3. QED
          BY <2>2, <4>1, <5>2
      <4>4. QED
        BY <1>1, <4>2, <4>3
    <3>3. QED
      BY <3>1, <3>2
  <2>6. InLineAt(n, k, a)
    BY <1>2, <2>1, <2>4, <2>5 DEF InLineAt
  <2>7. QED
    BY <1>2, <2>6 DEF InLine, k, a
<1>8. ASSUME Whole(n.pos) PROVE InLine(n)
  <2>1. Whole(i)
    BY <1>1, <1>2, <1>8, WholeBefore
  <2>2. QED
    BY <1>7, <2>1
<1>9. QED
  BY <1>5, <1>6, <1>7, <1>8 DEF Known, n

\* and if a piece is full with it, the text read is not whole.
LEMMA PieceKnown ==
  ASSUME text \in Seq(Byte), Shape(prog), NEW i \in 0 .. Len(text) - 1, text[i + 1] # Newline,
         NEW s, Known(s, i), s.pos = i, PieceIsFull(prog, Behind(prog, s, text[i + 1]))
  PROVE  Known(Closed(prog, Behind(prog, s, text[i + 1]), FALSE), i + 1)
<1> DEFINE c == Behind(prog, s, text[i + 1])
           n == Closed(prog, c, FALSE)
<1>1. /\ s \in States /\ s.lines = Passed(i) /\ i \in Nat /\ i + 1 \in 0 .. i + 1
  BY DEF Known, Come, States
<1>2. Typed(prog) /\ Room \in Nat /\ prog.cut \in Nat /\ FALSE \in BOOLEAN
  BY LineAssumption DEF Shape, Typed
<1>3. Known(c, i + 1) /\ (Whole(i) => InLine(c))
  BY ByteKnown
<1>4. c \in States /\ c.pos = i + 1 /\ c.lines = s.lines
  BY <1>1, <1>2, ScanTyped, BehindFacts
<1>5. PieceIsFull(prog, c)
  OBVIOUS
<1> HIDE DEF c
<1>6. n = StateOf(c.pos, c.lines + 0, NextOffset(prog, c, FALSE), 0, 0, Entered(prog, c, FALSE))
  BY <1>2, <1>4, ClosedParts
<1>7. n \in States
  BY <1>2, <1>4, ClosedTyped
<1> DEFINE f == [off |-> c.off + c.blanks, len |-> Counted(prog, c, FALSE)]
           entries == Entered(prog, c, FALSE)
<1>8. /\ entries \in Seq(Entry)
      /\ \A m \in 1 .. Len(c.table) : entries[m] = c.table[m]
      /\ \/ prog.full = "skip" /\ Len(c.table) = Room /\ entries = c.table
         \/ /\ ~(prog.full = "skip" /\ Len(c.table) = Room)
            /\ Len(entries) = Len(c.table) + 1 /\ entries[Len(c.table) + 1] = f
  BY <1>2, <1>4, EnteredFacts
<1> HIDE DEF n, f
<1>9. /\ c.lines \in Nat /\ c.table \in Seq(Entry) /\ Len(c.table) \in Nat /\ Noted(c)
      /\ c.lines = Passed(i + 1)
      /\ prog.full = "stop" => FALSE
      /\ prog.full # "skip" => c.lines <= Len(c.table)
      /\ prog.full = "skip" => Len(c.table) <= Room
  <2>1. prog.full # "stop"
    BY <1>5 DEF PieceIsFull, Shape
  <2>2. QED
    BY <1>3, <1>4, <2>1 DEF Known, Come, States
<1>10. n.pos = i + 1 /\ n.lines = c.lines /\ n.table = entries
  BY <1>4, <1>6, <1>9 DEF StateOf
<1> HIDE DEF entries
<1>11. /\ Len(n.table) \in Nat /\ Len(c.table) <= Len(n.table)
       /\ prog.full = "skip" => Len(n.table) <= Room
  BY <1>2, <1>8, <1>9, <1>10
<1>12. Come(n, i + 1)
  BY <1>1, <1>7, <1>9, <1>10, <1>11 DEF Come
<1>13. Noted(n)
  <2>1. SUFFICES ASSUME NEW m \in 1 .. n.lines, FitsPieces(m)
                 PROVE  \/ m <= Len(n.table) /\ n.table[m] = EntryOf(m)
                        \/ prog.full = "skip" /\ Len(n.table) = Room /\ m > Room
    BY DEF Noted
  <2>2. m \in 1 .. c.lines
    BY <1>10
  <2>3. \A j \in 1 .. Len(c.table) : n.table[j] = c.table[j]
    BY <1>8, <1>10
  <2>4. QED
    BY <1>9, <1>11, <2>1, <2>2, <2>3, NotedStays
<1>14. ~Whole(i + 1)
  <2>1. SUFFICES ASSUME Whole(i + 1) PROVE FALSE
    OBVIOUS
  <2>2. CASE prog.cut > 0 /\ c.len = prog.cut
    <3>1. Whole(i)
      BY <1>1, <2>1, WholeBefore
    <3>2. InLineAt(c, c.lines + 1, LineStart(c.lines + 1))
      BY <1>3, <3>1 DEF InLine
    <3>3. c.blanks = 0
      BY <2>2, <3>2 DEF InLineAt, Shape
    <3>4. LineStart(Passed(i + 1) + 1) \in Nat
      <4>1. Passed(i + 1) = Passed(i) /\ LineStart(Passed(i) + 1) \in 0 .. i
        BY AtByte
      <4>2. QED
        BY <1>1, <4>1
    <3>5. c.len = (i + 1) - LineStart(Passed(i + 1) + 1)
      <4>1. c.blanks + c.len = c.pos - LineStart(Passed(i + 1) + 1)
        BY <1>9, <3>2 DEF InLineAt
      <4>2. c.len \in Nat
        BY <1>4 DEF States
      <4>3. QED
        BY <1>1, <1>4, <3>3, <3>4, <4>1, <4>2
    <3>6. (i + 1) - LineStart(Passed(i + 1) + 1) < prog.cut
      <4>1. \A j \in 0 .. i + 1 : j - LineStart(Passed(j) + 1) < prog.cut
        BY <2>1, <2>2 DEF Whole
      <4>2. i + 1 \in 0 .. i + 1
        BY <1>1
      <4>3. QED
        BY <4>1, <4>2
    <3>7. QED
      BY <1>2, <2>2, <3>4, <3>5, <3>6
  <2>3. CASE prog.chunk > 0 /\ c.pos % prog.chunk = 0
    <3>1. i + 1 \in 1 .. i + 1
      BY <1>1
    <3>2. QED
      BY <1>4, <2>1, <2>3, <3>1 DEF Whole
  <2>4. QED
    BY <1>5, <2>2, <2>3 DEF PieceIsFull
<1>15. QED
  BY <1>10, <1>12, <1>13, <1>14 DEF Known, n, c

\* So every state of the loop is known.
LEMMA LoopKnown ==
  ASSUME text \in Seq(Byte), Shape(prog)
  PROVE  \A i \in 0 .. Len(text) : Known(Scans(prog, text)[i], i)
<1> DEFINE states == Scans(prog, text)
           S == {i \in 0 .. Len(text) : Known(states[i], i)}
<1>1. Len(text) \in Nat /\ Typed(prog)
  BY LineAssumption DEF Shape, Typed
<1>2. /\ states[0] = Start
      /\ \A i \in 0 .. Len(text) : states[i] \in States
      /\ \A i \in 1 .. Len(text) : states[i] = Scan(prog, states[i - 1], text[i])
  BY <1>1, ScansFacts
<1> HIDE DEF states
<1>3. Known(Start, 0)
  <2>1. /\ Start.pos = 0 /\ Start.lines = 0 /\ Start.off = 0 /\ Start.len = 0
        /\ Start.blanks = 0 /\ Start.table = <<>> /\ Len(Start.table) = 0
    BY DEF Start
  <2>2. Start \in States
    BY <1>1, <1>2
  <2>3. Come(Start, 0)
    BY <2>1, <2>2, PassedFacts, LineAssumption DEF Come
  <2>4. Noted(Start)
    BY <2>1 DEF Noted
  <2>5. LineStart(1) = 0
    <3>1. 0 \in 0 .. Len(text) /\ Passed(0) + 1 = 1
      BY <1>1, PassedFacts
    <3>2. LineStart(1) <= 0 /\ LineStart(1) \in Starts
      BY <3>1, LineAt DEF Spanned
    <3>3. QED
      BY <3>2 DEF Starts
  <2>6. InLineAt(Start, 1, 0)
    BY <2>1 DEF InLineAt
  <2>7. InLine(Start)
    BY <2>1, <2>5, <2>6 DEF InLine
  <2>8. QED
    BY <2>3, <2>4, <2>7 DEF Known
<1>4. 0 \in S
  BY <1>1, <1>2, <1>3
<1>5. ASSUME NEW i \in 0 .. Len(text) - 1, i \in S PROVE i + 1 \in S
  <2> DEFINE s == states[i]
             b == text[i + 1]
  <2>known. ASSUME Known(states[i + 1], i + 1) PROVE i + 1 \in S
    <3>1. i + 1 \in 0 .. Len(text)
      BY <1>1
    <3>2. QED
      BY <2>known, <3>1
  <2>1. i \in Nat /\ i + 1 \in 1 .. Len(text) /\ i \in 0 .. Len(text) /\ (i + 1) - 1 = i
    BY <1>1
  <2>2. states[i + 1] = Scan(prog, s, b) /\ s \in States /\ Known(s, i)
    BY <1>2, <1>5, <2>1
  <2> HIDE DEF s
  <2>3. Scan(prog, s, b) =
          IF prog.full = "stop" /\ s.lines = Room THEN s
          ELSE IF b = Newline THEN Closed(prog, Over(s), TRUE)
          ELSE IF PieceIsFull(prog, Behind(prog, s, b)) THEN Closed(prog, Behind(prog, s, b), FALSE)
          ELSE Behind(prog, s, b)
    BY <2>2, ScanCases
  <2>4. CASE prog.full = "stop" /\ s.lines = Room
    <3>1. Come(s, i + 1)
      BY <2>1, <2>2, <2>4 DEF Known, Come
    <3>2. QED
      BY <2>1, <2>2, <2>3, <2>4, <3>1 DEF Known
  <2>5. CASE ~(prog.full = "stop" /\ s.lines = Room)
    <3>1. s.pos = i
      BY <2>2, <2>5 DEF Known, Come
    <3>2. CASE b = Newline
      <4>1. states[i + 1] = Closed(prog, Over(s), TRUE)
        BY <2>2, <2>3, <2>5, <3>2
      <4>2. Known(Closed(prog, Over(s), TRUE), i + 1)
        BY <2>2, <3>1, <3>2, NewlineKnown
      <4>3. QED
        BY <1>1, <2>known, <4>1, <4>2
    <3>3. CASE b # Newline /\ PieceIsFull(prog, Behind(prog, s, b))
      <4>1. states[i + 1] = Closed(prog, Behind(prog, s, b), FALSE)
        BY <2>2, <2>3, <2>5, <3>3
      <4>2. Known(Closed(prog, Behind(prog, s, b), FALSE), i + 1)
        BY <2>2, <3>1, <3>3, PieceKnown
      <4>3. QED
        BY <1>1, <2>known, <4>1, <4>2
    <3>4. CASE b # Newline /\ ~PieceIsFull(prog, Behind(prog, s, b))
      <4>1. states[i + 1] = Behind(prog, s, b)
        BY <2>2, <2>3, <2>5, <3>4
      <4>2. Known(Behind(prog, s, b), i + 1)
        BY <2>2, <3>1, <3>4, ByteKnown
      <4>3. QED
        BY <1>1, <2>known, <4>1, <4>2
    <3>5. QED
      BY <3>2, <3>3, <3>4
  <2>6. QED
    BY <2>4, <2>5
<1> HIDE DEF S
<1>6. \A i \in 0 .. Len(text) : i \in S
  BY <1>1, <1>4, <1>5, Upwards
<1>7. QED
  BY <1>6 DEF S, states

-----------------------------------------------------------------------------
(*****************************************************************************)
(* The table.                                                                *)
(*****************************************************************************)
\* The entry of what lies behind the last newline.
TailEntry ==
  [off |-> OffsetOf(Newlines + 1),
   len |-> IF prog.entry = "previous" THEN Len(text) - LineStart(Newlines)
           ELSE LineLength(Newlines + 1) - LeftOut(Newlines + 1)]

EntryAt(k) == IF k <= Newlines THEN EntryOf(k) ELSE TailEntry

\* Line k is read, and as a whole.
ReadTo(k) == FitsPieces(k) /\ (prog.full = "stop" => k <= Room)

\* What the end of the text does to the table: it gets one more entry, or none.
LEMMA FinishFacts ==
  ASSUME NEW p, Typed(p), NEW s \in States
  PROVE  LET f == Finish(p, s)
             e == [off |-> s.off + s.blanks, len |-> Counted(p, s, FALSE)]
             more == \/ p.tail = "always"
                     \/ p.tail = "some" /\ s.len > 0 /\ (p.entry = "previous" => s.lines > 0)
         IN  /\ f.table \in Seq(Entry) /\ f.lines = s.lines
             /\ \A k \in 1 .. Len(s.table) : f.table[k] = s.table[k]
             /\ \/ /\ ~more \/ (p.full = "skip" /\ Len(s.table) = Room)
                   /\ f.table = s.table
                \/ /\ more /\ ~(p.full = "skip" /\ Len(s.table) = Room)
                   /\ Len(f.table) = Len(s.table) + 1 /\ f.table[Len(s.table) + 1] = e
<1> DEFINE f == Finish(p, s)
           e == [off |-> s.off + s.blanks, len |-> Counted(p, s, FALSE)]
           more == \/ p.tail = "always"
                   \/ p.tail = "some" /\ s.len > 0 /\ (p.entry = "previous" => s.lines > 0)
           entries == Entered(p, s, FALSE)
<1>1. f = IF more THEN Closed(p, s, FALSE) ELSE s
  BY DEF Finish
<1>2. s.table \in Seq(Entry) /\ s.lines \in Nat /\ FALSE \in BOOLEAN
  BY DEF States
<1> DEFINE Holds ==
  /\ f.table \in Seq(Entry) /\ f.lines = s.lines
  /\ \A k \in 1 .. Len(s.table) : f.table[k] = s.table[k]
  /\ \/ /\ ~more \/ (p.full = "skip" /\ Len(s.table) = Room)
        /\ f.table = s.table
     \/ /\ more /\ ~(p.full = "skip" /\ Len(s.table) = Room)
        /\ Len(f.table) = Len(s.table) + 1 /\ f.table[Len(s.table) + 1] = e
<1>3. ASSUME ~more PROVE Holds
  BY <1>1, <1>2, <1>3
<1>4. ASSUME more PROVE Holds
  <2>1. f = StateOf(s.pos, s.lines + 0, NextOffset(p, s, FALSE), 0, 0, entries)
    BY <1>1, <1>2, <1>4, ClosedParts
  <2>2. f.table = entries /\ f.lines = s.lines
    <3> HIDE DEF entries, f
    <3>1. QED
      BY <1>2, <2>1 DEF StateOf
  <2>3. /\ entries \in Seq(Entry)
        /\ \A k \in 1 .. Len(s.table) : entries[k] = s.table[k]
        /\ \/ p.full = "skip" /\ Len(s.table) = Room /\ entries = s.table
           \/ /\ ~(p.full = "skip" /\ Len(s.table) = Room)
              /\ Len(entries) = Len(s.table) + 1 /\ entries[Len(s.table) + 1] = e
    BY <1>2, EnteredFacts
  <2> HIDE DEF entries, e, more, f
  <2>4. QED
    BY <1>4, <2>2, <2>3
<1>5. Holds
  <2> HIDE DEF Holds, more
  <2>1. QED
    BY <1>3, <1>4
<1>6. QED
  BY <1>5

\* What the loop leaves when the text is at its end.
LEMMA LoopEnd ==
  ASSUME text \in Seq(Byte), Shape(prog)
  PROVE  LET s == Scans(prog, text)[Len(text)]
         IN  /\ s \in States /\ Known(s, Len(text))
             /\ s.lines \in Nat /\ s.lines <= Newlines /\ s.table \in Seq(Entry)
             /\ s.pos \in 0 .. Len(text)
             /\ \/ s.lines = Newlines /\ s.pos = Len(text)
                \/ prog.full = "stop" /\ s.lines = Room
<1> DEFINE s == Scans(prog, text)[Len(text)]
<1>1. Len(text) \in Nat /\ Len(text) \in 0 .. Len(text)
  OBVIOUS
<1>2. Known(s, Len(text))
  BY <1>1, LoopKnown
<1> HIDE DEF s
<1>3. /\ s \in States /\ s.pos \in 0 .. Len(text) /\ s.lines = Passed(s.pos)
      /\ s.pos = Len(text) \/ (prog.full = "stop" /\ s.lines = Room)
      /\ s.lines \in Nat /\ s.table \in Seq(Entry)
  BY <1>2 DEF Known, Come, States
<1>4. Newlines = Passed(Len(text))
  BY StartsCounted
<1>5. s.lines <= Newlines
  <2>1. s.pos \in Nat /\ s.pos <= Len(text)
    BY <1>1, <1>3
  <2>2. QED
    BY <1>1, <1>3, <1>4, <2>1, PassedGrows
<1>6. QED
  BY <1>2, <1>3, <1>4, <1>5 DEF s

\* What it says of lines that were read as a whole.
LEMMA TailMeasured ==
  ASSUME text \in Seq(Byte), Shape(prog), ReadTo(Newlines + 1)
  PROVE  LET s == Scans(prog, text)[Len(text)]
         IN  /\ s.lines = Newlines /\ s.pos = Len(text)
             /\ \/ Len(s.table) = Newlines
                \/ prog.full = "skip" /\ Len(s.table) = Room /\ Newlines >= Room
             /\ s.off + s.blanks = OffsetOf(Newlines + 1)
             /\ s.len = LineLength(Newlines + 1) - LeftOut(Newlines + 1)
             /\ LeftOut(Newlines + 1) \in Nat
<1> DEFINE s == Scans(prog, text)[Len(text)]
           k == Newlines + 1
<1>1. /\ s \in States /\ Known(s, Len(text))
      /\ s.lines \in Nat /\ s.lines <= Newlines /\ s.table \in Seq(Entry)
      /\ \/ s.lines = Newlines /\ s.pos = Len(text)
         \/ prog.full = "stop" /\ s.lines = Room
  BY LoopEnd
<1> HIDE DEF s
<1>2. Newlines \in Nat /\ Room \in Nat /\ Len(text) \in Nat
  BY LinesOfText, LineAssumption
<1>3. s.lines = Newlines /\ s.pos = Len(text)
  BY <1>1, <1>2 DEF ReadTo
<1>4. k \in 1 .. Newlines + 1 /\ k = s.lines + 1 /\ Len(text) \in 0 .. Len(text)
  BY <1>2, <1>3
<1>5. LineEnd(k) = Len(text)
  <2>1. Newlines = Passed(Len(text))
    BY StartsCounted
  <2>2. Len(text) <= LineEnd(k)
    BY <1>4, <2>1, LineAt
  <2>3. LineEnd(k) \in LineStart(k) .. Len(text) /\ LineStart(k) \in Nat
    BY <1>4, LinesOfText
  <2>4. QED
    BY <1>2, <2>2, <2>3
<1> HIDE DEF k
<1>6. Whole(Len(text))
  <2>1. FitsPieces(k)
    BY DEF ReadTo, k
  <2>2. Len(text) \in 0 .. LineEnd(k)
    BY <1>2, <1>5
  <2>3. QED
    BY <1>4, <2>1, <2>2, FitsIsWhole
<1>7. InLine(s)
  BY <1>1, <1>3, <1>6 DEF Known
<1>8. /\ s.off + s.blanks = OffsetOf(k)
      /\ s.len = LineLength(k) - LeftOut(k) /\ LeftOut(k) \in Nat
  BY <1>1, <1>3, <1>4, <1>5, <1>7, LineMeasured
<1>9. \/ Len(s.table) = s.lines
      \/ prog.full = "skip" /\ Len(s.table) = Room /\ s.lines >= Room
  BY <1>7 DEF InLine, InLineAt
<1>10. QED
  BY <1>3, <1>8, <1>9 DEF s, k

\* The table that results. Line k has the entry it should have, wherever it has one;
LEMMA TableEntries ==
  ASSUME text \in Seq(Byte), Shape(prog), NEW k \in 1 .. Newlines + 1, ReadTo(k),
         k <= Len(Table(prog, text))
  PROVE  Table(prog, text)[k] = EntryAt(k) /\ (prog.entry = "previous" => Newlines > 0)
<1> DEFINE s == Scans(prog, text)[Len(text)]
           f == Finish(prog, s)
           T == f.table
<1>1. Table(prog, text) = T
  BY DEF Table, Scanned
<1>2. /\ s \in States /\ Known(s, Len(text))
      /\ s.lines \in Nat /\ s.lines <= Newlines /\ s.table \in Seq(Entry)
      /\ \/ s.lines = Newlines /\ s.pos = Len(text)
         \/ prog.full = "stop" /\ s.lines = Room
  BY LoopEnd
<1>3. Typed(prog) /\ Room \in Nat /\ Newlines \in Nat
  <2>1. Typed(prog)
    BY LineAssumption DEF Shape, Typed
  <2>2. Newlines \in Nat
    BY LinesOfText
  <2>3. QED
    BY <2>1, <2>2, LineAssumption
<1> DEFINE e == [off |-> s.off + s.blanks, len |-> Counted(prog, s, FALSE)]
           more == \/ prog.tail = "always"
                   \/ prog.tail = "some" /\ s.len > 0 /\ (prog.entry = "previous" => s.lines > 0)
<1>4. /\ T \in Seq(Entry)
      /\ \A m \in 1 .. Len(s.table) : T[m] = s.table[m]
      /\ \/ T = s.table
         \/ /\ more /\ ~(prog.full = "skip" /\ Len(s.table) = Room)
            /\ Len(T) = Len(s.table) + 1 /\ T[Len(s.table) + 1] = e
  BY <1>2, <1>3, FinishFacts
<1> HIDE DEF s, f, T
<1>5. Len(s.table) \in Nat /\ Len(T) \in Nat
  BY <1>2, <1>4
<1>6. CASE k <= Newlines
  <2>1. k \in 1 .. s.lines /\ FitsPieces(k)
    BY <1>2, <1>3, <1>6 DEF ReadTo
  <2>2. \/ k <= Len(s.table) /\ s.table[k] = EntryOf(k)
        \/ prog.full = "skip" /\ Len(s.table) = Room /\ k > Room
    BY <1>2, <2>1 DEF Known, Noted
  <2>3. ~(prog.full = "skip" /\ Len(s.table) = Room /\ k > Room)
    BY <1>1, <1>3, <1>4
  <2>4. T[k] = EntryOf(k)
    BY <1>4, <1>5, <2>2, <2>3
  <2>5. QED
    BY <1>1, <1>3, <1>6, <2>4 DEF EntryAt
<1>7. CASE k > Newlines
  <2>1. k = Newlines + 1
    BY <1>3, <1>7
  <2>2. /\ s.lines = Newlines /\ s.pos = Len(text)
        /\ \/ Len(s.table) = Newlines
           \/ prog.full = "skip" /\ Len(s.table) = Room /\ Newlines >= Room
        /\ s.off + s.blanks = OffsetOf(k)
        /\ s.len = LineLength(k) - LeftOut(k)
    BY <2>1, TailMeasured DEF s
  <2>3. Len(s.table) = Newlines /\ more /\ T[k] = e
    <3>1. ~(prog.full = "skip" /\ Len(s.table) = Room /\ Newlines >= Room)
      BY <1>1, <1>3, <1>4, <2>1
    <3>2. Len(s.table) = Newlines
      BY <2>2, <3>1
    <3>3. T # s.table
      BY <1>1, <1>3, <2>1, <3>2
    <3>4. QED
      BY <1>4, <2>1, <3>2, <3>3
  <2>4. prog.entry = "previous" => Newlines > 0
    BY <2>2, <2>3 DEF Shape
  <2>5. Counted(prog, s, FALSE) = IF prog.entry = "previous" THEN Len(text) - LineStart(Newlines)
                                  ELSE LineLength(k) - LeftOut(k)
    <3>1. CASE prog.entry # "previous"
      <4>1. Counted(prog, s, FALSE) = s.len + 0
        BY <3>1 DEF Counted
      <4>2. s.len \in Nat
        BY <1>2 DEF States
      <4>3. s.len + 0 = s.len
        BY <4>2
      <4>4. QED
        BY <2>2, <3>1, <4>1, <4>3
    <3>2. CASE prog.entry = "previous"
      <4>1. /\ prog.cut = 0 /\ prog.chunk = 0 /\ prog.step = 0 /\ ~prog.blanks
            /\ prog.full = "over"
        BY <3>2 DEF Shape
      <4>2. Newlines \in 1 .. s.lines /\ FitsPieces(Newlines) /\ s.table # <<>>
        BY <1>2, <1>3, <2>2, <2>3, <2>4, <3>2, <4>1 DEF FitsPieces
      <4>3. s.table[Newlines] = EntryOf(Newlines)
        BY <1>2, <4>1, <4>2 DEF Known, Noted
      <4>4. Last(s.table) = EntryOf(Newlines)
        BY <2>3, <4>3 DEF Last
      <4>5. LineStart(Newlines) \in Nat
        <5>1. Newlines \in 1 .. Newlines + 1
          BY <1>3, <2>4, <3>2
        <5>2. QED
          BY <5>1, LinesOfText
      <4>6. Last(s.table).off = LineStart(Newlines)
        BY <3>2, <4>1, <4>4, <4>5 DEF EntryOf, OffsetOf, LeftOut
      <4>7. Counted(prog, s, FALSE) = s.pos - Last(s.table).off
        BY <3>2, <4>2 DEF Counted
      <4>8. QED
        BY <2>2, <3>2, <4>6, <4>7
    <3>3. QED
      BY <3>1, <3>2
  <2>6. e = TailEntry
    BY <2>1, <2>2, <2>5 DEF TailEntry
  <2>7. EntryAt(k) = TailEntry
    BY <1>3, <2>1 DEF EntryAt
  <2>8. QED
    BY <1>1, <2>3, <2>4, <2>6, <2>7
<1>8. k <= Newlines \/ k > Newlines
  BY <1>3
<1>9. QED
  BY <1>6, <1>7, <1>8

\* there are no more entries than lines, and no less but for an empty last one.
LEMMA TableSize ==
  ASSUME text \in Seq(Byte), Shape(prog)
  PROVE  /\ Table(prog, text) \in Seq(Entry)
         /\ Scanned(prog, text).lines \in Nat /\ Scanned(prog, text).lines <= Newlines
         /\ prog.full = "skip" => Len(Table(prog, text)) <= Room
         /\ prog.full = "over" =>
              /\ Scanned(prog, text).lines = Newlines
              /\ Newlines <= Len(Table(prog, text))
         /\ ReadTo(Newlines + 1) /\ (prog.full = "skip" => Newlines < Room) =>
              /\ Len(Table(prog, text)) \in Newlines .. Newlines + 1
              /\ prog.tail # "never" /\ prog.entry = "line" /\ ~prog.blanks
                   /\ LineLength(Newlines + 1) > 0 => Len(Table(prog, text)) = Newlines + 1
<1> DEFINE s == Scans(prog, text)[Len(text)]
           f == Finish(prog, s)
           T == f.table
<1>1. Table(prog, text) = T /\ Scanned(prog, text) = f
  BY DEF Table, Scanned
<1>2. /\ s \in States /\ Known(s, Len(text))
      /\ s.lines \in Nat /\ s.lines <= Newlines /\ s.table \in Seq(Entry)
      /\ \/ s.lines = Newlines /\ s.pos = Len(text)
         \/ prog.full = "stop" /\ s.lines = Room
  BY LoopEnd
<1>3. Typed(prog) /\ Room \in Nat /\ Newlines \in Nat
  BY LineAssumption, LinesOfText DEF Shape, Typed
<1> DEFINE more == \/ prog.tail = "always"
                   \/ prog.tail = "some" /\ s.len > 0 /\ (prog.entry = "previous" => s.lines > 0)
<1>4. /\ T \in Seq(Entry) /\ f.lines = s.lines
      /\ \/ /\ ~more \/ (prog.full = "skip" /\ Len(s.table) = Room)
            /\ T = s.table
         \/ /\ more /\ ~(prog.full = "skip" /\ Len(s.table) = Room)
            /\ Len(T) = Len(s.table) + 1
  BY <1>2, <1>3, FinishFacts
<1> HIDE DEF s, f, T
<1>5. /\ Len(s.table) \in Nat /\ Len(T) \in Nat
      /\ prog.full # "skip" => s.lines <= Len(s.table)
      /\ prog.full = "skip" => Len(s.table) <= Room
  BY <1>2, <1>4 DEF Known, Come
<1>6. prog.full = "skip" => Len(T) <= Room
  BY <1>3, <1>4, <1>5
<1>7. prog.full = "over" => s.lines = Newlines /\ Newlines <= Len(T)
  BY <1>2, <1>3, <1>4, <1>5
<1>8. ASSUME ReadTo(Newlines + 1), prog.full = "skip" => Newlines < Room
      PROVE  /\ Len(T) \in Newlines .. Newlines + 1
             /\ prog.tail # "never" /\ prog.entry = "line" /\ ~prog.blanks
                  /\ LineLength(Newlines + 1) > 0 => Len(T) = Newlines + 1
  <2>1. /\ \/ Len(s.table) = Newlines
           \/ prog.full = "skip" /\ Len(s.table) = Room /\ Newlines >= Room
        /\ s.len = LineLength(Newlines + 1) - LeftOut(Newlines + 1)
    BY <1>8, TailMeasured DEF s
  <2>2. Len(s.table) = Newlines /\ ~(prog.full = "skip" /\ Len(s.table) = Room)
    BY <1>3, <1>8, <2>1
  <2>3. Len(T) \in Newlines .. Newlines + 1
    BY <1>3, <1>4, <1>5, <2>2
  <2>4. ASSUME prog.tail # "never", prog.entry = "line", ~prog.blanks, LineLength(Newlines + 1) > 0
        PROVE  Len(T) = Newlines + 1
    <3>1. LineLength(Newlines + 1) \in Nat
      <4>1. Newlines + 1 \in 1 .. Newlines + 1
        BY <1>3
      <4>2. QED
        BY <4>1, LinesOfText
    <3>2. s.len > 0
      BY <2>1, <2>4, <3>1 DEF LeftOut
    <3>3. more
      BY <2>4, <3>2 DEF Shape
    <3>4. QED
      BY <1>4, <2>2, <3>3
  <2>5. QED
    BY <2>3, <2>4
<1>9. QED
  BY <1>1, <1>2, <1>4, <1>6, <1>7, <1>8

-----------------------------------------------------------------------------
(*****************************************************************************)
(* What an entry makes the program show.                                     *)
(*****************************************************************************)
\* The blanks that are left out belong to the line.
LEMMA LeftOutBounds ==
  ASSUME text \in Seq(Byte), NEW k \in 1 .. Newlines + 1
  PROVE  LeftOut(k) \in 0 .. LineLength(k)
<1> DEFINE S == {LineLength(k)} \cup
                {i \in 0 .. LineLength(k) - 1 : text[LineStart(k) + i + 1] # Blank}
<1>1. LineLength(k) \in Nat
  BY LinesOfText
<1>2. S \in SUBSET Nat /\ LineLength(k) \in S
  BY <1>1
<1>3. Indent(k) = Min(S)
  BY DEF Indent
<1> HIDE DEF S
<1>4. Min(S) \in S /\ Min(S) <= LineLength(k)
  BY <1>2, LeastElement
<1>5. Indent(k) \in 0 .. LineLength(k)
  <2>1. PICK m \in Nat : m = Min(S)
    BY <1>2, <1>4
  <2>2. QED
    BY <1>1, <1>3, <1>4, <2>1
<1>6. QED
  BY <1>1, <1>5 DEF LeftOut

\* A piece ends where its length says, or with the text; reads of n.bedareva end
\* with the line.
LEMMA ShownIs ==
  ASSUME text \in Seq(Byte), NEW off \in Int, NEW len \in Int
  PROVE  LET b == Shown(prog, text, [off |-> off, len |-> len])
         IN  /\ b.from = off
             /\ prog.step = 0 =>
                  b.to = IF off + len <= Len(text) THEN off + len ELSE Len(text)
<1> DEFINE e == [off |-> off, len |-> len]
           ends == {e.off + e.len, Len(text)}
              \cup (IF prog.step > 0 THEN {i \in e.off + 1 .. Len(text) : text[i] = Newline}
                 ELSE {})
           b == Shown(prog, text, e)
<1>1. b = Piece(e.off, Min(ends), Open(prog, text, e)) /\ e.off = off /\ e.len = len
  BY DEF Shown
<1> HIDE DEF b, ends
<1>2. b.from = off /\ b.to = Min(ends)
  BY <1>1 DEF Piece, e
<1> USE DEF b, ends
<1>3. ASSUME prog.step = 0 PROVE ends = {off + len, Len(text)}
  BY <1>1, <1>3
<1>6. Len(text) \in Nat
  OBVIOUS
<1> HIDE DEF ends, e
<1>4. ASSUME prog.step = 0
      PROVE  b.to = IF off + len <= Len(text) THEN off + len ELSE Len(text)
  <2>1. PICK m \in Int : m = off + len
    OBVIOUS
  <2>2. ends = {m, Len(text)} /\ ends \in SUBSET Int
    BY <1>6, <1>3, <1>4, <2>1
  <2>3. CASE m <= Len(text)
    <3>1. m \in ends /\ \A y \in ends : m <= y
      BY <1>6, <2>1, <2>2, <2>3
    <3>2. Min(ends) = m
      BY <2>2, <3>1, LeastIs
    <3>3. QED
      BY <1>2, <2>1, <2>3, <3>2
  <2>4. CASE ~(m <= Len(text))
    <3>1. Len(text) \in ends /\ \A y \in ends : Len(text) <= y
      BY <1>6, <2>1, <2>2, <2>4
    <3>2. Min(ends) = Len(text)
      BY <2>2, <3>1, LeastIs
    <3>3. QED
      BY <1>2, <2>1, <2>4, <3>2
  <2>5. QED
    BY <2>3, <2>4
<1>5. QED
  BY <1>2, <1>4 DEF b, e

\* A line and its place among the others.
LEMMA LinePlace ==
  ASSUME text \in Seq(Byte), NEW k \in 1 .. Newlines + 1
  PROVE  /\ Newlines \in Nat /\ Len(text) \in Nat /\ k \in Nat
         /\ LineStart(k) \in Nat /\ LineLength(k) \in Nat
         /\ LineEnd(k) = LineStart(k) + LineLength(k) /\ LineEnd(k) \in Nat
         /\ LineEnd(k) <= Len(text)
         /\ k <= Newlines => LineEnd(k) + 1 <= Len(text)
         /\ k > Newlines => LineEnd(k) = Len(text)
         /\ k > 1 => /\ k - 1 \in 1 .. Newlines + 1
                     /\ LineStart(k - 1) \in Nat /\ LineLength(k - 1) \in Nat
                     /\ LineStart(k) = LineStart(k - 1) + LineLength(k - 1) + 1
<1>1. /\ Newlines \in Nat /\ Len(text) \in Nat /\ k \in Nat
      /\ LineStart(k) \in Nat /\ LineLength(k) \in Nat
      /\ LineEnd(k) = LineStart(k) + LineLength(k) /\ LineEnd(k) \in LineStart(k) .. Len(text)
      /\ LineEnd(Newlines + 1) = Len(text)
  BY LinesOfText
<1>2. ASSUME k <= Newlines PROVE LineEnd(k) + 1 <= Len(text)
  <2>1. k + 1 \in 1 .. Newlines + 1 /\ k \in 1 .. Newlines
    BY <1>1, <1>2
  <2>2. LineStart(k + 1) = LineEnd(k) + 1
    BY <2>1, LinesOfText
  <2>3. LineEnd(k + 1) \in LineStart(k + 1) .. Len(text) /\ LineStart(k + 1) \in Nat
    BY <2>1, LinesOfText
  <2>4. QED
    BY <1>1, <2>2, <2>3
<1>3. ASSUME k > Newlines PROVE LineEnd(k) = Len(text)
  <2>1. k = Newlines + 1
    BY <1>1, <1>3
  <2>2. QED
    BY <1>1, <2>1
<1>4. ASSUME k > 1
      PROVE  /\ k - 1 \in 1 .. Newlines + 1
             /\ LineStart(k - 1) \in Nat /\ LineLength(k - 1) \in Nat
             /\ LineStart(k) = LineStart(k - 1) + LineLength(k - 1) + 1
  <2>1. k - 1 \in 1 .. Newlines /\ k - 1 \in 1 .. Newlines + 1 /\ (k - 1) + 1 = k
    BY <1>1, <1>4
  <2>2. /\ LineStart(k - 1) \in Nat /\ LineLength(k - 1) \in Nat
        /\ LineEnd(k - 1) = LineStart(k - 1) + LineLength(k - 1)
    BY <2>1, LinesOfText
  <2>3. LineStart((k - 1) + 1) = LineEnd(k - 1) + 1
    BY <2>1, LinesOfText
  <2>4. QED
    BY <2>1, <2>2, <2>3
<1>5. QED
  BY <1>1, <1>2, <1>3, <1>4

\* The entries that say where their line lies.
LEMMA PlainEntry ==
  ASSUME text \in Seq(Byte), Shape(prog), NEW k \in 1 .. Newlines + 1,
         prog.entry = "line" \/ (prog.entry = "break" /\ k = 1), prog.step = 0
  PROVE  LET e == EntryAt(k)
             b == Shown(prog, text, e)
         IN  /\ e.off \in Int /\ e.len \in Int /\ e.len <= LineLength(k) + prog.nl
             /\ b.from = LineStart(k) + LeftOut(k)
             /\ b.to \in {LineEnd(k), LineEnd(k) + 1} /\ b.to <= Len(text)
             /\ prog.nl = 0 => b.to = LineEnd(k)
<1> DEFINE n == IF k <= Newlines THEN prog.nl ELSE 0
           off == LineStart(k) + LeftOut(k)
           len == LineLength(k) - LeftOut(k) + n
<1>1. /\ Newlines \in Nat /\ Len(text) \in Nat /\ k \in Nat
      /\ LineStart(k) \in Nat /\ LineLength(k) \in Nat
      /\ LineEnd(k) = LineStart(k) + LineLength(k) /\ LineEnd(k) \in Nat
      /\ LineEnd(k) <= Len(text)
      /\ k <= Newlines => LineEnd(k) + 1 <= Len(text)
      /\ k > Newlines => LineEnd(k) = Len(text)
  BY LinePlace
<1>2. LeftOut(k) \in 0 .. LineLength(k) /\ LeftOut(k) \in Nat /\ LeftOut(k) <= LineLength(k)
  BY <1>1, LeftOutBounds
<1>3. prog.nl \in {0, 1} /\ n \in {0, 1} /\ (prog.nl = 0 => n = 0) /\ n <= prog.nl
      /\ (n = 1 => k <= Newlines)
  BY DEF Shape
<1> HIDE DEF n
<1>4. off \in Int /\ len \in Int /\ off + len = LineEnd(k) + n /\ len <= LineLength(k) + n
  <2>1. PICK l \in Nat, m \in Nat, a \in Nat : l = LineLength(k) /\ m = LeftOut(k) /\ a =
     LineStart(k)
    BY <1>1, <1>2
  <2>2. (a + m) + (l - m + n) = (a + l) + n /\ l - m + n <= l + n /\ l - m + n \in Int
    BY <1>3, <2>1
  <2>3. QED
    BY <1>1, <1>3, <2>1, <2>2
<1>5. EntryAt(k) = [off |-> off, len |-> len]
  <2>1. OffsetOf(k) = off
    BY <1>1 DEF OffsetOf
  <2>2. CASE k <= Newlines
    <3>1. LengthOf(k) = len
      BY <2>2 DEF LengthOf, n
    <3>2. QED
      BY <2>1, <2>2, <3>1 DEF EntryAt, EntryOf
  <2>3. CASE k > Newlines
    <3>1. k = Newlines + 1 /\ n = 0
      BY <1>1, <2>3 DEF n
    <3>2. len = LineLength(k) - LeftOut(k)
      BY <1>1, <1>2, <3>1
    <3>3. EntryAt(k) = TailEntry
      BY <1>1, <3>1 DEF EntryAt
    <3>4. QED
      BY <2>1, <3>1, <3>2, <3>3 DEF TailEntry
  <2>4. QED
    BY <1>1, <2>2, <2>3
<1> DEFINE e == EntryAt(k)
           b == Shown(prog, text, e)
<1>6. e.off = off /\ e.len = len
  BY <1>5
<1> HIDE DEF off, len
<1>7. /\ b.from = off
      /\ b.to = IF off + len <= Len(text) THEN off + len ELSE Len(text)
  BY <1>4, <1>5, ShownIs
<1> HIDE DEF e, b
<1>8. off + len <= Len(text)
  BY <1>1, <1>3, <1>4
<1>9. b.to = LineEnd(k) + n
  BY <1>4, <1>7, <1>8
<1>10. /\ b.to \in {LineEnd(k), LineEnd(k) + 1} /\ b.to <= Len(text)
       /\ prog.nl = 0 => b.to = LineEnd(k)
  BY <1>1, <1>3, <1>4, <1>8, <1>9
<1>11. e.len <= LineLength(k) + prog.nl
  BY <1>1, <1>3, <1>4, <1>6
<1>12. b.from = LineStart(k) + LeftOut(k)
  BY <1>7 DEF off
<1>13. QED
  BY <1>4, <1>6, <1>10, <1>11, <1>12 DEF e, b

\* The entries that start at the newline before their line.
LEMMA BreakEntry ==
  ASSUME text \in Seq(Byte), Shape(prog), NEW k \in 2 .. Newlines + 1, prog.entry = "break"
  PROVE  LET b == Shown(prog, text, EntryAt(k))
         IN  b.from = LineStart(k) - 1 /\ b.to \in {LineEnd(k) - 1, LineEnd(k)}
<1> DEFINE n == IF k <= Newlines THEN 1 ELSE 0
           off == LineStart(k) - 1
           len == LineLength(k) + n
           b == Shown(prog, text, EntryAt(k))
<1>1. k \in 1 .. Newlines + 1 /\ k > 1
  BY LinesOfText
<1>2. /\ Newlines \in Nat /\ Len(text) \in Nat /\ k \in Nat
      /\ LineStart(k) \in Nat /\ LineLength(k) \in Nat
      /\ LineEnd(k) = LineStart(k) + LineLength(k) /\ LineEnd(k) <= Len(text)
  BY <1>1, LinePlace
<1>3. prog.step = 0 /\ ~prog.blanks /\ prog.nl = 1
  BY DEF Shape
<1>4. EntryAt(k) = [off |-> off, len |-> len]
  <2>1. OffsetOf(k) = off
    BY <1>1 DEF OffsetOf
  <2>2. LeftOut(k) = 0 /\ LineLength(k) - 0 = LineLength(k)
    BY <1>2, <1>3 DEF LeftOut
  <2>3. CASE k <= Newlines
    <3>1. LengthOf(k) = len
      BY <1>3, <2>2, <2>3 DEF LengthOf
    <3>2. QED
      BY <2>1, <2>3, <3>1 DEF EntryAt, EntryOf
  <2>4. CASE k > Newlines
    <3>1. k = Newlines + 1 /\ n = 0 /\ LineLength(k) + 0 = LineLength(k)
      BY <1>2, <2>4
    <3>2. EntryAt(k) = TailEntry
      BY <1>2, <3>1 DEF EntryAt
    <3>3. QED
      BY <2>1, <2>2, <3>1, <3>2 DEF TailEntry
  <2>5. QED
    BY <1>2, <2>3, <2>4
<1>5. n \in {0, 1}
  OBVIOUS
<1> HIDE DEF n
<1>6. off \in Int /\ len \in Int /\ off + len = LineEnd(k) - 1 + n /\ off + len <= Len(text)
  BY <1>2, <1>5
<1> HIDE DEF off, len
<1>7. /\ b.from = off
      /\ b.to = IF off + len <= Len(text) THEN off + len ELSE Len(text)
  BY <1>3, <1>4, <1>6, ShownIs
<1> HIDE DEF b
<1>8. b.to \in {LineEnd(k) - 1, LineEnd(k)}
  BY <1>2, <1>5, <1>6, <1>7
<1>9. QED
  BY <1>7, <1>8 DEF off, b

\* The entries that are as long as the line before.
LEMMA PreviousEntry ==
  ASSUME text \in Seq(Byte), Shape(prog), NEW k \in 1 .. Newlines + 1,
         prog.entry = "previous", Newlines > 0
  PROVE  LET e == EntryAt(k)
             b == Shown(prog, text, e)
         IN  /\ e.len = IF k = 1 THEN 1
                        ELSE IF k <= Newlines THEN LineLength(k - 1) + 1
                        ELSE LineLength(k - 1) + 1 + LineLength(k)
             /\ b.from = LineStart(k)
             /\ b.to = IF LineStart(k) + e.len <= Len(text) THEN LineStart(k) + e.len ELSE Len(text)
             /\ k = 1 => b.to = LineStart(k) + 1
             /\ k > Newlines => b.to = Len(text)
<1> DEFINE len == IF k = 1 THEN 1
                  ELSE IF k <= Newlines THEN LineLength(k - 1) + 1
                  ELSE LineLength(k - 1) + 1 + LineLength(k)
           e == EntryAt(k)
           b == Shown(prog, text, e)
<1>1. /\ Newlines \in Nat /\ Len(text) \in Nat /\ k \in Nat
      /\ LineStart(k) \in Nat /\ LineLength(k) \in Nat
      /\ LineEnd(k) = LineStart(k) + LineLength(k) /\ LineEnd(k) \in Nat
      /\ LineEnd(k) <= Len(text)
      /\ k <= Newlines => LineEnd(k) + 1 <= Len(text)
      /\ k > Newlines => LineEnd(k) = Len(text)
  BY LinePlace
<1>2. k > 1 => /\ LineStart(k - 1) \in Nat /\ LineLength(k - 1) \in Nat
               /\ LineStart(k) = LineStart(k - 1) + LineLength(k - 1) + 1
  BY LinePlace
<1>3. prog.step = 0 /\ ~prog.blanks /\ prog.nl = 1
  BY DEF Shape
<1>4. OffsetOf(k) = LineStart(k)
  BY <1>1, <1>3 DEF OffsetOf, LeftOut
<1>5. CASE k = 1
  <2>1. k <= Newlines
    BY <1>1, <1>5
  <2>2. e = [off |-> LineStart(k), len |-> 1] /\ len = 1
    BY <1>4, <1>5, <2>1 DEF EntryAt, EntryOf, LengthOf
  <2>3. LineStart(k) + 1 <= Len(text) /\ 1 \in Int /\ LineStart(k) \in Int
    BY <1>1, <2>1
  <2>4. e.len = 1
    BY <2>2
  <2>5. /\ b.from = LineStart(k)
        /\ b.to = IF LineStart(k) + 1 <= Len(text) THEN LineStart(k) + 1 ELSE Len(text)
    BY <1>3, <2>2, <2>3, ShownIs
  <2>6. b.to = LineStart(k) + 1 /\ ~(k > Newlines)
    BY <1>1, <2>1, <2>3, <2>5
  <2>7. b.to = IF LineStart(k) + e.len <= Len(text) THEN LineStart(k) + e.len ELSE Len(text)
    BY <2>4, <2>5
  <2>8. QED
    BY <1>5, <2>4, <2>5, <2>6, <2>7
<1>6. CASE k # 1 /\ k <= Newlines
  <2>1. k > 1
    BY <1>1, <1>6
  <2>2. LengthOf(k) = LineLength(k - 1) + 1
    <3>1. LengthOf(k) = LineStart(k) - LineStart(k - 1)
      BY <1>6 DEF LengthOf
    <3>2. QED
      BY <1>2, <2>1, <3>1
  <2>3. e = [off |-> LineStart(k), len |-> LineLength(k - 1) + 1]
    BY <1>4, <1>6, <2>2 DEF EntryAt, EntryOf
  <2>4. LineLength(k - 1) + 1 \in Int /\ LineStart(k) \in Int
    BY <1>1, <1>2, <2>1
  <2>5. e.len = LineLength(k - 1) + 1
    BY <2>3
  <2>6. /\ b.from = LineStart(k)
        /\ b.to = IF LineStart(k) + e.len <= Len(text) THEN LineStart(k) + e.len ELSE Len(text)
    BY <1>3, <2>3, <2>4, <2>5, ShownIs
  <2>7. ~(k > Newlines)
    BY <1>1, <1>6
  <2>8. QED
    BY <1>6, <2>5, <2>6, <2>7
<1>7. CASE k > Newlines
  <2>1. k > 1 /\ k = Newlines + 1 /\ k - 1 = Newlines /\ ~(k <= Newlines) /\ k # 1
    BY <1>1, <1>7
  <2>2. Len(text) - LineStart(k - 1) = LineLength(k - 1) + 1 + LineLength(k)
    BY <1>1, <1>2, <1>7, <2>1
  <2>3. e = [off |-> LineStart(k), len |-> LineLength(k - 1) + 1 + LineLength(k)]
    BY <1>4, <2>1, <2>2 DEF EntryAt, TailEntry
  <2>4. LineLength(k - 1) + 1 + LineLength(k) \in Int /\ LineStart(k) \in Int
    BY <1>1, <1>2, <2>1
  <2>5. e.len = LineLength(k - 1) + 1 + LineLength(k)
    BY <2>3
  <2>6. /\ b.from = LineStart(k)
        /\ b.to = IF LineStart(k) + e.len <= Len(text) THEN LineStart(k) + e.len ELSE Len(text)
    BY <1>3, <2>3, <2>4, <2>5, ShownIs
  <2>7. b.to = Len(text)
    <3>1. PICK a \in Nat, l \in Nat, m \in Nat :
            a = LineStart(k) /\ l = LineLength(k) /\ m = LineLength(k - 1)
      BY <1>1, <1>2, <2>1
    <3>2. Len(text) = a + l
      BY <1>1, <1>7, <3>1
    <3>3. ~(a + (m + 1 + l) <= a + l)
      OBVIOUS
    <3>4. QED
      BY <2>5, <2>6, <3>1, <3>2, <3>3
  <2>8. QED
    BY <2>1, <2>5, <2>6, <2>7
<1>8. k = 1 \/ (k # 1 /\ k <= Newlines) \/ k > Newlines
  BY <1>1
<1>9. QED
  BY <1>5, <1>6, <1>7, <1>8

\* The entries that add two for every newline.
LEMMA StepEntry ==
  ASSUME text \in Seq(Byte), Shape(prog), NEW k \in 1 .. Newlines + 1, prog.step > 0
  PROVE  LET b == Shown(prog, text, EntryAt(k))
         IN  /\ b.from = LineStart(k) + k - 1
             /\ k = 1 => b.from = LineStart(k) /\ b.to = LineEnd(k)
<1> DEFINE e == EntryAt(k)
           b == Shown(prog, text, e)
           off == LineStart(k) + k - 1
           len == LineLength(k)
           ends == {e.off + e.len, Len(text)}
              \cup (IF prog.step > 0 THEN {i \in e.off + 1 .. Len(text) : text[i] = Newline}
                 ELSE {})
<1>1. /\ Newlines \in Nat /\ Len(text) \in Nat /\ k \in Nat
      /\ LineStart(k) \in Nat /\ LineLength(k) \in Nat
      /\ LineEnd(k) = LineStart(k) + LineLength(k) /\ LineEnd(k) \in Nat
      /\ LineEnd(k) <= Len(text)
  BY LinePlace
<1>2. prog.entry = "line" /\ ~prog.blanks /\ prog.nl = 0
  BY DEF Shape
<1>3. e = [off |-> off, len |-> len]
  <2>1. OffsetOf(k) = off
    BY <1>2 DEF OffsetOf
  <2>2. LeftOut(k) = 0 /\ LineLength(k) - 0 = LineLength(k) /\ LineLength(k) + 0 = LineLength(k)
    BY <1>1, <1>2 DEF LeftOut
  <2>3. CASE k <= Newlines
    <3>1. LengthOf(k) = len
      BY <1>2, <2>2 DEF LengthOf
    <3>2. QED
      BY <2>1, <2>3, <3>1 DEF EntryAt, EntryOf
  <2>4. CASE k > Newlines
    <3>1. k = Newlines + 1
      BY <1>1, <2>4
    <3>2. EntryAt(k) = TailEntry
      BY <1>1, <3>1 DEF EntryAt
    <3>3. QED
      BY <1>2, <2>1, <2>2, <3>1, <3>2 DEF TailEntry
  <2>5. QED
    BY <1>1, <2>3, <2>4
<1>4. b = Piece(e.off, Min(ends), Open(prog, text, e)) /\ e.off = off /\ e.len = len
  BY <1>3 DEF Shown
<1>5. b.from = off /\ b.to = Min(ends)
  BY <1>4 DEF Piece
<1>6. ASSUME k = 1 PROVE off = LineStart(k) /\ b.to = LineEnd(k)
  <2>1. off = LineStart(k)
    BY <1>1, <1>6
  <2>2. ends = {LineEnd(k), Len(text)} \cup
                 {i \in LineStart(k) + 1 .. Len(text) : text[i] = Newline}
    BY <1>1, <1>4, <2>1
  <2>3. \A j \in LineStart(k) + 1 .. LineEnd(k) : text[j] # Newline
    BY LinesOfText DEF Spanned
  <2> HIDE DEF ends, off
  <2>4. LineEnd(k) \in ends /\ ends \in SUBSET Int
    BY <1>1, <2>2
  <2>5. ASSUME NEW y \in ends PROVE LineEnd(k) <= y
    <3>1. CASE y \in {LineEnd(k), Len(text)}
      BY <1>1, <3>1
    <3>2. CASE y \in LineStart(k) + 1 .. Len(text) /\ text[y] = Newline
      <4>1. y \notin LineStart(k) + 1 .. LineEnd(k)
        BY <2>3, <3>2
      <4>2. QED
        BY <1>1, <3>2, <4>1
    <3>3. QED
      BY <2>2, <3>1, <3>2
  <2>6. Min(ends) = LineEnd(k)
    BY <2>4, <2>5, LeastIs
  <2>7. b.to = Min(ends)
    BY <1>5
  <2>8. QED
    BY <2>1, <2>6, <2>7
<1>7. QED
  BY <1>5, <1>6

-----------------------------------------------------------------------------
(*****************************************************************************)
(* The dialogue. The invariant: what runs is one of the programs on one of   *)
(* its texts, with the table the loop built; what is typed is made of        *)
(* numbers and of what is none; a number is only taken from where the        *)
(* program can get one; a timer runs only in a program that has one; and the *)
(* last output is that of a line, of a time-out or of a number that nobody   *)
(* checked.                                                                  *)
(*****************************************************************************)
Chosen == prog \in Programs /\ text \in Files[prog] /\ table = Table(prog, text)

Tokens == Int \union {Junk}
InputOK == coming \in Seq(Seq(Tokens)) /\ tty \in Seq(Seq(Tokens)) /\ stdio \in Seq(Tokens)

IsNumber(n) == n \in Int \/ (n = Junk /\ prog.junk = "value")
NumberOK == (IsNumber(num) \/ num = NoNumber) /\ (pc = "got" => IsNumber(num))

AlarmOK == alarm => prog.timer \in {"kill", "interrupt", "flag"}

\* The piece shown to who asks for line n.
Answered(n) ==
  IF n - prog.lag = 0 \/ (prog.last = 1 /\ n - prog.lag = Len(table)) THEN Piece(0, 0, FALSE)
  ELSE Shown(prog, text, table[n - prog.lag])

LineOut == /\ out.number \in Int /\ out.number >= 1 /\ out.number - prog.lag <= Len(table)
           /\ out.bytes = <<Answered(out.number)>>
WildOut == \/ out.number \in Int /\ out.number < 1 /\ prog.low = "wild"
           \/ out.number \in Int /\ out.number - prog.lag > Len(table) /\ prog.high = "wild"
           \/ out.number \in Int /\ out.number > Room /\ prog.high = "blank"
           \/ out = Note("wild") /\ pc = "done" /\ prog.dump = "before" /\ table # <<>>
OutOK == /\ out.kind = "line" => LineOut
         /\ out.kind = "wild" => WildOut
         /\ out.kind = "dump" => pc = "done" /\ out.bytes = Dump
         /\ out.kind \notin {"line", "dump"} => out.bytes = <<>>

PositionOK == prog.dump = "rest" => at \in 0 .. Len(text)

QueryInv == Chosen /\ InputOK /\ NumberOK /\ AlarmOK /\ OutOK /\ PositionOK

\* What runs is known well enough.
LEMMA ChosenFacts ==
  ASSUME Chosen
  PROVE  /\ text \in Seq(Byte) /\ Shape(prog) /\ table = Table(prog, text)
         /\ table \in Seq(Entry) /\ Len(table) \in Nat
         /\ Typing[text] \subseteq Seq(Seq(Tokens))
<1>1. /\ text \in Seq(Byte) /\ prog \in AllPrograms /\ table = Table(prog, text)
      /\ Typing[text] \subseteq Seq(Seq(Tokens))
  BY QueryAssumption DEF Chosen, Tokens
<1>2. Shape(prog)
  BY <1>1, Shapes
<1>3. table \in Seq(Entry)
  BY <1>1, <1>2, TableSize
<1>4. QED
  BY <1>1, <1>2, <1>3

\* Output that stays.
LEMMA OutStays ==
  ASSUME OutOK, UNCHANGED <<fixed, out>>, pc # "done" \/ UNCHANGED <<pc, at>>
  PROVE  OutOK'
<1>1. prog' = prog /\ text' = text /\ table' = table /\ out' = out
  BY DEF fixed
<1>2. LineOut => LineOut'
  BY <1>1 DEF LineOut, Answered
<1>3. WildOut => WildOut'
  BY <1>1 DEF WildOut, Note
<1>4. CASE pc # "done"
  BY <1>1, <1>2, <1>3, <1>4 DEF OutOK
<1>5. CASE UNCHANGED <<pc, at>>
  <2>1. Dump' = Dump
    BY <1>1, <1>5 DEF Dump, Entries
  <2>2. QED
    BY <1>1, <1>2, <1>3, <1>5, <2>1 DEF OutOK
<1>6. QED
  BY <1>4, <1>5

\* A time-out shows what it should.
LEMMA OutDumped ==
  ASSUME TimeOut, UNCHANGED <<fixed, at>>
  PROVE  OutOK' /\ AlarmOK' /\ pc' = "done"
<1>1. /\ prog' = prog /\ text' = text /\ table' = table /\ at' = at
      /\ pc' = "done" /\ alarm' = FALSE
      /\ \/ out' = Dumped(Dump)
         \/ prog.dump = "before" /\ table # <<>> /\ out' = Note("wild")
  BY DEF fixed, TimeOut, Quit
<1>2. Dump' = Dump
  BY <1>1 DEF Dump, Entries
<1>3. CASE out' = Dumped(Dump)
  <2> DEFINE d == Dump
  <2> HIDE DEF d
  <2>1. out'.kind = "dump" /\ out'.bytes = d
    BY <1>3 DEF Dumped, d
  <2>2. d = Dump'
    BY <1>2 DEF d
  <2>3. QED
    BY <1>1, <2>1, <2>2 DEF OutOK, AlarmOK
<1>4. CASE prog.dump = "before" /\ table # <<>> /\ out' = Note("wild")
  <2>1. WildOut'
    BY <1>1, <1>4 DEF WildOut, Note
  <2>2. out'.kind = "wild" /\ out'.bytes = <<>>
    BY <1>4 DEF Note
  <2>3. QED
    BY <1>1, <2>1, <2>2 DEF OutOK, AlarmOK
<1>5. QED
  BY <1>1, <1>3, <1>4

\* Asking again sets no timer a program does not have.
LEMMA AgainSets ==
  ASSUME Again \/ Quit, prog' = prog
  PROVE  AlarmOK' /\ pc' # "got"
<1>1. Top \in {"done", "select", "ask", "read"}
  BY DEF Top
<1>2. CASE Again
  BY <1>1, <1>2 DEF Again, AlarmOK
<1>3. CASE Quit
  BY <1>3 DEF Quit, AlarmOK
<1>4. QED
  BY <1>2, <1>3

\* The number stays, or the one that was got is a number.
LEMMA NumberStays ==
  ASSUME NumberOK, UNCHANGED <<prog, num>>, pc' = "got" => pc = "got"
  PROVE  NumberOK'
  BY DEF NumberOK, IsNumber

\* What is got is one.
LEMMA NumberGot ==
  ASSUME NEW n, IsNumber(n), Got(n), prog' = prog
  PROVE  NumberOK'
  BY DEF NumberOK, IsNumber, Got

\* A timer that runs belongs to the program.
LEMMA AlarmStays ==
  ASSUME AlarmOK, UNCHANGED <<prog, alarm>>
  PROVE  AlarmOK'
  BY DEF AlarmOK

\* What reading may come to: a number is got,
Outcome == NumberOK' /\ AlarmOK' /\ OutOK'

\* from what was typed or from what the variable held,
LEMMA GotOutcome ==
  ASSUME QueryInv, pc # "done", UNCHANGED <<fixed, at>>,
         GotAnything \/ GotKept \/ \E n \in Tokens : IsNumber(n) /\ Got(n)
  PROVE  Outcome
<1>1. prog' = prog
  BY DEF fixed
<1>2. \E n : IsNumber(n) /\ Got(n)
  <2>1. CASE GotAnything
    <3>1. PICK n \in Numbers : Got(n)
      BY <2>1 DEF GotAnything
    <3>2. IsNumber(n)
      BY QueryAssumption DEF IsNumber
    <3>3. QED
      BY <3>1, <3>2
  <2>2. CASE GotKept /\ ~GotAnything
    <3>1. IsNumber(num) /\ Got(num)
      BY <2>2 DEF GotKept, QueryInv, NumberOK
    <3>2. QED
      BY <3>1
  <2>3. QED
    BY <2>1, <2>2
<1>3. PICK n : IsNumber(n) /\ Got(n)
  BY <1>2
<1>4. UNCHANGED <<alarm, out>>
  BY <1>3 DEF Got
<1>5. NumberOK'
  BY <1>1, <1>3, NumberGot
<1>6. AlarmOK'
  BY <1>1, <1>4, AlarmStays DEF QueryInv
<1>7. OutOK'
  BY <1>4, OutStays DEF QueryInv
<1>8. QED
  BY <1>5, <1>6, <1>7 DEF Outcome

\* the program asks again, or ends with a time-out that was noted before,
LEMMA AgainOutcome ==
  ASSUME QueryInv, pc # "done", UNCHANGED <<fixed, at>>, AgainOrDump
  PROVE  Outcome
<1>1. prog' = prog /\ num' = num
  BY DEF fixed, AgainOrDump
<1>2. CASE TimeOut
  <2>1. OutOK' /\ AlarmOK' /\ pc' = "done"
    BY <1>2, OutDumped
  <2>2. NumberOK'
    BY <1>1, <2>1, NumberStays DEF QueryInv
  <2>3. QED
    BY <2>1, <2>2 DEF Outcome
<1>3. CASE Again /\ UNCHANGED out
  <2>1. AlarmOK' /\ pc' # "got"
    BY <1>1, <1>3, AgainSets
  <2>2. NumberOK'
    BY <1>1, <2>1, NumberStays DEF QueryInv
  <2>3. OutOK'
    BY <1>3, OutStays DEF QueryInv
  <2>4. QED
    BY <2>1, <2>2, <2>3 DEF Outcome
<1>4. QED
  BY <1>2, <1>3 DEF AgainOrDump

\* and what is no number may do anything of that, quit, or be taken away.
LEMMA NotANumberOutcome ==
  ASSUME QueryInv, pc # "done", UNCHANGED <<fixed, at>>, prog.reader = "token", stdio # <<>>,
         NotANumber
  PROVE  Outcome /\ stdio' \in Seq(Tokens)
<1>1. Shape(prog) /\ prog' = prog
  BY ChosenFacts DEF QueryInv, fixed
<1>2. prog.junk \in {"clear", "value", "retry", "stay", "keep", "unset", "quit"}
  BY <1>1 DEF Shape
<1>3. stdio \in Seq(Tokens) /\ Tail(stdio) \in Seq(Tokens) /\ <<>> \in Seq(Tokens)
  BY DEF QueryInv, InputOK
<1>4. CASE prog.junk = "clear"
  <2>1. stdio' = <<>> /\ AgainOrDump
    BY <1>4 DEF NotANumber
  <2>2. QED
    BY <1>3, <2>1, AgainOutcome
<1>5. CASE prog.junk = "value"
  <2>1. stdio' = Tail(stdio) /\ Got(Junk)
    BY <1>5 DEF NotANumber
  <2>2. IsNumber(Junk) /\ Junk \in Tokens
    BY <1>5 DEF IsNumber, Tokens
  <2>3. QED
    BY <1>3, <2>1, <2>2, GotOutcome
<1>6. CASE prog.junk = "retry"
  <2>1. stdio' = Tail(stdio) /\ pc' = "retry" /\ alarm' = FALSE /\ UNCHANGED <<num, out>>
    BY <1>6 DEF NotANumber
  <2>2. NumberOK' /\ OutOK' /\ AlarmOK'
    <3>1. NumberOK'
      BY <1>1, <2>1, NumberStays DEF QueryInv
    <3>2. OutOK'
      BY <2>1, OutStays DEF QueryInv
    <3>3. AlarmOK'
      BY <2>1 DEF AlarmOK
    <3>4. QED
      BY <3>1, <3>2, <3>3
  <2>3. QED
    BY <1>3, <2>1, <2>2 DEF Outcome
<1>7. CASE prog.junk = "stay"
  <2>1. stdio' = stdio /\ AgainOrDump
    BY <1>7 DEF NotANumber
  <2>2. QED
    BY <1>3, <2>1, AgainOutcome
<1>8. CASE prog.junk = "keep"
  <2>1. stdio' = stdio /\ GotKept
    BY <1>8 DEF NotANumber
  <2>2. QED
    BY <1>3, <2>1, GotOutcome
<1>9. CASE prog.junk = "unset"
  <2>1. stdio' = stdio /\ GotAnything
    BY <1>9 DEF NotANumber
  <2>2. QED
    BY <1>3, <2>1, GotOutcome
<1>10. CASE prog.junk = "quit"
  <2>1. stdio' = stdio /\ UNCHANGED <<num, out>> /\ Quit
    BY <1>10 DEF NotANumber
  <2>2. AlarmOK' /\ pc' # "got"
    BY <1>1, <2>1, AgainSets
  <2>3. NumberOK'
    BY <1>1, <2>1, <2>2, NumberStays DEF QueryInv
  <2>4. OutOK'
    BY <2>1, OutStays DEF QueryInv
  <2>5. QED
    BY <1>3, <2>1, <2>2, <2>3, <2>4 DEF Outcome
<1>11. QED
  BY <1>2, <1>4, <1>5, <1>6, <1>7, <1>8, <1>9, <1>10

\* A line that is read whole gives a number.
LEMMA LineValueIs ==
  ASSUME Shape(prog), prog.reader # "token", NEW l \in Seq(Tokens)
  PROVE  LineValue(l) \in Tokens /\ IsNumber(LineValue(l))
<1>1. l # <<>> => Head(l) \in Tokens
  OBVIOUS
<1>2. CASE prog.reader = "prefix"
  <2>1. LineValue(l) = IF l = <<>> \/ Head(l) = Junk THEN 0 ELSE Head(l)
    BY <1>2 DEF LineValue
  <2>2. QED
    BY <1>1, <2>1 DEF Tokens, IsNumber
<1>3. CASE prog.reader = "whole"
  <2>1. LineValue(l) = IF l = <<>> THEN -1
                       ELSE IF Len(l) = 1 /\ Head(l) \in Nat THEN Head(l) ELSE Junk
    BY <1>3 DEF LineValue
  <2>2. prog.junk = "value"
    BY <1>3 DEF Shape
  <2>3. QED
    BY <1>1, <2>1, <2>2 DEF Tokens, IsNumber
<1>4. QED
  BY <1>2, <1>3 DEF Shape

\* In a program that goes on from where the descriptor stands, that is in the file.
LEMMA PieceInFile ==
  ASSUME Chosen, prog.dump = "rest", NEW k \in 1 .. Len(table)
  PROVE  Shown(prog, text, table[k]).to \in 0 .. Len(text)
<1>1. text \in Seq(Byte) /\ Shape(prog) /\ table = Table(prog, text)
  BY ChosenFacts
<1>2. /\ prog.cut = 0 /\ prog.chunk = 0 /\ prog.full = "over" /\ prog.entry = "line"
      /\ prog.step = 0
  BY <1>1 DEF Shape
<1>3. \A m : ReadTo(m)
  BY <1>2 DEF ReadTo, FitsPieces
<1>4. Newlines \in Nat /\ Len(table) \in Newlines .. Newlines + 1
  BY <1>1, <1>2, <1>3, TableSize, LinesOfText
<1>5. k \in 1 .. Newlines + 1
  BY <1>4
<1>6. table[k] = EntryAt(k)
  <2>1. k <= Len(Table(prog, text))
    BY <1>1, <1>4
  <2>2. Table(prog, text)[k] = EntryAt(k)
    BY <1>1, <1>3, <1>5, <2>1, TableEntries
  <2>3. QED
    BY <1>1, <2>2
<1> DEFINE b == Shown(prog, text, EntryAt(k))
<1>7. b.to \in {LineEnd(k), LineEnd(k) + 1} /\ b.to <= Len(text)
  BY <1>1, <1>2, <1>5, PlainEntry
<1> HIDE DEF b
<1>8. LineEnd(k) \in Nat /\ Len(text) \in Nat
  BY <1>1, <1>5, LinePlace
<1>9. b.to \in 0 .. Len(text)
  BY <1>7, <1>8
<1>10. QED
  BY <1>6, <1>9 DEF b

\* An answer is a line, a refusal, or what lies outside the table.
LEMMA AnswerOutcome ==
  ASSUME QueryInv, pc = "got", NEW n \in Int, num = n, UNCHANGED fixed, Answer(n)
  PROVE  AlarmOK' /\ OutOK' /\ PositionOK' /\ pc' # "got"
<1> DEFINE k == n - prog.lag
           s == Shown(prog, text, table[k])
<1>1. /\ text \in Seq(Byte) /\ Shape(prog) /\ table \in Seq(Entry) /\ Len(table) \in Nat
      /\ Chosen /\ OutOK /\ PositionOK /\ prog.lag \in {0, 1} /\ Room \in Nat
  <2>1. Chosen /\ OutOK /\ PositionOK
    BY DEF QueryInv
  <2>2. /\ text \in Seq(Byte) /\ Shape(prog) /\ table \in Seq(Entry) /\ Len(table) \in Nat
    BY <2>1, ChosenFacts
  <2>3. prog.lag \in {0, 1}
    BY <2>2 DEF Shape
  <2>4. QED
    BY <2>1, <2>2, <2>3, LineAssumption
<1>2. prog' = prog /\ text' = text /\ table' = table
  BY DEF fixed
<1>3. ASSUME UNCHANGED out PROVE OutOK'
  BY <1>1, <1>3, OutStays
<1>4. ASSUME UNCHANGED at PROVE PositionOK'
  BY <1>1, <1>2, <1>4 DEF PositionOK
<1>5. ASSUME Again \/ Quit PROVE AlarmOK' /\ pc' # "got"
  BY <1>2, <1>5, AgainSets
<1>6. ASSUME Refuse PROVE AlarmOK' /\ OutOK' /\ PositionOK' /\ pc' # "got"
  <2>1. Again /\ UNCHANGED at /\ out' = Note("refused")
    BY <1>6 DEF Refuse
  <2>2. out'.kind = "refused" /\ out'.bytes = <<>>
    BY <2>1 DEF Note
  <2>3. OutOK'
    BY <2>2 DEF OutOK
  <2>4. QED
    BY <1>4, <1>5, <2>1, <2>3
<1>7. ASSUME Wild, \/ n < 1 /\ prog.low = "wild"
                   \/ n - prog.lag > Len(table) /\ prog.high = "wild"
                   \/ n > Room /\ prog.high = "blank"
      PROVE  AlarmOK' /\ OutOK' /\ PositionOK' /\ pc' # "got"
  <2>1. (Again \/ Quit) /\ UNCHANGED at /\ out' = [Note("wild") EXCEPT !.number = n]
    BY <1>7 DEF Wild
  <2>2. out'.kind = "wild" /\ out'.number = n /\ out'.bytes = <<>>
    BY <2>1 DEF Note
  <2>3. WildOut'
    BY <1>2, <1>7, <2>2 DEF WildOut
  <2>4. OutOK'
    BY <2>2, <2>3 DEF OutOK
  <2>5. QED
    BY <1>4, <1>5, <2>1, <2>4
<1>8. CASE n = prog.quit /\ Quit /\ UNCHANGED <<out, at>>
  BY <1>3, <1>4, <1>5, <1>8
<1>9. CASE n # prog.quit /\ n < 1 /\ Low
  <2>1. prog.low \in {"refuse", "retry", "wild"}
    BY <1>1 DEF Shape
  <2>2. CASE prog.low = "refuse"
    <3>1. Refuse
      BY <1>9, <2>2 DEF Low
    <3>2. QED
      BY <1>6, <3>1
  <2>3. CASE prog.low = "retry"
    <3>1. pc' = "retry" /\ alarm' = FALSE /\ UNCHANGED <<out, at>>
      BY <1>9, <2>3 DEF Low
    <3>2. AlarmOK'
      BY <3>1 DEF AlarmOK
    <3>3. QED
      BY <1>3, <1>4, <3>1, <3>2
  <2>4. CASE prog.low = "wild"
    <3>1. Wild
      BY <1>9, <2>4 DEF Low
    <3>2. QED
      BY <1>7, <1>9, <2>4, <3>1
  <2>5. QED
    BY <2>1, <2>2, <2>3, <2>4
<1>10. CASE n # prog.quit /\ n >= 1 /\ k > Len(table) /\ High(n)
  <2>1. CASE prog.high = "wild" \/ (prog.high = "blank" /\ n > Room)
    <3>1. Wild
      BY <1>10, <2>1 DEF High
    <3>2. QED
      BY <1>7, <1>10, <2>1, <3>1
  <2>2. CASE ~(prog.high = "wild" \/ (prog.high = "blank" /\ n > Room))
    <3>1. Refuse
      BY <1>10, <2>2 DEF High
    <3>2. QED
      BY <1>6, <3>1
  <2>3. QED
    BY <2>1, <2>2
<1>11. CASE /\ n # prog.quit /\ n >= 1 /\ k <= Len(table)
            /\ Again
            /\ IF k = 0 \/ (prog.last = 1 /\ k = Len(table))
               THEN out' = Show(n, Piece(0, 0, FALSE)) /\ UNCHANGED at
               ELSE out' = Show(n, s) /\ at' = s.to
  <2>1. out' = Show(n, Answered(n))
    BY <1>11 DEF Answered
  <2>2. UNCHANGED at \/ (k # 0 /\ at' = s.to)
    BY <1>11
  <2> DEFINE piece == Answered(n)
  <2>3. piece = Answered(n)'
    BY <1>2 DEF Answered
  <2> HIDE DEF piece
  <2>4. out'.kind = "line" /\ out'.number = n /\ out'.bytes = <<piece>>
    BY <2>1 DEF Show, piece
  <2>5. LineOut'
    BY <1>2, <1>11, <2>3, <2>4 DEF LineOut
  <2>6. OutOK'
    BY <2>4, <2>5 DEF OutOK
  <2>7. PositionOK'
    <3>1. CASE UNCHANGED at
      BY <1>4, <3>1
    <3>2. CASE k # 0 /\ at' = s.to
      <4>1. k \in 1 .. Len(table)
        BY <1>1, <1>11, <3>2
      <4>2. prog.dump = "rest" => s.to \in 0 .. Len(text)
        BY <1>1, <4>1, PieceInFile
      <4>3. QED
        BY <1>2, <3>2, <4>2 DEF PositionOK
    <3>3. QED
      BY <2>2, <3>1, <3>2
  <2>8. QED
    BY <1>5, <1>11, <2>6, <2>7
<1>12. QED
  BY <1>8, <1>9, <1>10, <1>11 DEF Answer

\* The invariant holds at the start,
LEMMA QueryStart == Init => QueryInv
<1> SUFFICES ASSUME Init PROVE QueryInv
  OBVIOUS
<1>1. Chosen
  BY DEF Init, Chosen
<1>2. Shape(prog) /\ Typing[text] \subseteq Seq(Seq(Tokens)) /\ text \in Seq(Byte)
  BY <1>1, ChosenFacts
<1>3. InputOK
  BY <1>2 DEF Init, InputOK
<1>4. pc # "got"
  BY DEF Init
<1>5. NumberOK
  BY <1>2, <1>4 DEF Init, NumberOK, IsNumber, Shape
<1>6. AlarmOK
  BY DEF Init, AlarmOK
<1>7. OutOK
  BY DEF Init, OutOK, Nothing
<1>8. PositionOK
  BY <1>2 DEF Init, PositionOK
<1>9. QED
  BY <1>1, <1>3, <1>5, <1>6, <1>7, <1>8 DEF QueryInv

\* and whatever happens leaves it so.
LEMMA QueryStep == QueryInv /\ [Next]_vars => QueryInv'
<1> SUFFICES ASSUME QueryInv, [Next]_vars PROVE QueryInv'
  OBVIOUS
<1>1. /\ Chosen /\ InputOK /\ NumberOK /\ AlarmOK /\ OutOK /\ PositionOK
      /\ coming \in Seq(Seq(Tokens)) /\ tty \in Seq(Seq(Tokens)) /\ stdio \in Seq(Tokens)
  BY DEF QueryInv, InputOK
<1>2. Shape(prog)
  BY <1>1, ChosenFacts
<1>3. ASSUME UNCHANGED fixed PROVE Chosen' /\ prog' = prog
  BY <1>1, <1>3 DEF fixed, Chosen
<1>4. ASSUME UNCHANGED <<fixed, at>> PROVE PositionOK'
  BY <1>1, <1>4 DEF fixed, PositionOK
<1>5. ASSUME UNCHANGED <<prog, num, pc, alarm>> PROVE NumberOK' /\ AlarmOK'
  BY <1>1, <1>5, NumberStays, AlarmStays
<1>6. CASE Type
  <2>1. /\ UNCHANGED <<fixed, pc, num, alarm, at, out>> /\ UNCHANGED stdio
        /\ coming # <<>> /\ coming' = Tail(coming) /\ tty' = Append(tty, Head(coming))
    BY <1>6 DEF Type
  <2>2. InputOK'
    BY <1>1, <2>1 DEF InputOK
  <2>3. OutOK'
    BY <1>1, <2>1, OutStays
  <2>4. QED
    BY <1>3, <1>4, <1>5, <2>1, <2>2, <2>3 DEF QueryInv
<1>7. CASE EndOfFile
  <2>1. UNCHANGED <<fixed, pc, num, coming, tty, stdio, alarm, at, out>>
    BY <1>7 DEF EndOfFile, input
  <2>2. InputOK'
    BY <1>1, <2>1 DEF InputOK
  <2>3. OutOK'
    BY <1>1, <2>1, OutStays
  <2>4. QED
    BY <1>3, <1>4, <1>5, <2>1, <2>2, <2>3 DEF QueryInv
<1>8. CASE SelectReady
  <2>1. /\ pc = "select" /\ pc' = "read"
        /\ UNCHANGED <<fixed, num, coming, tty, stdio, alarm, at, out>>
    BY <1>8 DEF SelectReady, user, input
  <2>2. InputOK'
    BY <1>1, <2>1 DEF InputOK
  <2>3. OutOK'
    BY <1>1, <2>1, OutStays
  <2>4. NumberOK' /\ AlarmOK'
    BY <1>1, <1>3, <2>1, NumberStays, AlarmStays
  <2>5. QED
    BY <1>3, <1>4, <2>1, <2>2, <2>3, <2>4 DEF QueryInv
<1>9. CASE ReadToken
  <2>1. /\ pc # "done" /\ prog.reader = "token" /\ stdio # <<>>
        /\ UNCHANGED <<fixed, at, coming, tty>>
        /\ IF Token = Junk THEN NotANumber ELSE Got(Token) /\ stdio' = Tail(stdio)
    BY <1>9 DEF ReadToken, Reading, user
  <2>2. Outcome /\ stdio' \in Seq(Tokens)
    <3>1. CASE Token = Junk
      <4>1. NotANumber
        BY <2>1, <3>1
      <4>2. QED
        BY <2>1, <4>1, NotANumberOutcome
    <3>2. CASE Token # Junk
      <4>1. Token \in Tokens /\ Tail(stdio) \in Seq(Tokens)
        BY <1>1, <2>1 DEF Token
      <4>2. Token \in Int /\ IsNumber(Token)
        BY <3>2, <4>1 DEF Tokens, IsNumber
      <4>3. Got(Token) /\ stdio' = Tail(stdio)
        BY <2>1, <3>2
      <4>4. Outcome
        BY <2>1, <4>1, <4>2, <4>3, GotOutcome
      <4>5. QED
        BY <4>1, <4>3, <4>4
    <3>3. QED
      BY <3>1, <3>2
  <2>3. InputOK'
    BY <1>1, <2>1, <2>2 DEF InputOK
  <2>4. QED
    BY <1>3, <1>4, <2>1, <2>2, <2>3 DEF QueryInv, Outcome
<1>10. CASE Refill
  <2>1. /\ tty # <<>> /\ stdio' = Head(tty) /\ tty' = Tail(tty)
        /\ pc # "done" /\ pc' \in {pc, "ask"}
        /\ UNCHANGED <<fixed, num, coming, alarm, at, out>>
    BY <1>10 DEF Refill, user, Reading
  <2>2. InputOK'
    BY <1>1, <2>1 DEF InputOK
  <2>3. OutOK'
    BY <1>1, <2>1, OutStays
  <2>4. NumberOK' /\ AlarmOK'
    BY <1>1, <1>3, <2>1, NumberStays, AlarmStays
  <2>5. QED
    BY <1>3, <1>4, <2>1, <2>2, <2>3, <2>4 DEF QueryInv
<1>11. CASE ReadLine
  <2>1. /\ pc # "done" /\ prog.reader # "token" /\ tty # <<>>
        /\ UNCHANGED <<fixed, at, coming, stdio>>
        /\ Got(LineValue(Head(tty))) /\ tty' = Tail(tty)
    BY <1>11 DEF ReadLine, Reading, user
  <2>2. Head(tty) \in Seq(Tokens) /\ Tail(tty) \in Seq(Seq(Tokens))
    BY <1>1, <2>1
  <2>3. LineValue(Head(tty)) \in Tokens /\ IsNumber(LineValue(Head(tty)))
    BY <1>2, <2>1, <2>2, LineValueIs
  <2>4. Outcome
    BY <2>1, <2>3, GotOutcome
  <2>5. InputOK'
    BY <1>1, <2>1, <2>2 DEF InputOK
  <2>6. QED
    BY <1>3, <1>4, <2>1, <2>4, <2>5 DEF QueryInv, Outcome
<1>12. CASE AtEnd
  <2>1. /\ pc = "read" /\ UNCHANGED <<fixed, at, coming, tty, stdio>>
        /\ CASE prog.eof = "again"   -> AgainOrDump
             [] prog.eof = "keep"    -> GotKept
             [] prog.eof = "unset"   -> GotAnything
             [] prog.eof = "timeout" -> TimeOut /\ UNCHANGED num
    BY <1>12 DEF AtEnd, user, input
  <2>2. prog.eof \in {"again", "keep", "unset", "timeout"}
    BY <1>2 DEF Shape
  <2>3. Outcome
    <3>1. CASE AgainOrDump
      BY <2>1, <3>1, AgainOutcome
    <3>2. CASE GotKept
      BY <2>1, <3>2, GotOutcome
    <3>3. CASE GotAnything
      BY <2>1, <3>3, GotOutcome
    <3>4. CASE TimeOut /\ UNCHANGED num
      <4>1. OutOK' /\ AlarmOK' /\ pc' = "done"
        BY <2>1, <3>4, OutDumped
      <4>2. NumberOK'
        BY <1>1, <1>3, <2>1, <3>4, <4>1, NumberStays
      <4>3. QED
        BY <4>1, <4>2 DEF Outcome
    <3>5. QED
      BY <2>1, <2>2, <3>1, <3>2, <3>3, <3>4
  <2>4. InputOK'
    BY <1>1, <2>1 DEF InputOK
  <2>5. QED
    BY <1>3, <1>4, <2>1, <2>3, <2>4 DEF QueryInv, Outcome
<1>13. CASE Number
  <2>1. pc = "got" /\ UNCHANGED <<fixed, num, coming, tty, stdio>>
    BY <1>13 DEF Number, user, input
  <2>2. InputOK'
    BY <1>1, <2>1 DEF InputOK
  <2>3. IsNumber(num)
    BY <1>1, <2>1 DEF NumberOK
  <2>4. AlarmOK' /\ OutOK' /\ PositionOK' /\ pc' # "got"
    <3>1. CASE expired
      <4>1. TimeOut /\ UNCHANGED at
        BY <1>13, <3>1 DEF Number
      <4>2. QED
        BY <1>4, <2>1, <4>1, OutDumped
    <3>2. CASE ~expired /\ num = Junk
      <4>1. Again /\ UNCHANGED at /\ out' = Note("refused")
        BY <1>13, <3>2 DEF Number, Refuse
      <4>2. AlarmOK' /\ pc' # "got"
        BY <1>3, <2>1, <4>1, AgainSets
      <4>3. out'.kind = "refused" /\ out'.bytes = <<>>
        BY <4>1 DEF Note
      <4>4. OutOK'
        BY <4>3 DEF OutOK
      <4>5. QED
        BY <1>4, <2>1, <4>1, <4>2, <4>4
    <3>3. CASE ~expired /\ num # Junk
      <4>1. Answer(num) /\ num \in Int
        BY <1>13, <2>3, <3>3 DEF Number, IsNumber
      <4>2. QED
        BY <2>1, <4>1, AnswerOutcome
    <3>4. QED
      BY <3>1, <3>2, <3>3
  <2>5. NumberOK'
    BY <1>1, <1>3, <2>1, <2>4, NumberStays
  <2>6. QED
    BY <1>3, <2>1, <2>2, <2>4, <2>5 DEF QueryInv
<1>14. CASE NumberLate
  <2>1. /\ pc = "got" /\ prog.timer = "flag" /\ Answer(num)
        /\ UNCHANGED <<fixed, num, coming, tty, stdio>>
    BY <1>14 DEF NumberLate, user, input
  <2>2. InputOK'
    BY <1>1, <2>1 DEF InputOK
  <2>3. num \in Int
    <3>1. prog.junk = "stay"
      BY <1>2, <2>1 DEF Shape
    <3>2. QED
      BY <1>1, <2>1, <3>1 DEF NumberOK, IsNumber
  <2>4. AlarmOK' /\ OutOK' /\ PositionOK' /\ pc' # "got"
    BY <2>1, <2>3, AnswerOutcome
  <2>5. NumberOK'
    BY <1>1, <1>3, <2>1, <2>4, NumberStays
  <2>6. QED
    BY <1>3, <2>1, <2>2, <2>4, <2>5 DEF QueryInv
<1>15. CASE SelectTimeout
  <2>1. TimeOut /\ UNCHANGED <<fixed, num, coming, tty, stdio, at>>
    BY <1>15 DEF SelectTimeout, user, input
  <2>2. OutOK' /\ AlarmOK' /\ pc' = "done"
    BY <2>1, OutDumped
  <2>3. InputOK' /\ NumberOK'
    BY <1>1, <1>3, <2>1, <2>2, NumberStays DEF InputOK
  <2>4. QED
    BY <1>3, <1>4, <2>1, <2>2, <2>3 DEF QueryInv
<1>16. CASE Ring
  <2>1. /\ alarm /\ pc # "done" /\ UNCHANGED <<fixed, num, coming, tty, stdio, at>>
        /\ CASE prog.timer = "kill"      -> TimeOut /\ UNCHANGED expired
             [] prog.timer = "interrupt" ->
                  /\ UNCHANGED expired
                  /\ \/ Waits /\ TimeOut
                     \/ ~Waits /\ alarm' = FALSE /\ UNCHANGED <<pc, out>>
             [] prog.timer = "flag"      ->
                  expired' = TRUE /\ alarm' = FALSE /\ UNCHANGED <<pc, out>>
    BY <1>16 DEF Ring, user, input
  <2>2. prog.timer \in {"kill", "interrupt", "flag"}
    BY <1>1, <2>1 DEF AlarmOK
  <2>3. InputOK'
    BY <1>1, <2>1 DEF InputOK
  <2>4. CASE TimeOut
    <3>1. OutOK' /\ AlarmOK' /\ pc' = "done"
      BY <2>1, <2>4, OutDumped
    <3>2. NumberOK'
      BY <1>1, <1>3, <2>1, <3>1, NumberStays
    <3>3. QED
      BY <1>3, <1>4, <2>1, <2>3, <3>1, <3>2 DEF QueryInv
  <2>5. CASE alarm' = FALSE /\ UNCHANGED <<pc, out>>
    <3>1. OutOK'
      BY <1>1, <2>1, <2>5, OutStays
    <3>2. AlarmOK'
      BY <2>5 DEF AlarmOK
    <3>3. NumberOK'
      BY <1>1, <1>3, <2>1, <2>5, NumberStays
    <3>4. QED
      BY <1>3, <1>4, <2>1, <2>3, <3>1, <3>2, <3>3 DEF QueryInv
  <2>6. QED
    BY <2>1, <2>2, <2>4, <2>5
<1>17. CASE Enter
  <2>1. /\ pc = "ask" /\ pc' = "read"
        /\ UNCHANGED <<fixed, num, coming, tty, stdio, alarm, at, out>>
    BY <1>17 DEF Enter, user, input
  <2>2. InputOK'
    BY <1>1, <2>1 DEF InputOK
  <2>3. OutOK'
    BY <1>1, <2>1, OutStays
  <2>4. NumberOK' /\ AlarmOK'
    BY <1>1, <1>3, <2>1, NumberStays, AlarmStays
  <2>5. QED
    BY <1>3, <1>4, <2>1, <2>2, <2>3, <2>4 DEF QueryInv
<1>18. CASE UNCHANGED vars
  <2>1. UNCHANGED <<fixed, pc, num, coming, tty, stdio, alarm, at, out>>
    BY <1>18 DEF vars, fixed
  <2>2. InputOK'
    BY <1>1, <2>1 DEF InputOK
  <2>3. OutOK'
    BY <1>1, <2>1, OutStays
  <2>4. QED
    BY <1>3, <1>4, <1>5, <2>1, <2>2, <2>3 DEF QueryInv
<1>19. QED
  BY <1>6, <1>7, <1>8, <1>9, <1>10, <1>11, <1>12, <1>13, <1>14, <1>15, <1>16, <1>17, <1>18
     DEF Next, Program

\* So it always holds.
THEOREM QueryInvariant == Spec => []QueryInv
  BY QueryStart, QueryStep, PTL DEF Spec

-----------------------------------------------------------------------------
(*****************************************************************************)
(* What the dialogue should be.                                              *)
(*****************************************************************************)
\* A piece is open where nobody ended it.
LEMMA OpenPiece ==
  ASSUME NEW e, Shown(prog, text, e).open
  PROVE  /\ e.len > 0
         /\ \/ prog.closed = "open"
            \/ prog.closed = "unset" /\ Shown(prog, text, e).from >= Len(text)
  BY DEF Shown, Piece, Open

\* What is shown behind a line.
LEMMA BehindTheLine ==
  ASSUME QueryInv, out.kind = "line", out.number <= Newlines + 1, FitsPieces(out.number),
         out.bytes[1].open
  PROVE  \/ prog.closed = "open" /\ LineLength(out.number) > 0
         \/ prog.closed = "unset" /\ out.bytes[1].from >= Len(text)
<1> DEFINE n == out.number
           k == n - prog.lag
           b == out.bytes[1]
           e == table[k]
<1>1. /\ text \in Seq(Byte) /\ Shape(prog) /\ table = Table(prog, text) /\ Len(table) \in Nat
      /\ Newlines \in Nat
  BY ChosenFacts, LinesOfText DEF QueryInv
<1>2. n \in Int /\ n >= 1 /\ k <= Len(table) /\ b = Answered(n)
  <2>1. LineOut
    BY DEF QueryInv, OutOK
  <2>2. QED
    BY <2>1 DEF LineOut
<1>3. b = Shown(prog, text, e)
  BY <1>2 DEF Answered, Piece
<1>4. /\ e.len > 0
      /\ prog.closed = "open" \/ (prog.closed = "unset" /\ b.from >= Len(text))
  BY <1>3, OpenPiece
<1>5. ASSUME prog.closed = "open" PROVE LineLength(n) > 0
  <2>1. /\ prog.entry = "line" /\ prog.step = 0 /\ prog.nl = 0 /\ prog.lag = 0
        /\ prog.full # "stop"
    BY <1>1, <1>5 DEF Shape
  <2>2. k = n /\ n \in 1 .. Newlines + 1 /\ ReadTo(n) /\ n <= Len(table)
    BY <1>1, <1>2, <2>1 DEF ReadTo
  <2>3. Table(prog, text)[n] = EntryAt(n)
    BY <1>1, <2>2, TableEntries
  <2> DEFINE t == EntryAt(n)
  <2>4. t.len \in Int /\ t.len <= LineLength(n) + prog.nl
    BY <1>1, <2>1, <2>2, PlainEntry
  <2>5. e = t
    BY <1>1, <2>2, <2>3
  <2> HIDE DEF t, n, e
  <2>6. LineLength(n) \in Nat
    BY <1>1, <2>2, LinePlace
  <2>7. QED
    BY <1>4, <2>1, <2>4, <2>5, <2>6
<1>6. QED
  BY <1>4, <1>5

\* Whoever asks for a line that was read sees it, or what he sees instead.
LEMMA LinesAreShown ==
  ASSUME QueryInv
  PROVE  ShowsTheLine
<1> SUFFICES ASSUME out.kind = "line", out.number <= Newlines + 1, FitsPieces(out.number),
                    prog.full = "stop" => out.number <= Room
             PROVE  ShowsTheLine
  BY DEF ShowsTheLine
<1> DEFINE n == out.number
           b == out.bytes[1]
<1>1. /\ text \in Seq(Byte) /\ Shape(prog) /\ table = Table(prog, text) /\ Len(table) \in Nat
      /\ Newlines \in Nat
  BY ChosenFacts, LinesOfText DEF QueryInv
<1>2. n \in Int /\ n >= 1 /\ n - prog.lag <= Len(table) /\ b = Answered(n)
  <2>1. LineOut
    BY DEF QueryInv, OutOK
  <2>2. QED
    BY <2>1 DEF LineOut
<1>3. prog.lag \in {0, 1} /\ prog.last \in {0, 1}
  BY <1>1 DEF Shape
<1>4. n \in 1 .. Newlines + 1 /\ FitsPieces(n) /\ (prog.full = "stop" => n <= Room)
  BY <1>1, <1>2
<1>8. b.open => \/ prog.closed = "open" /\ LineLength(n) > 0
                \/ prog.closed = "unset" /\ b.from >= Len(text)
  BY BehindTheLine
<1> HIDE DEF n, b
<1>5. CASE prog.lag = 1
  <2>1. /\ prog.entry = "line" /\ prog.step = 0 /\ ~prog.blanks /\ prog.full # "stop"
        /\ prog.cut = 0 /\ prog.chunk = 0 /\ prog.last = 0
    BY <1>1, <1>5 DEF Shape
  <2>2. CASE n = 1
    <3>1. b = Piece(0, 0, FALSE)
      BY <1>2, <1>5, <2>2 DEF Answered
    <3>2. b.to = 0
      BY <3>1 DEF Piece
    <3>3. QED
      BY <1>5, <2>1, <2>2, <3>2, <1>8 DEF ShowsTheLine, n, b
  <2>3. CASE n # 1
    <3>1. n - 1 \in 1 .. Newlines + 1 /\ n - 1 # 0 /\ n - 1 <= Len(table)
      BY <1>1, <1>2, <1>4, <1>5, <2>3
    <3>2. ReadTo(n - 1)
      BY <2>1 DEF ReadTo, FitsPieces
    <3>3. Table(prog, text)[n - 1] = EntryAt(n - 1)
      BY <1>1, <3>1, <3>2, TableEntries
    <3>4. b = Shown(prog, text, EntryAt(n - 1))
      <4>1. b = Shown(prog, text, table[n - 1])
        BY <1>2, <1>5, <2>1, <3>1 DEF Answered
      <4>2. QED
        BY <1>1, <3>3, <4>1
    <3>5. /\ b.from = LineStart(n - 1) + LeftOut(n - 1)
          /\ b.to \in {LineEnd(n - 1), LineEnd(n - 1) + 1}
      BY <1>1, <2>1, <3>1, <3>4, PlainEntry
    <3>6. LeftOut(n - 1) = 0 /\ LineStart(n - 1) \in Nat
      BY <1>1, <2>1, <3>1, LinePlace DEF LeftOut
    <3>7. Spans(b, n - 1)
      BY <3>5, <3>6 DEF Spans
    <3>8. QED
      BY <1>5, <2>1, <2>3, <3>7, <1>8 DEF ShowsTheLine, n, b
  <2>4. QED
    BY <2>2, <2>3
<1>6. CASE prog.lag = 0
  <2>1. n - prog.lag = n /\ n # 0 /\ n <= Len(table)
    BY <1>2, <1>6
  <2>2. ReadTo(n)
    BY <1>4 DEF ReadTo
  <2>3. Table(prog, text)[n] = EntryAt(n) /\ (prog.entry = "previous" => Newlines > 0)
    BY <1>1, <1>4, <2>1, <2>2, TableEntries
  <2>4. b = IF prog.last = 1 /\ n = Len(table) THEN Piece(0, 0, FALSE)
            ELSE Shown(prog, text, EntryAt(n))
    BY <1>1, <1>2, <2>1, <2>3 DEF Answered
  <2> DEFINE piece == Shown(prog, text, EntryAt(n))
  <2>5. /\ LineStart(n) \in Nat /\ LineLength(n) \in Nat
        /\ LineEnd(n) = LineStart(n) + LineLength(n) /\ LineEnd(n) \in Nat /\ Len(text) \in Nat
        /\ n > Newlines => LineEnd(n) = Len(text)
        /\ n > 1 => LineLength(n - 1) \in Nat
    BY <1>1, <1>4, LinePlace
  <2>6. ASSUME prog.entry = "line" \/ (prog.entry = "break" /\ n = 1), prog.step = 0, ~prog.blanks
        PROVE  Spans(piece, n)
    <3>1. /\ piece.from = LineStart(n) + LeftOut(n)
          /\ piece.to \in {LineEnd(n), LineEnd(n) + 1}
      BY <1>1, <1>4, <2>6, PlainEntry
    <3>2. LeftOut(n) = 0
      BY <2>6 DEF LeftOut
    <3> HIDE DEF piece
    <3>3. QED
      BY <2>5, <3>1, <3>2 DEF Spans
  <2>7. prog.entry = "break" => prog.step = 0 /\ ~prog.blanks
    BY <1>1 DEF Shape
  <2>8. CASE prog.last = 1
    <3>1. prog.entry = "line" /\ prog.step = 0 /\ ~prog.blanks
      BY <1>1, <2>8 DEF Shape
    <3>2. Spans(b, n) \/ (n = Len(table) /\ b.to = 0)
      <4>1. CASE n = Len(table)
        <5>1. b = Piece(0, 0, FALSE)
          BY <2>4, <2>8, <4>1
        <5>2. QED
          BY <4>1, <5>1 DEF Piece
      <4>2. CASE n # Len(table)
        BY <2>4, <2>6, <3>1, <4>2
      <4>3. QED
        BY <4>1, <4>2
    <3>3. QED
      BY <1>6, <2>8, <3>1, <3>2, <1>8 DEF ShowsTheLine, n, b
  <2>9. CASE prog.last # 1 /\ prog.entry = "previous"
    <3>1. b = piece
      BY <2>4, <2>9
    <3> DEFINE e == EntryAt(n)
    <3>2. /\ e.len = IF n = 1 THEN 1
                     ELSE IF n <= Newlines THEN LineLength(n - 1) + 1
                     ELSE LineLength(n - 1) + 1 + LineLength(n)
          /\ piece.from = LineStart(n)
          /\ piece.to = IF LineStart(n) + e.len <= Len(text) THEN LineStart(n) + e.len ELSE
             Len(text)
          /\ n = 1 => piece.to = LineStart(n) + 1
          /\ n > Newlines => piece.to = Len(text)
      BY <1>1, <1>4, <2>3, <2>9, PreviousEntry
    <3> HIDE DEF e, piece
    <3>3. b.from = LineStart(n)
      BY <3>1, <3>2
    <3>4. b.to - b.from = CASE n = 1      -> 1
                            [] n > Newlines -> LineLength(n)
                            [] OTHER -> Min({LineLength(n - 1) + 1, Len(text) - b.from})
      <4>1. CASE n = 1
        <5>1. b.to - b.from = 1 /\ ~(n > Newlines)
          BY <1>1, <2>3, <2>5, <2>9, <3>1, <3>2, <4>1
        <5>2. QED
          BY <4>1, <5>1
      <4>2. CASE n # 1 /\ n > Newlines
        <5>1. b.to - b.from = LineLength(n)
          BY <2>5, <3>1, <3>2, <4>2
        <5>2. QED
          BY <4>2, <5>1
      <4>3. CASE n # 1 /\ ~(n > Newlines)
        <5>1. n > 1 /\ n <= Newlines
          BY <1>1, <1>4, <4>3
        <5>2. PICK l \in Nat, a \in Nat, t \in Nat :
                l = LineLength(n - 1) /\ a = LineStart(n) /\ t = Len(text)
          BY <2>5, <5>1
        <5>3. b.from = a /\ b.to = IF a + (l + 1) <= t THEN a + (l + 1) ELSE t
          BY <3>1, <3>2, <5>1, <5>2
        <5>4. b.to - b.from = IF l + 1 <= t - a THEN l + 1 ELSE t - a
          BY <5>2, <5>3
        <5> DEFINE S == {l + 1, t - a}
        <5>5. Min(S) = IF l + 1 <= t - a THEN l + 1 ELSE t - a
          <6>1. S \in SUBSET Int /\ l + 1 \in S /\ t - a \in S
            BY <5>2
          <6>2. CASE l + 1 <= t - a
            <7>1. \A y \in S : l + 1 <= y
              BY <5>2, <6>2
            <7>2. Min(S) = l + 1
              <8> HIDE DEF S
              <8>1. QED
                BY <6>1, <7>1, LeastIs
            <7>3. QED
              BY <6>2, <7>2
          <6>3. CASE ~(l + 1 <= t - a)
            <7>1. \A y \in S : t - a <= y
              BY <5>2, <6>3
            <7>2. Min(S) = t - a
              <8> HIDE DEF S
              <8>1. QED
                BY <6>1, <7>1, LeastIs
            <7>3. QED
              BY <6>3, <7>2
          <6>4. QED
            BY <6>2, <6>3
        <5>6. Min({LineLength(n - 1) + 1, Len(text) - b.from}) = Min(S)
          BY <5>2, <5>3
        <5> HIDE DEF S
        <5>7. b.to - b.from = Min({LineLength(n - 1) + 1, Len(text) - b.from})
          BY <5>4, <5>5, <5>6
        <5>8. QED
          BY <4>3, <5>7
      <4>4. QED
        BY <4>1, <4>2, <4>3
    <3>5. prog.step = 0 /\ ~prog.blanks
      BY <1>1, <2>9 DEF Shape
    <3>6. QED
      BY <1>6, <2>9, <3>3, <3>4, <3>5, <1>8 DEF ShowsTheLine, n, b
  <2>10. CASE prog.last # 1 /\ prog.entry = "break" /\ n > 1
    <3>1. b = piece /\ n \in 2 .. Newlines + 1
      BY <1>4, <2>4, <2>10
    <3>2. b.from = LineStart(n) - 1 /\ b.to \in {LineEnd(n) - 1, LineEnd(n)}
      BY <1>1, <2>10, <3>1, BreakEntry
    <3>3. QED
      BY <1>6, <2>10, <2>7, <3>2, <1>8 DEF ShowsTheLine, n, b
  <2>11. CASE prog.last # 1 /\ prog.entry \notin {"previous", "break"} /\ prog.step = 2
    <3>unindented. ~prog.blanks
      BY <1>1, <2>11 DEF Shape
    <3>1. b = piece
      BY <2>4, <2>11
    <3>2. /\ b.from = LineStart(n) + n - 1
          /\ n = 1 => b.from = LineStart(n) /\ b.to = LineEnd(n)
      BY <1>1, <1>4, <2>11, <3>1, StepEntry
    <3>3. CASE n > 1
      BY <1>6, <2>11, <3>unindented, <3>2, <3>3, <1>8 DEF ShowsTheLine, n, b
    <3>4. CASE n = 1
      <4>1. Spans(b, n) /\ ~(n > 1)
        BY <3>2, <3>4 DEF Spans
      <4>2. QED
        BY <1>6, <2>11, <3>unindented, <4>1, <1>8 DEF ShowsTheLine, n, b
    <3>5. QED
      BY <1>4, <3>3, <3>4
  <2>12. CASE prog.last # 1 /\ prog.entry \notin {"previous", "break"} /\ prog.step # 2 /\
     prog.blanks
    <3>1. b = piece /\ prog.step = 0 /\ prog.nl = 0 /\ prog.entry = "line"
      BY <1>1, <2>4, <2>12 DEF Shape
    <3>2. b.from = LineStart(n) + LeftOut(n) /\ b.to = LineEnd(n)
      BY <1>1, <1>4, <3>1, PlainEntry
    <3>3. LeftOut(n) = Indent(n)
      BY <2>12 DEF LeftOut
    <3>4. b.from = LineStart(n) + Indent(n) /\ b.to = LineEnd(n)
      BY <3>2, <3>3
    <3>5. QED
      BY <1>6, <2>12, <3>4, <1>8 DEF ShowsTheLine, n, b
  <2>13. CASE /\ prog.last # 1 /\ prog.entry # "previous" /\ ~(prog.entry = "break" /\ n > 1)
              /\ ~(prog.step = 2 /\ n > 1) /\ ~prog.blanks /\ prog.step # 2
    <3>1. prog.step = 0 /\ (prog.entry = "line" \/ (prog.entry = "break" /\ n = 1))
      BY <1>1, <1>4, <2>13 DEF Shape
    <3>2. b = piece
      BY <2>4, <2>13
    <3>3. Spans(b, n)
      BY <2>6, <2>13, <3>1, <3>2
    <3>4. QED
      BY <1>6, <2>13, <3>3, <1>8 DEF ShowsTheLine, n, b
  <2>14. n > 1 \/ n = 1
    BY <1>4
  <2>15. QED
    BY <2>8, <2>9, <2>10, <2>11, <2>12, <2>13, <2>7, <2>14
<1>7. QED
  BY <1>3, <1>5, <1>6

\* Every letter lies in a line.
LEMMA LetterLine ==
  ASSUME text \in Seq(Byte), NEW i \in AllLetters
  PROVE  LET k == Passed(i) + 1
         IN  /\ i \in 1 .. Len(text) /\ Passed(i) \in Nat /\ k \in 1 .. Newlines + 1
             /\ LineStart(k) < i /\ i <= LineEnd(k)
<1> DEFINE k == Passed(i) + 1
<1>1. i \in 1 .. Len(text) /\ text[i] # Newline /\ i \in Nat /\ i \in 0 .. Len(text)
      /\ Len(text) \in Nat
  BY DEF AllLetters
<1>2. /\ Spanned(k, LineStart(k), LineEnd(k))
      /\ LineStart(k) <= i /\ i <= LineEnd(k)
  BY <1>1, LineAt
<1>3. Passed(i) \in Nat /\ Newlines \in Nat /\ Passed(i) <= Newlines
  BY <1>1, PassedFacts, PassedGrows, StartsCounted, LinesOfText
<1> HIDE DEF k
<1>4. k \in 1 .. Newlines + 1
  BY <1>3 DEF k
<1>5. LineStart(k) \in Nat /\ LineStart(k) # i
  <2>1. LineStart(k) \in Starts
    BY <1>2 DEF Spanned
  <2>2. QED
    BY <1>1, <2>1 DEF Starts
<1>6. LineStart(k) < i
  BY <1>1, <1>2, <1>5
<1>7. QED
  BY <1>1, <1>2, <1>3, <1>4, <1>6 DEF k

\* Where the last line is read as a whole, so are those before it.
LEMMA ReadBefore ==
  ASSUME text \in Seq(Byte), Shape(prog), ReadTo(Newlines + 1), NEW k \in 1 .. Newlines + 1
  PROVE  ReadTo(k)
<1>1. /\ Newlines \in Nat /\ k \in Nat /\ Len(text) \in Nat /\ LineEnd(k) \in Nat
      /\ LineEnd(k) <= Len(text)
  BY LinePlace
<1>2. prog.full = "stop" => k <= Room
  BY <1>1, LineAssumption DEF ReadTo
<1>3. prog.cut > 0 => \A j \in 1 .. k : LineLength(j) < prog.cut
  <2>1. ASSUME prog.cut > 0, NEW j \in 1 .. k PROVE LineLength(j) < prog.cut
    <3>1. j \in 1 .. Newlines + 1
      BY <1>1
    <3>2. QED
      BY <2>1, <3>1 DEF ReadTo, FitsPieces
  <2>2. QED
    BY <2>1
<1>4. prog.chunk > 0 => LineEnd(k) < prog.chunk
  <2>1. LineEnd(Newlines + 1) = Len(text)
    BY LinesOfText
  <2>2. prog.chunk > 0 => Len(text) < prog.chunk
    BY <2>1 DEF ReadTo, FitsPieces
  <2>3. prog.chunk \in Nat
    BY LineAssumption DEF Shape
  <2>4. QED
    BY <1>1, <2>2, <2>3
<1>5. QED
  BY <1>2, <1>3, <1>4 DEF ReadTo, FitsPieces

\* An entry shows the letters of its line.
LEMMA EntryLetters ==
  ASSUME Chosen, ReadTo(Newlines + 1), prog.full = "skip" => Newlines < Room,
         prog.entry = "line", prog.step = 0, ~prog.blanks, NEW k \in 1 .. Len(table)
  PROVE  Letters(Shown(prog, text, table[k])) = {i \in AllLetters : Passed(i) = k - 1}
<1>1. text \in Seq(Byte) /\ Shape(prog) /\ table = Table(prog, text) /\ Len(table) \in Nat
  BY ChosenFacts
<1>2. Newlines \in Nat /\ Len(table) \in Newlines .. Newlines + 1
  BY <1>1, TableSize, LinesOfText
<1>3. k \in 1 .. Newlines + 1 /\ k \in Nat
  BY <1>1, <1>2
<1>4. /\ LineStart(k) \in Nat /\ LineLength(k) \in Nat /\ Len(text) \in Nat
      /\ LineEnd(k) = LineStart(k) + LineLength(k) /\ LineEnd(k) \in Nat
      /\ LineEnd(k) <= Len(text)
      /\ Spanned(k, LineStart(k), LineEnd(k))
  BY <1>1, <1>3, LinePlace, LinesOfText
<1>5. ReadTo(k)
  BY <1>1, <1>3, ReadBefore
<1>6. table[k] = EntryAt(k)
  <2>1. k <= Len(Table(prog, text))
    BY <1>1, <1>3
  <2>2. Table(prog, text)[k] = EntryAt(k)
    BY <1>1, <1>3, <1>5, <2>1, TableEntries
  <2>3. QED
    BY <1>1, <2>2
<1> DEFINE b == Shown(prog, text, EntryAt(k))
<1>7. /\ b.from = LineStart(k)
      /\ b.to \in {LineEnd(k), LineEnd(k) + 1} /\ b.to <= Len(text)
  <2>1. /\ b.from = LineStart(k) + LeftOut(k)
        /\ b.to \in {LineEnd(k), LineEnd(k) + 1} /\ b.to <= Len(text)
    BY <1>1, <1>3, PlainEntry
  <2>2. LeftOut(k) = 0
    BY DEF LeftOut
  <2> HIDE DEF b
  <2>3. QED
    BY <1>4, <2>1, <2>2
<1> HIDE DEF b
<1>8. ASSUME NEW i \in Letters(b) PROVE i \in AllLetters /\ Passed(i) = k - 1
  <2>1. i \in LineStart(k) + 1 .. b.to /\ text[i] # Newline
    BY <1>7 DEF Letters
  <2>2. i \in 1 .. Len(text) /\ LineStart(k) < i /\ i \in Nat
    BY <1>4, <1>7, <2>1
  <2>3. i <= LineEnd(k)
    <3>1. CASE b.to = LineEnd(k)
      BY <1>4, <2>1, <3>1
    <3>2. CASE b.to = LineEnd(k) + 1
      <4>1. text[LineEnd(k) + 1] = Newline
        BY <1>4, <1>7, <3>2 DEF Spanned
      <4>2. QED
        BY <1>4, <2>1, <3>2, <4>1
    <3>3. QED
      BY <1>7, <3>1, <3>2
  <2>4. Passed(i) = Passed(LineStart(k))
    <3>1. \A j \in LineStart(k) + 1 .. i : text[j] # Newline
      BY <1>4, <2>2, <2>3 DEF Spanned
    <3>2. QED
      BY <1>4, <2>2, <3>1, PassedStays
  <2>5. QED
    BY <1>4, <2>1, <2>2, <2>4 DEF AllLetters, Spanned
<1>9. ASSUME NEW i \in AllLetters, Passed(i) = k - 1 PROVE i \in Letters(b)
  <2>1. Passed(i) + 1 = k
    BY <1>3, <1>9
  <2>2. i \in 1 .. Len(text) /\ LineStart(k) < i /\ i <= LineEnd(k)
    BY <1>1, <2>1, LetterLine
  <2>3. text[i] # Newline
    BY DEF AllLetters
  <2>4. i \in b.from + 1 .. b.to
    BY <1>4, <1>7, <2>2
  <2>5. QED
    BY <2>3, <2>4 DEF Letters
<1>10. Letters(b) = {i \in AllLetters : Passed(i) = k - 1}
  BY <1>8, <1>9
<1>11. QED
  BY <1>6, <1>10 DEF b

\* A time-out shows the letters it should.
LEMMA FileIsShown ==
  ASSUME QueryInv
  PROVE  TimeoutShowsFile
<1> SUFFICES ASSUME out.kind = "dump", FitsPieces(Newlines + 1),
                    prog.full = "skip" => Newlines < Room
             PROVE  TimeoutShowsFile
  BY DEF TimeoutShowsFile
<1> DEFINE shown == UNION {Letters(out.bytes[i]) : i \in DOMAIN out.bytes}
<1>1. /\ text \in Seq(Byte) /\ Shape(prog) /\ table = Table(prog, text)
      /\ table \in Seq(Entry) /\ Len(table) \in Nat /\ Newlines \in Nat /\ Len(text) \in Nat
      /\ Chosen
  BY ChosenFacts, LinesOfText DEF QueryInv
<1>2. out.bytes = Dump
  BY DEF QueryInv, OutOK
<1>3. prog.dump \in {"nothing", "file", "rest", "entries", "before"}
  BY <1>1 DEF Shape
<1>4. CASE prog.dump = "nothing"
  <2>1. out.bytes = <<>>
    BY <1>2, <1>4 DEF Dump
  <2>2. shown = {}
    BY <2>1
  <2> HIDE DEF shown
  <2>3. QED
    BY <1>4, <2>2 DEF TimeoutShowsFile, shown
<1>5. CASE prog.dump = "file"
  <2>1. out.bytes = <<Piece(0, Len(text), FALSE)>>
    BY <1>2, <1>5 DEF Dump
  <2>2. Letters(Piece(0, Len(text), FALSE)) = AllLetters
    BY <1>1 DEF Letters, AllLetters, Piece
  <2>3. shown = AllLetters
    <3>1. DOMAIN out.bytes = {1} /\ out.bytes[1] = Piece(0, Len(text), FALSE)
      BY <2>1
    <3>2. QED
      BY <2>2, <3>1
  <2> HIDE DEF shown
  <2>4. QED
    BY <1>5, <2>3 DEF TimeoutShowsFile, shown
<1>6. CASE prog.dump = "rest"
  <2>1. out.bytes = <<Piece(at, Len(text), FALSE)>>
    BY <1>2, <1>6 DEF Dump
  <2>2. at \in 0 .. Len(text)
    BY <1>6 DEF QueryInv, PositionOK
  <2>3. Letters(Piece(at, Len(text), FALSE)) = {i \in AllLetters : i > at}
    BY <1>1, <2>2 DEF Letters, AllLetters, Piece
  <2>4. shown = {i \in AllLetters : i > at}
    <3>1. DOMAIN out.bytes = {1} /\ out.bytes[1] = Piece(at, Len(text), FALSE)
      BY <2>1
    <3>2. QED
      BY <2>3, <3>1
  <2> HIDE DEF shown
  <2>5. QED
    BY <1>6, <2>4 DEF TimeoutShowsFile, shown
<1>7. CASE prog.dump \in {"entries", "before"}
  <2>1. /\ prog.entry = "line" /\ prog.step = 0 /\ ~prog.blanks /\ prog.full # "stop"
        /\ prog.tail # "never"
    BY <1>1, <1>7 DEF Shape
  <2>2. ReadTo(Newlines + 1)
    BY <2>1 DEF ReadTo
  <2>3. \A k \in 1 .. Len(table) :
          Letters(Shown(prog, text, table[k])) = {i \in AllLetters : Passed(i) = k - 1}
    BY <1>1, <2>1, <2>2, EntryLetters
  <2>4. /\ Len(table) \in Newlines .. Newlines + 1
        /\ LineLength(Newlines + 1) > 0 => Len(table) = Newlines + 1
    BY <1>1, <2>1, <2>2, TableSize
  <2>5. ASSUME NEW i \in AllLetters
        PROVE  Passed(i) \in Nat /\ Passed(i) + 1 \in 1 .. Len(table)
    <3>1. /\ i \in 1 .. Len(text) /\ Passed(i) \in Nat /\ Passed(i) + 1 \in 1 .. Newlines + 1
          /\ LineStart(Passed(i) + 1) < i /\ i <= LineEnd(Passed(i) + 1)
      BY <1>1, LetterLine
    <3>2. CASE Passed(i) + 1 = Newlines + 1
      <4>1. Newlines + 1 \in 1 .. Newlines + 1
        BY <1>1
      <4>2. /\ LineStart(Newlines + 1) \in Nat /\ LineLength(Newlines + 1) \in Nat
            /\ LineEnd(Newlines + 1) = LineStart(Newlines + 1) + LineLength(Newlines + 1)
        BY <1>1, <4>1, LinesOfText
      <4>3. LineStart(Newlines + 1) < i /\ i <= LineEnd(Newlines + 1)
        BY <3>1, <3>2
      <4>4. LineLength(Newlines + 1) > 0
        BY <3>1, <4>2, <4>3
      <4>5. QED
        BY <1>1, <2>4, <3>1, <4>4
    <3>3. CASE Passed(i) + 1 # Newlines + 1
      BY <1>1, <2>4, <3>1, <3>3
    <3>4. QED
      BY <3>2, <3>3
  <2>6. /\ Entries = [k \in 1 .. Len(table) |-> Shown(prog, text, table[k])]
        /\ Entries \in Seq({Shown(prog, text, table[k]) : k \in 1 .. Len(table)})
        /\ Len(Entries) = Len(table)
    BY <1>1 DEF Entries
  <2>7. CASE prog.dump = "entries"
    <3>1. out.bytes = Entries
      BY <1>2, <2>7 DEF Dump
    <3>2. /\ DOMAIN out.bytes = 1 .. Len(table)
          /\ \A k \in 1 .. Len(table) :
               Letters(out.bytes[k]) = {i \in AllLetters : Passed(i) = k - 1}
      BY <2>3, <2>6, <3>1
    <3>3. \A i \in AllLetters : i \in Letters(out.bytes[Passed(i) + 1])
      <4>1. ASSUME NEW i \in AllLetters PROVE i \in Letters(out.bytes[Passed(i) + 1])
        <5>1. Passed(i) \in Nat /\ Passed(i) + 1 \in 1 .. Len(table) /\ Passed(i) =
           (Passed(i) + 1) - 1
          BY <2>5
        <5>2. QED
          BY <3>2, <5>1
      <4>2. QED
        BY <4>1
    <3>4. shown = AllLetters
      BY <2>5, <3>2, <3>3
    <3> HIDE DEF shown
    <3>5. QED
      BY <2>7, <3>4 DEF TimeoutShowsFile, shown
  <2>8. CASE prog.dump = "before"
    <3>1. CASE table = <<>>
      <4>1. out.bytes = <<>>
        BY <1>2, <2>8, <3>1 DEF Dump
      <4>2. AllLetters = {} /\ shown = {}
        BY <2>5, <3>1, <4>1
      <4> HIDE DEF shown
      <4>3. QED
        BY <2>8, <4>2 DEF TimeoutShowsFile, shown
    <3>2. CASE table # <<>>
      <4> DEFINE n == Len(table)
      <4>1. n \in Nat \ {0} /\ n - 1 \in Nat
        BY <1>1, <3>2
      <4>2. out.bytes = <<Stray>> \o SubSeq(Entries, 1, n - 1)
        <5>1. out.bytes = <<Stray>> \o Front(Entries)
          BY <1>2, <2>8, <3>2 DEF Dump
        <5>2. QED
          BY <2>6, <5>1 DEF Front
      <4>3. /\ DOMAIN out.bytes = {1} \cup {k + 1 : k \in 1 .. n - 1}
            /\ Letters(out.bytes[1]) = {}
            /\ \A k \in 1 .. n - 1 :
                 Letters(out.bytes[k + 1]) = {i \in AllLetters : Passed(i) = k - 1}
        <5>1. SubSeq(Entries, 1, n - 1) = [k \in 1 .. n - 1 |-> Entries[k]]
          BY <2>6, <4>1
        <5>2. /\ DOMAIN out.bytes = 1 .. n /\ out.bytes[1] = Stray
              /\ \A k \in 1 .. n - 1 : out.bytes[k + 1] = Entries[k]
          BY <4>1, <4>2, <5>1
        <5>3. Letters(Stray) = {}
          BY DEF Letters, Stray, Piece
        <5>4. 1 .. n = {1} \cup {k + 1 : k \in 1 .. n - 1}
          <6>1. \A m \in 2 .. n : m - 1 \in 1 .. n - 1 /\ m = (m - 1) + 1
            BY <4>1
          <6>2. QED
            BY <4>1, <6>1
        <5>5. \A k \in 1 .. n - 1 : k \in 1 .. Len(table)
          BY <4>1
        <5>6. QED
          BY <2>3, <2>6, <5>2, <5>3, <5>4, <5>5
      <4>4. n \in 1 .. Newlines + 1
        BY <1>1, <2>4, <4>1
      <4>5. LineStart(n) \in Nat /\ Passed(LineStart(n)) = n - 1
        BY <1>1, <4>4, LinesOfText DEF Spanned
      <4>6. ASSUME NEW i \in AllLetters
            PROVE  i <= LineStart(n) <=> Passed(i) + 1 \in 1 .. n - 1
        <5>1. /\ i \in Nat /\ Passed(i) \in Nat /\ LineStart(Passed(i) + 1) < i
              /\ i \in 1 .. Len(text)
          BY <1>1, LetterLine
        <5>2. ASSUME i <= LineStart(n) PROVE Passed(i) + 1 \in 1 .. n - 1
          <6>1. Passed(i) <= n - 1
            BY <4>5, <5>1, <5>2, PassedGrows
          <6>2. Passed(i) + 1 # n
            BY <4>5, <5>1, <5>2
          <6>3. QED
            BY <4>1, <5>1, <6>1, <6>2
        <5>3. ASSUME Passed(i) + 1 \in 1 .. n - 1 PROVE i <= LineStart(n)
          <6>1. SUFFICES ASSUME LineStart(n) <= i PROVE FALSE
            BY <4>5, <5>1
          <6>2. n - 1 <= Passed(i)
            BY <4>5, <5>1, <6>1, PassedGrows
          <6>3. QED
            BY <4>1, <5>1, <5>3, <6>2
        <5>4. QED
          BY <5>2, <5>3
      <4> HIDE DEF n
      <4>7. ASSUME NEW i \in AllLetters, NEW k \in 1 .. n - 1
            PROVE  i \in Letters(out.bytes[k + 1]) <=> Passed(i) + 1 = k
        <5>1. Passed(i) \in Nat /\ k \in Nat
          BY <2>5
        <5>2. i \in Letters(out.bytes[k + 1]) <=> Passed(i) = k - 1
          BY <4>3
        <5>3. QED
          BY <5>1, <5>2
      <4>8. ASSUME NEW k \in 1 .. n - 1 PROVE Letters(out.bytes[k + 1]) \subseteq AllLetters
        BY <4>3
      <4>9. shown = {i \in AllLetters : i <= LineStart(n)}
        <5>1. ASSUME NEW i \in shown PROVE i \in AllLetters /\ i <= LineStart(n)
          <6>1. PICK k \in 1 .. n - 1 : i \in Letters(out.bytes[k + 1])
            BY <4>3
          <6>2. i \in AllLetters
            BY <4>8, <6>1
          <6>3. Passed(i) + 1 = k
            BY <4>7, <6>1, <6>2
          <6>4. QED
            BY <4>6, <6>2, <6>3
        <5>2. ASSUME NEW i \in AllLetters, i <= LineStart(n) PROVE i \in shown
          <6>1. Passed(i) + 1 \in 1 .. n - 1
            BY <4>6, <5>2
          <6>2. i \in Letters(out.bytes[(Passed(i) + 1) + 1])
            BY <4>7, <6>1
          <6>3. QED
            BY <4>3, <6>1, <6>2
        <5>3. QED
          BY <5>1, <5>2
      <4> HIDE DEF shown
      <4>10. CASE AllLetters # {}
        <5>1. shown = {i \in AllLetters : i <= LineStart(Len(table))}
          BY <4>9 DEF n
        <5>2. QED
          BY <2>8, <4>10, <5>1 DEF TimeoutShowsFile, shown
      <4>11. CASE AllLetters = {}
        <5>1. shown = AllLetters
          BY <4>9, <4>11
        <5>2. QED
          BY <2>8, <4>11, <5>1 DEF TimeoutShowsFile, shown
      <4>12. QED
        BY <4>10, <4>11
    <3>3. QED
      BY <3>1, <3>2
  <2>9. QED
    BY <1>7, <2>7, <2>8
<1>8. QED
  BY <1>3, <1>4, <1>5, <1>6, <1>7

\* Lines that are few and short are read as a whole.
LEMMA FewAndShortFacts ==
  ASSUME text \in Seq(Byte), Shape(prog), FewAndShort
  PROVE  /\ Newlines \in Nat /\ Room \in Nat /\ Newlines + 2 <= Room /\ Buffer \in Nat
         /\ \A k \in 1 .. Newlines + 1 : LineLength(k) < Buffer - 1 /\ LineLength(k) < Cut
         /\ prog.full # "skip" => ReadTo(Newlines + 1)
<1>1. /\ Newlines \in Nat /\ Room \in Nat /\ Buffer \in Nat \ {0} /\ Cut \in Nat \ {0}
      /\ Newlines + 2 <= Room
  BY LinesOfText, LineAssumption DEF FewAndShort
<1> DEFINE S == {Buffer - 1, Cut}
<1>2. S \in SUBSET Nat /\ S # {} /\ Buffer - 1 \in S /\ Cut \in S
  BY <1>1
<1>3. \A k \in 1 .. Newlines + 1 : LineLength(k) < Min(S)
  BY DEF FewAndShort
<1> HIDE DEF S
<1>4. PICK m \in Nat : m = Min(S) /\ m <= Buffer - 1 /\ m <= Cut
  BY <1>2, LeastElement
<1>5. ASSUME NEW k \in 1 .. Newlines + 1
      PROVE  LineLength(k) < Buffer - 1 /\ LineLength(k) < Cut
  <2>1. LineLength(k) \in Nat /\ LineLength(k) < m
    BY <1>3, <1>4, LinesOfText
  <2>2. QED
    BY <1>1, <1>4, <2>1
<1>6. ASSUME prog.full # "skip" PROVE ReadTo(Newlines + 1)
  <2>1. ~(prog.chunk > 0) /\ prog.cut \in {0, Cut}
    BY <1>6 DEF Shape
  <2>2. prog.cut > 0 => \A k \in 1 .. Newlines + 1 : LineLength(k) < prog.cut
    BY <1>5, <2>1
  <2>3. prog.full = "stop" => Newlines + 1 <= Room
    BY <1>1
  <2>4. QED
    BY <2>1, <2>2, <2>3 DEF ReadTo, FitsPieces
<1>7. QED
  BY <1>1, <1>5, <1>6

\* The array is large enough for them, but for k.makanin's.
LEMMA ArrayIsKept ==
  ASSUME Chosen, FewAndShort, PastArray(prog, text)
  PROVE  prog.grow = "lines" /\ \E i \in 0 .. Newlines : Doubled[i] = Newlines
<1> DEFINE s == Scanned(prog, text)
           T == Table(prog, text)
<1>1. text \in Seq(Byte) /\ Shape(prog)
  BY ChosenFacts
<1>2. /\ Newlines \in Nat /\ Room \in Nat /\ Newlines + 2 <= Room
      /\ prog.full # "skip" => ReadTo(Newlines + 1)
  BY <1>1, FewAndShortFacts
<1>3. /\ T \in Seq(Entry) /\ Len(T) \in Nat
      /\ s.lines \in Nat /\ s.lines <= Newlines
      /\ prog.full = "skip" => Len(T) <= Room
      /\ prog.full = "over" => s.lines = Newlines
      /\ prog.full # "skip" => Len(T) <= Newlines + 1
  <2>1. /\ T \in Seq(Entry)
        /\ s.lines \in Nat /\ s.lines <= Newlines
        /\ prog.full = "skip" => Len(T) <= Room
        /\ prog.full = "over" => s.lines = Newlines
    BY <1>1, TableSize
  <2>2. ASSUME prog.full # "skip" PROVE Len(T) \in Newlines .. Newlines + 1
    BY <1>1, <1>2, <2>2, TableSize
  <2>3. QED
    BY <1>2, <2>1, <2>2
<1>4. s.table = T
  BY DEF Table
<1>5. Used(prog, s) > Elements(prog, s)
  BY DEF PastArray
<1> HIDE DEF s, T
<1>6. prog.marks \in {0, 1, 2} /\ Used(prog, s) = IF prog.marks = 0 THEN Len(T) ELSE s.lines
   + prog.marks
  BY <1>1, <1>4 DEF Used, Shape
<1>7. Used(prog, s) \in Nat
  BY <1>3, <1>6
<1>8. prog.grow \in {"fixed", "exact", "double", "lines"}
  BY <1>1 DEF Shape
<1>9. CASE prog.grow = "fixed"
  <2>1. Elements(prog, s) = Room
    BY <1>9 DEF Elements
  <2>2. Used(prog, s) <= Room
    BY <1>2, <1>3, <1>6
  <2>3. QED
    BY <1>2, <1>5, <1>7, <2>1, <2>2
<1>10. CASE prog.grow \in {"exact", "double"}
  <2>1. Elements(prog, s) = Used(prog, s)
    BY <1>10 DEF Elements
  <2>2. QED
    BY <1>5, <1>7, <2>1
<1>11. CASE prog.grow = "lines"
  <2>1. prog.marks = 0 /\ prog.full = "over"
    BY <1>1, <1>11 DEF Shape
  <2>2. s.lines = Newlines /\ Used(prog, s) <= Newlines + 1
    BY <1>3, <1>6, <2>1
  <2> DEFINE S == {Doubled[i] : i \in 0 .. Newlines} \ 0 .. Newlines - 1
  <2>3. Elements(prog, s) = Min(S)
    BY <1>11, <2>2 DEF Elements
  <2>4. \A i \in Nat : Doubled[i] \in Nat /\ i < Doubled[i]
    BY DoubledFacts
  <2>5. S \in SUBSET Nat
    BY <2>4
  <2>6. Doubled[Newlines] \in S
    BY <1>2, <2>4
  <2>7. Min(S) \in S
    <3> HIDE DEF S
    <3>1. QED
      BY <2>5, <2>6, LeastElement
  <2>8. PICK i \in 0 .. Newlines : Doubled[i] = Min(S)
    BY <2>7
  <2>9. Min(S) \in Nat /\ Min(S) \notin 0 .. Newlines - 1
    BY <2>5, <2>7
  <2> HIDE DEF S
  <2>10. Min(S) = Newlines
    <3>1. PICK m \in Nat : m = Min(S)
      BY <2>9
    <3>2. QED
      BY <1>2, <1>5, <1>7, <2>2, <2>3, <2>9, <3>1
  <2>11. QED
    BY <1>11, <2>8, <2>10
<1>12. QED
  BY <1>8, <1>9, <1>10, <1>11

\* A line's entry fits into the buffer, but for i.karakulin's last.
LEMMA BufferIsKept ==
  ASSUME Chosen, FewAndShort, NEW k \in 1 .. Len(table), PastBuffer(prog, table[k])
  PROVE  /\ prog.entry = "previous" /\ k = Newlines + 1
         /\ LineLength(k - 1) + LineLength(k) >= Buffer
<1>1. text \in Seq(Byte) /\ Shape(prog) /\ table = Table(prog, text) /\ Len(table) \in Nat
  BY ChosenFacts
<1>2. /\ Newlines \in Nat /\ Room \in Nat /\ Newlines + 2 <= Room /\ Buffer \in Nat
      /\ \A j \in 1 .. Newlines + 1 : LineLength(j) < Buffer - 1 /\ LineLength(j) < Cut
      /\ prog.full # "skip" => ReadTo(Newlines + 1)
  BY <1>1, FewAndShortFacts
<1>3. prog.buf > 0 /\ table[k].len >= prog.buf
  BY DEF PastBuffer
<1>4. /\ prog.full # "skip"
      /\ \/ prog.entry = "previous" /\ prog.buf = Buffer + 1
         \/ prog.entry = "line" /\ prog.step = 0 /\ prog.buf \in {Buffer, Cut + 1}
  BY <1>1, <1>3 DEF Shape
<1>5. Len(table) \in Newlines .. Newlines + 1
  BY <1>1, <1>2, <1>4, TableSize
<1>6. k \in 1 .. Newlines + 1 /\ k <= Len(Table(prog, text)) /\ k \in Nat
  BY <1>1, <1>2, <1>5
<1>7. table[k] = EntryAt(k) /\ (prog.entry = "previous" => Newlines > 0)
  <2>1. ReadTo(k)
    BY <1>1, <1>2, <1>4, <1>6, ReadBefore
  <2>2. QED
    BY <1>1, <1>6, <2>1, TableEntries
<1>8. /\ LineLength(k) \in Nat /\ LineLength(k) < Buffer - 1 /\ LineLength(k) < Cut
      /\ k > 1 => LineLength(k - 1) \in Nat /\ LineLength(k - 1) < Buffer - 1
  <2>1. LineLength(k) \in Nat /\ (k > 1 => k - 1 \in 1 .. Newlines + 1 /\ LineLength(k - 1) \in Nat)
    BY <1>1, <1>6, LinePlace
  <2>2. QED
    BY <1>2, <1>6, <2>1
<1>9. CASE prog.entry = "line" /\ prog.step = 0 /\ prog.buf \in {Buffer, Cut + 1}
  <2>1. EntryAt(k).len \in Int /\ EntryAt(k).len <= LineLength(k) + prog.nl
    BY <1>1, <1>6, <1>9, PlainEntry
  <2>2. prog.nl \in {0, 1}
    BY <1>1 DEF Shape
  <2>3. PICK l \in Int : l = EntryAt(k).len
    BY <2>1
  <2>4. l <= LineLength(k) + 1 /\ l >= prog.buf
    BY <1>3, <1>7, <1>8, <2>1, <2>2, <2>3
  <2>5. Cut \in Nat
    BY LineAssumption
  <2>6. QED
    BY <1>2, <1>8, <1>9, <2>4, <2>5
<1>10. CASE prog.entry = "previous" /\ prog.buf = Buffer + 1
  <2>1. EntryAt(k).len = IF k = 1 THEN 1
                         ELSE IF k <= Newlines THEN LineLength(k - 1) + 1
                         ELSE LineLength(k - 1) + 1 + LineLength(k)
    BY <1>1, <1>6, <1>7, <1>10, PreviousEntry
  <2>2. EntryAt(k).len >= Buffer + 1
    BY <1>3, <1>7, <1>10
  <2>3. k # 1
    BY <1>2, <1>8, <2>1, <2>2
  <2>4. k > 1
    BY <1>6, <2>3
  <2>5. ~(k <= Newlines)
    BY <1>2, <1>8, <2>1, <2>2, <2>3, <2>4
  <2>6. k = Newlines + 1
    BY <1>2, <1>6, <2>5
  <2>7. LineLength(k - 1) + 1 + LineLength(k) >= Buffer + 1
    BY <2>1, <2>2, <2>3, <2>5
  <2>8. LineLength(k - 1) + LineLength(k) >= Buffer
    BY <1>2, <1>8, <2>4, <2>7
  <2>9. QED
    BY <1>10, <2>6, <2>8
<1>11. QED
  BY <1>4, <1>9, <1>10

\* So memory is kept to.
LEMMA MemoryIsKept ==
  ASSUME QueryInv
  PROVE  KeepsToMemory
<1>1. /\ Chosen /\ OutOK /\ text \in Seq(Byte) /\ Shape(prog) /\ table = Table(prog, text)
      /\ table \in Seq(Entry) /\ Len(table) \in Nat
  BY ChosenFacts DEF QueryInv
<1>2. ASSUME FewAndShort, Overrun(prog, text)
      PROVE  \/ prog.grow = "lines" /\ \E i \in 0 .. Newlines : Doubled[i] = Newlines
             \/ prog.closed = "over"
             \/ prog.map = "past" /\ Len(text) % Page = 0
  <2>1. CASE PastArray(prog, text)
    BY <1>1, <1>2, <2>1, ArrayIsKept
  <2>2. CASE PastMapping(prog, text)
    BY <2>2 DEF PastMapping
  <2>3. CASE PastEntry(prog, text)
    BY <2>3 DEF PastEntry
  <2>4. QED
    BY <1>2, <2>1, <2>2, <2>3 DEF Overrun
<1>3. ASSUME FewAndShort, NEW k \in DOMAIN table, PastBuffer(prog, table[k])
      PROVE  /\ prog.entry = "previous" /\ k = Newlines + 1
             /\ LineLength(k - 1) + LineLength(k) >= Buffer
  <2>1. k \in 1 .. Len(table)
    BY <1>1
  <2>2. QED
    BY <1>1, <1>3, <2>1, BufferIsKept
<1>4. ASSUME out.kind = "wild"
      PROVE  \/ out.number < 1 /\ prog.low = "wild"
             \/ out.number > Newlines /\ prog.high = "wild"
             \/ out.number > Room /\ prog.high = "blank"
             \/ out = Note("wild") /\ pc = "done" /\ prog.dump = "before" /\ table # <<>>
  <2>1. WildOut
    BY <1>1, <1>4 DEF OutOK
  <2>2. ASSUME out.number \in Int, out.number - prog.lag > Len(table), prog.high = "wild"
        PROVE  out.number > Newlines
    <3>1. prog.full = "over" /\ prog.lag \in {0, 1}
      BY <1>1, <2>2 DEF Shape
    <3>2. Newlines <= Len(table) /\ Newlines \in Nat
      BY <1>1, <3>1, TableSize, LinesOfText
    <3>3. QED
      BY <1>1, <2>2, <3>1, <3>2
  <2>3. QED
    BY <2>1, <2>2 DEF WildOut
<1>5. ASSUME NEW i \in DOMAIN out.bytes, out.bytes[i].open
      PROVE  \/ prog.closed = "open"
             \/ prog.closed = "unset" /\ out.bytes[i].from >= Len(text)
             \/ out.kind = "dump" /\ prog.dump = "before" /\ i = 1
  <2>1. CASE out.kind = "line"
    <3>1. out.bytes = <<Answered(out.number)>>
      BY <1>1, <2>1 DEF OutOK, LineOut
    <3>2. i = 1 /\ out.bytes[i] = Answered(out.number)
      BY <3>1
    <3>3. \E e : out.bytes[i] = Shown(prog, text, e)
      BY <1>5, <3>2 DEF Answered, Piece
    <3>4. QED
      BY <1>5, <3>3, OpenPiece
  <2>2. CASE out.kind = "dump"
    <3>1. out.bytes = Dump
      BY <1>1, <2>2 DEF OutOK
    <3>2. Shape(prog)
      BY <1>1
    <3>3. prog.dump \in {"nothing", "file", "rest", "entries", "before"}
      BY <3>2 DEF Shape
    <3>4. CASE prog.dump \in {"nothing", "file", "rest"}
      <4> DEFINE whole == Piece(0, Len(text), FALSE)
                 rest == Piece(at, Len(text), FALSE)
      <4>1. ~whole.open /\ ~rest.open
        BY DEF Piece
      <4>2. out.bytes = <<>> \/ out.bytes = <<whole>> \/ out.bytes = <<rest>>
        BY <3>1, <3>4 DEF Dump
      <4> HIDE DEF whole, rest
      <4>3. ~out.bytes[i].open
        BY <1>5, <4>1, <4>2
      <4>4. QED
        BY <1>5, <4>3
    <3>5. CASE prog.dump = "entries"
      <4>1. out.bytes = [k \in 1 .. Len(table) |-> Shown(prog, text, table[k])]
        BY <3>1, <3>5 DEF Dump, Entries
      <4>2. out.bytes[i] = Shown(prog, text, table[i])
        BY <4>1
      <4>3. QED
        BY <1>5, <4>2, OpenPiece
    <3>6. CASE prog.dump = "before"
      <4>1. CASE table = <<>>
        BY <3>1, <3>6, <4>1 DEF Dump
      <4>2. CASE table # <<>>
        <5>1. out.bytes = <<Stray>> \o SubSeq(Entries, 1, Len(table) - 1)
          <6>1. out.bytes = <<Stray>> \o Front(Entries)
            BY <3>1, <3>6, <4>2 DEF Dump
          <6>2. Len(Entries) = Len(table)
            BY <1>1 DEF Entries
          <6>3. QED
            BY <6>1, <6>2 DEF Front
        <5>2. i = 1 \/ out.bytes[i] = Shown(prog, text, table[i - 1])
          <6>1. /\ Entries = [k \in 1 .. Len(table) |-> Shown(prog, text, table[k])]
                /\ Len(table) \in Nat /\ Len(table) - 1 \in Nat
            BY <1>1, <4>2 DEF Entries
          <6>2. SubSeq(Entries, 1, Len(table) - 1)
                  = [k \in 1 .. Len(table) - 1 |-> Shown(prog, text, table[k])]
            BY <6>1
          <6>3. QED
            BY <5>1, <6>1, <6>2
        <5>3. CASE i = 1
          BY <2>2, <3>6, <5>3
        <5>4. CASE i # 1
          BY <1>5, <5>2, <5>4, OpenPiece
        <5>5. QED
          BY <5>3, <5>4
      <4>3. QED
        BY <4>1, <4>2
    <3>7. QED
      BY <3>3, <3>4, <3>5, <3>6
  <2>3. CASE out.kind \notin {"line", "dump"}
    <3>1. out.bytes = <<>>
      BY <1>1, <2>3 DEF OutOK
    <3>2. QED
      BY <3>1
  <2>4. QED
    BY <2>1, <2>2, <2>3
<1>6. QED
  BY <1>2, <1>3, <1>4, <1>5 DEF KeepsToMemory

(*****************************************************************************)
(* The theorems.                                                             *)
(*****************************************************************************)
\* Whatever is typed and whenever the timer runs out: who asks for line k of a
\* text sees line k, but for the programs whose habits the property names.
THEOREM LinesShown == Spec => []ShowsTheLine
  BY QueryInvariant, LinesAreShown, PTL

\* A time-out shows every letter of the file, in the programs that do not only say so.
THEOREM FileShown == Spec => []TimeoutShowsFile
  BY QueryInvariant, FileIsShown, PTL

\* For few and short lines no program leaves its memory, whatever Room, Buffer, Cut,
\* Chunk and Page are, but for those that the property names.
THEOREM MemoryKept == Spec => []KeepsToMemory
  BY QueryInvariant, MemoryIsKept, PTL
=============================================================================
