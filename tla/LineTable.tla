----------------------------- MODULE LineTable ------------------------------
(*****************************************************************************)
(* The table of the lines of a text, as the loops over its bytes leave it.   *)
(* Nothing interrupts these loops, so a table is a value: what they leave of *)
(* the text. Lines are counted from 1 and bytes from 0, as the programs do.  *)
(*****************************************************************************)
EXTENDS LinePrograms, Sequences, SequencesExt, FiniteSets, FiniteSetsExt

Letter == "x"
Blank == " "
Newline == "\n"
Byte == {Letter, Blank, Newline}

(*****************************************************************************)
(* The state of the loop: bytes read, newlines among them, the offset the    *)
(* next entry will get, the length counted for it, its leading blanks, and   *)
(* the entries.                                                              *)
(*****************************************************************************)
Start == [pos |-> 0, lines |-> 0, off |-> 0, len |-> 0, blanks |-> 0, table |-> <<>>]

Counted(p, s, ended) ==
  IF p.entry # "previous" THEN s.len + (IF ended THEN p.nl ELSE 0)
  ELSE IF s.table = <<>> THEN 1
  ELSE (IF ended THEN s.off ELSE s.pos) - Last(s.table).off

Entered(p, s, ended) ==
  IF p.full = "skip" /\ Len(s.table) = Room THEN s.table
  ELSE Append(s.table, [off |-> s.off + s.blanks, len |-> Counted(p, s, ended)])

\* faulty: the newline itself is not counted
NextOffsetShort(p, s, ended) == s.off + s.blanks + s.len

NextOffset(p, s, ended) ==
  CASE p.entry = "break"        -> s.pos - 1
    [] p.entry = "previous"     -> s.pos
    [] p.chunk > 0 /\ ~ended    -> s.off
    [] p.step > 0               -> s.off + s.len + p.step
    [] OTHER                    -> s.off + s.blanks + s.len + (IF ended THEN 1 ELSE 0)

Closed(p, s, ended) ==
  [s EXCEPT !.table = Entered(p, s, ended), !.off = NextOffset(p, s, ended),
            !.lines = @ + (IF ended THEN 1 ELSE 0), !.len = 0, !.blanks = 0]

(* A piece ends without a newline where the program's buffer is full. *)
PieceIsFull(p, s) == \/ p.cut > 0 /\ s.len = p.cut
                     \/ p.chunk > 0 /\ s.len > 0 /\ s.pos % p.chunk = 0

Scan(p, s, b) ==
  LET r == [s EXCEPT !.pos = @ + 1]
      c == IF p.blanks /\ b = Blank /\ s.len = 0
           THEN [r EXCEPT !.blanks = @ + 1] ELSE [r EXCEPT !.len = @ + 1]
  IN IF p.full = "stop" /\ s.lines = Room THEN s
     ELSE IF b = Newline THEN Closed(p, r, TRUE)
     ELSE IF PieceIsFull(p, c) THEN Closed(p, c, FALSE)
     ELSE c

\* faulty: the last line needs a newline
FinishNot(p, s) == s

Finish(p, s) ==
  IF \/ p.tail = "always"
     \/ p.tail = "some" /\ s.len > 0 /\ (p.entry = "previous" => s.lines > 0)
  THEN Closed(p, s, FALSE) ELSE s

\* The state after each number of bytes.
Scans(p, text) ==
  LET after[i \in 0 .. Len(text)] ==
        IF i = 0 THEN Start ELSE Scan(p, after[i - 1], text[i])
  IN after

Scanned(p, text) == Finish(p, Scans(p, text)[Len(text)])
Table(p, text) == Scanned(p, text).table

(*****************************************************************************)
(* Memory. An array of fixed size has Room elements; Makanin's has as many   *)
(* as the last doubling for a line made; the others grow with every entry.   *)
(*****************************************************************************)
Doubled[i \in Nat] == IF i = 0 THEN 1 ELSE 2 * Doubled[i - 1]

Used(p, s) == IF p.marks = 0 THEN Len(s.table) ELSE s.lines + p.marks

Elements(p, s) ==
  CASE p.grow = "fixed" -> Room
    [] p.grow = "lines" -> Min({Doubled[i] : i \in 0 .. s.lines} \ 0 .. s.lines - 1)
    [] OTHER            -> Used(p, s)

PastArray(p, text) == LET s == Scanned(p, text) IN Used(p, s) > Elements(p, s)
PastMapping(p, text) == p.map = "past" /\ Len(text) % Page = 0
PastEntry(p, text) == p.closed = "over" /\ Table(p, text) # <<>>
PastBuffer(p, e) == p.buf > 0 /\ e.len >= p.buf

(* What building the table writes or reads outside the memory it has. *)
Overrun(p, text) ==
  PastArray(p, text) \/ PastMapping(p, text) \/ PastEntry(p, text)

(*****************************************************************************)
(* The bytes from .. to - 1 that an entry makes the program show. A read     *)
(* stops at the end of the file; fgets() also stops behind a newline. The    *)
(* piece is open when printf() goes on from there through memory that nobody *)
(* wrote: read() puts no '\0' behind what it read (mChelbaev), and fgets(),  *)
(* when nothing is left, puts none in front of it (n.bedareva/lab6).         *)
(*****************************************************************************)
Piece(from, to, open) == [from |-> from, to |-> to, open |-> open]

Open(p, text, e) == /\ e.len > 0
                    /\ \/ p.closed = "open"
                       \/ p.closed = "unset" /\ e.off >= Len(text)

Shown(p, text, e) ==
  LET ends == {e.off + e.len, Len(text)}
              \union (IF p.step > 0 THEN {i \in e.off + 1 .. Len(text) : text[i] = Newline} ELSE {})
  IN Piece(e.off, Min(ends), Open(p, text, e))
=============================================================================
