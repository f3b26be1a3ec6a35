----------------------------- MODULE LineQuery ------------------------------
(*******************************************************************************)
(* The dialogue of laboratories 5, 6 and 7: the program has its table of the   *)
(* lines of a text and shows the lines whose numbers the user types; from      *)
(* laboratory 6 on, five seconds of silence end it. The user, the terminal,    *)
(* stdio's buffer, the timer and the program take steps in any order.          *)
(*                                                                             *)
(* select() looks at the terminal only: what scanf() left in stdio's buffer    *)
(* does not wake it. A timer may run out whenever it is set; only a program    *)
(* that waits is sure to see that happen.                                      *)
(*******************************************************************************)
EXTENDS LineTable

CONSTANTS
  Programs,   \* the programs to look at
  Files,      \* for every program, the texts it is given: a function
  Numbers,    \* numbers that an unset variable may hold
  Typing,     \* for every text, what the user types: a set of sequences of lines
  Junk        \* a token that is no number

ASSUME QueryAssumption ==
  /\ Programs \subseteq AllPrograms /\ Numbers \subseteq Int
  /\ \A p \in Programs :
       /\ Files[p] \subseteq Seq(Byte)
       /\ \A t \in Files[p] : Typing[t] \subseteq Seq(Seq(Int \union {Junk}))

VARIABLES
  prog, text, table,  \* what runs, on which text; neither changes
  pc,      \* "select", "ask" (the alarm is set, scanf() does not wait yet),
           \* "read", "retry" (reading without a timer), "got", "done"
  num,     \* the number read last
  coming,  \* lines the user has still to type; a line is a sequence of tokens
  tty,     \* lines typed and not yet read
  stdio,   \* tokens of the line that was read
  eof,     \* the keyboard is at its end
  alarm,   \* a signal is due
  expired, \* the signal came and was noted (l.perminov)
  at,      \* the descriptor's position in the file
  out      \* the last thing shown
vars == <<prog, text, table, pc, num, coming, tty, stdio, eof, alarm, expired, at, out>>
fixed == <<prog, text, table>>
user == <<coming, eof>>
input == <<tty, stdio>>

Nothing == [kind |-> "nothing", number |-> 0, bytes |-> <<>>]
Show(k, b) == [kind |-> "line", number |-> k, bytes |-> <<b>>]
Dumped(b) == [kind |-> "dump", number |-> 0, bytes |-> b]
Note(kind) == [kind |-> kind, number |-> 0, bytes |-> <<>>]

Init ==
  /\ prog \in Programs /\ text \in Files[prog]
  /\ table = Table(prog, text)
  /\ pc = CASE prog.map # "no" /\ text = <<>>     -> "done"
            [] prog.timer \in {"select", "first"} -> "select"
            [] prog.timer = "interrupt"           -> "ask"
            [] OTHER                              -> "read"
  /\ num = prog.kept
  /\ coming \in Typing[text]
  /\ tty = <<>> /\ stdio = <<>> /\ eof = FALSE
  /\ alarm = (prog.timer \in {"kill", "interrupt", "flag"})
  /\ expired = FALSE
  /\ at = Len(text) /\ out = Nothing

(*******************************************************************************)
(* The user.                                                                   *)
(*******************************************************************************)
Type == /\ coming # <<>> /\ ~eof
        /\ coming' = Tail(coming)
        /\ tty' = Append(tty, Head(coming))
        /\ UNCHANGED <<fixed, pc, num, stdio, eof, alarm, expired, at, out>>

EndOfFile == /\ ~eof /\ eof' = TRUE
             /\ UNCHANGED <<fixed, pc, num, coming, input, alarm, expired, at, out>>

(*******************************************************************************)
(* Back to the top of the loop, where the timer is set again.                  *)
(*******************************************************************************)

Top == CASE prog.once                -> "done"
         [] prog.timer = "select"    -> "select"
         [] prog.timer = "interrupt" -> "ask"
         [] OTHER                    -> "read"

\* faulty: the timer is not set again
AgainUnset == pc' = Top /\ alarm' = FALSE

Again == /\ pc' = Top
         /\ alarm' = (prog.timer \in {"kill", "interrupt", "flag"})

Quit == pc' = "done" /\ alarm' = FALSE

(*******************************************************************************)
(* What is shown at a time-out.                                                *)
(*******************************************************************************)
Entries == [k \in 1 .. Len(table) |-> Shown(prog, text, table[k])]

(* The handler of I.Trushkin and D.Dolgov takes entry i - 1 for i = 0 .. : the *)
(* first lies before the array. What it reads with that length and ends at     *)
(* it may be shown, or may have broken memory that is not the handler's.       *)
Stray == Piece(0, 0, TRUE)

Dump ==
  CASE prog.dump = "nothing" -> <<>>
    [] prog.dump = "file"    -> <<Piece(0, Len(text), FALSE)>>
    [] prog.dump = "rest"    -> <<Piece(at, Len(text), FALSE)>>
    [] prog.dump = "entries" -> Entries
    [] prog.dump = "before"  -> IF table = <<>> THEN <<>> ELSE <<Stray>> \o Front(Entries)

TimeOut == /\ Quit
           /\ \/ out' = Dumped(Dump)
              \/ prog.dump = "before" /\ table # <<>> /\ out' = Note("wild")

SelectReady == /\ pc = "select" /\ (tty # <<>> \/ eof)
               /\ pc' = "read"
               /\ UNCHANGED <<fixed, num, user, input, alarm, expired, at, out>>

SelectTimeout == /\ pc = "select" /\ tty = <<>> /\ ~eof
                 /\ TimeOut
                 /\ UNCHANGED <<fixed, num, user, input, expired, at>>

(*******************************************************************************)
(* SIGALRM. It ends the program from its handler, or interrupts a scanf()      *)
(* that waits and is lost on one that does not wait yet, or sets a variable    *)
(* (and the scanf() is restarted).                                             *)
(*******************************************************************************)
Waits == pc = "read" /\ tty = <<>> /\ stdio = <<>> /\ ~eof

Ring ==
  /\ alarm /\ pc # "done"
  /\ CASE prog.timer = "kill"      -> TimeOut /\ UNCHANGED expired
       [] prog.timer = "interrupt" -> /\ UNCHANGED expired
                                      /\ \/ Waits /\ TimeOut
                                         \/ ~Waits /\ alarm' = FALSE /\ UNCHANGED <<pc, out>>
       [] prog.timer = "flag"      -> expired' = TRUE /\ alarm' = FALSE /\ UNCHANGED <<pc, out>>
  /\ UNCHANGED <<fixed, num, user, input, at>>

(*******************************************************************************)
(* Reading. scanf() skips what is blank, refills its buffer with one line      *)
(* of the terminal and leaves a token that does not match where it is.         *)
(*******************************************************************************)
Enter == /\ pc = "ask" /\ pc' = "read"
         /\ UNCHANGED <<fixed, num, user, input, alarm, expired, at, out>>

Reading == pc \in {"read", "retry"}
Token == Head(stdio)

(* The alarm is looked at before the number is (l.perminov). *)
Got(n) == num' = n /\ pc' = "got" /\ UNCHANGED <<alarm, out>>
GotAnything == \E n \in Numbers : Got(n)
GotKept == IF num = NoNumber THEN GotAnything ELSE Got(num)
AgainOrDump == /\ UNCHANGED num
               /\ IF expired THEN TimeOut ELSE Again /\ UNCHANGED out

\* faulty: what is no number stays in the buffer
NotANumberLeft == UNCHANGED stdio /\ AgainOrDump

NotANumber ==
  CASE prog.junk = "clear" -> stdio' = <<>> /\ AgainOrDump
    [] prog.junk = "value" -> stdio' = Tail(stdio) /\ Got(Junk)
    [] prog.junk = "retry" -> /\ stdio' = Tail(stdio) /\ pc' = "retry"
                              /\ alarm' = FALSE /\ UNCHANGED <<num, out>>
    [] prog.junk = "stay"  -> UNCHANGED stdio /\ AgainOrDump
    [] prog.junk = "keep"  -> UNCHANGED stdio /\ GotKept
    [] prog.junk = "unset" -> UNCHANGED stdio /\ GotAnything
    [] prog.junk = "quit"  -> UNCHANGED <<stdio, num, out>> /\ Quit

ReadToken ==
  /\ Reading /\ prog.reader = "token" /\ stdio # <<>>
  /\ IF Token = Junk THEN NotANumber
     ELSE Got(Token) /\ stdio' = Tail(stdio)
  /\ UNCHANGED <<fixed, user, tty, expired, at>>

Refill ==
  /\ Reading /\ prog.reader = "token" /\ stdio = <<>> /\ tty # <<>>
  /\ stdio' = Head(tty) /\ tty' = Tail(tty)
  /\ pc' = IF prog.timer = "interrupt" /\ pc = "read" /\ Head(tty) = <<>> THEN "ask" ELSE pc
  /\ UNCHANGED <<fixed, num, user, alarm, expired, at, out>>

(* strtol() makes 0 of what is no number; m.tsyrenov refuses it, but takes     *)
(* an empty line for one.                                                      *)
LineValue(l) ==
  CASE prog.reader = "prefix" -> IF l = <<>> \/ Head(l) = Junk THEN 0 ELSE Head(l)
    [] prog.reader = "whole"  -> IF l = <<>> THEN -1
                                 ELSE IF Len(l) = 1 /\ Head(l) \in Nat THEN Head(l) ELSE Junk

ReadLine ==
  /\ Reading /\ prog.reader # "token" /\ tty # <<>>
  /\ Got(LineValue(Head(tty))) /\ tty' = Tail(tty)
  /\ UNCHANGED <<fixed, user, stdio, expired, at>>

(* In k.makanin's inner loop the token that was no number is there again.      *)
AtEnd ==
  /\ pc = "read" /\ stdio = <<>> /\ tty = <<>> /\ eof
  /\ CASE prog.eof = "again"   -> AgainOrDump
       [] prog.eof = "keep"    -> GotKept
       [] prog.eof = "unset"   -> GotAnything
       [] prog.eof = "timeout" -> TimeOut /\ UNCHANGED num
  /\ UNCHANGED <<fixed, user, input, expired, at>>

(*******************************************************************************)
(* Answering. An element outside the table is anything, and reading there      *)
(* may end the program.                                                        *)
(*******************************************************************************)
Refuse == Again /\ out' = Note("refused") /\ UNCHANGED at
Wild == (Again \/ Quit) /\ out' = [Note("wild") EXCEPT !.number = num] /\ UNCHANGED at

\* faulty: numbers below 1 are not looked at
LowUnchecked == Wild

Low ==
  CASE prog.low = "refuse" -> Refuse
    [] prog.low = "retry"  -> pc' = "retry" /\ alarm' = FALSE /\ UNCHANGED <<out, at>>
    [] prog.low = "wild"   -> Wild

High(n) ==
  IF prog.high = "wild" \/ (prog.high = "blank" /\ n > Room) THEN Wild ELSE Refuse

Answer(n) ==
  LET k == n - prog.lag
      s == Shown(prog, text, table[k])
  IN \/ n = prog.quit /\ Quit /\ UNCHANGED <<out, at>>
     \/ n # prog.quit /\ n < 1 /\ Low
     \/ n # prog.quit /\ n >= 1 /\ k > Len(table) /\ High(n)
     \/ /\ n # prog.quit /\ n >= 1 /\ k <= Len(table)
        /\ Again
        /\ IF k = 0 \/ (prog.last = 1 /\ k = Len(table))
           THEN out' = Show(n, Piece(0, 0, FALSE)) /\ UNCHANGED at
           ELSE out' = Show(n, s) /\ at' = s.to

Number ==
  /\ pc = "got"
  /\ IF expired THEN TimeOut /\ UNCHANGED <<at, expired>>
     ELSE /\ expired' = FALSE
          /\ IF num = Junk THEN Refuse ELSE Answer(num)
  /\ UNCHANGED <<fixed, num, user, input>>

(* The signal may come after the variable was looked at (l.perminov).          *)
NumberLate ==
  /\ pc = "got" /\ prog.timer = "flag" /\ alarm /\ ~expired
  /\ Answer(num) /\ expired' = TRUE
  /\ UNCHANGED <<fixed, num, user, input>>

Program == SelectReady \/ Enter \/ ReadToken \/ Refill \/ ReadLine \/ AtEnd \/ Number \/ NumberLate
Timer == SelectTimeout \/ (Waits /\ Ring)

Next == Type \/ EndOfFile \/ Program \/ SelectTimeout \/ Ring

Spec == Init /\ [][Next]_vars /\ WF_vars(Program) /\ WF_vars(Timer)

(*******************************************************************************)
(* What the dialogue should be. Line k of a text by its definition: what       *)
(* lies between two newlines, or after the last if it is not empty.            *)
(*******************************************************************************)
Starts == {0} \union {i \in 1 .. Len(text) : text[i] = Newline}
LineStart(k) == CHOOSE i \in Starts : Cardinality({j \in Starts : j < i}) = k - 1
LineEnd(k) == Min({Len(text)} \union {i - 1 : i \in Starts \ 0 .. LineStart(k)})
LineLength(k) == LineEnd(k) - LineStart(k)
Newlines == Cardinality(Starts) - 1
Spans(b, k) == b.from = LineStart(k) /\ b.to \in {LineEnd(k), LineEnd(k) + 1}

(* Leading blanks of line k. *)
Indent(k) ==
  Min({LineLength(k)} \union
      {i \in 0 .. LineLength(k) - 1 : text[LineStart(k) + i + 1] # Blank})

(* A program that reads pieces sees lines that fit into one of them.           *)
FitsPieces(k) == /\ prog.cut > 0 => \A j \in 1 .. k : LineLength(j) < prog.cut
                 /\ prog.chunk > 0 => LineEnd(k) < prog.chunk

(* Asked for line k, a program shows line k, unless a long line came before    *)
(* it, or k is the number behind the last element of the array, at which       *)
(* N.Shestakov stops to read, and which is accepted all the same; or it is     *)
(* one of these, which show something else: one that counts from               *)
(* 0 the number it already lowered (Daniil/t7) shows the line before; one      *)
(* that takes each line for as long as the last (i.karakulin) cuts or          *)
(* overshoots it; one that starts each line at the newline before it           *)
(* (l.perminov/task7) loses its last byte; one that adds two for a newline     *)
(* (n.bedareva/lab6) is k - 1 bytes late; one that leaves out leading blanks   *)
(* shows what follows them; and I.Trushkin/5 never shows the last line.        *)
(* Behind it nothing else is shown, except memory nobody wrote, by the         *)
(* programs that do not end what they read (mChelbaev/5 and 6, for a line      *)
(* that is not empty) and by n.bedareva/lab6, when it is late by so much       *)
(* that nothing is left to read.                                               *)
ShowsTheLine ==
  out.kind = "line" /\ out.number <= Newlines + 1 /\ FitsPieces(out.number)
  /\ (prog.full = "stop" => out.number <= Room) =>
    LET k == out.number
        b == out.bytes[1]
    IN /\ b.open => \/ prog.closed = "open" /\ LineLength(k) > 0
                    \/ prog.closed = "unset" /\ b.from >= Len(text)
       /\ CASE prog.lag = 1 -> IF k = 1 THEN b.to = 0 ELSE Spans(b, k - 1)
         [] prog.last = 1 -> Spans(b, k) \/ (k = Len(table) /\ b.to = 0)
         [] prog.entry = "previous" ->
              /\ b.from = LineStart(k)
              /\ b.to - b.from = CASE k = 1      -> 1
                                   [] k > Newlines -> LineLength(k)
                                   [] OTHER ->
                                        Min({LineLength(k - 1) + 1, Len(text) - b.from})
         [] prog.entry = "break" /\ k > 1 ->
              b.from = LineStart(k) - 1 /\ b.to \in {LineEnd(k) - 1, LineEnd(k)}
         [] prog.step = 2 /\ k > 1 ->
              b.from = LineStart(k) + k - 1
         [] prog.blanks ->
              b.from = LineStart(k) + Indent(k) /\ b.to = LineEnd(k)
         [] OTHER -> Spans(b, k)

(* The letters a piece of output holds, as bytes of the file.                  *)
Letters(b) == {i \in b.from + 1 .. b.to : text[i] # Newline}
AllLetters == {i \in 1 .. Len(text) : text[i] # Newline}

(* A time-out shows every line of the file. Not so: the programs that only     *)
(* say so (N.Shestakov, S.ZaVialoV), those whose handler is one line behind    *)
(* (I.Trushkin, D.Dolgov: the last line is missing, if what they read before   *)
(* their array has not ended them), and k.makanin/task6, which goes on where   *)
(* the last line it showed ended: behind the table there is nothing left. A    *)
(* table that overflowed or was built from pieces shows pieces.                *)
TimeoutShowsFile ==
  out.kind = "dump" /\ ~PastArray(prog, text) /\ FitsPieces(Newlines + 1)
      /\ (prog.full = "skip" => Newlines < Room) =>
    LET shown == UNION {Letters(out.bytes[i]) : i \in DOMAIN out.bytes}
    IN CASE prog.dump = "nothing" -> shown = {}
         [] prog.dump = "rest" -> shown = {i \in AllLetters : i > at}
         [] prog.dump = "before" /\ AllLetters # {} ->
              shown = {i \in AllLetters : i <= LineStart(Len(table))}
         [] OTHER -> shown = AllLetters

(* No program reads or writes outside its memory for a text of few and short   *)
(* lines and a number it could have; the exceptions are k.makanin's array,     *)
(* which is one short when the newlines are a power of two, n.bedareva's       *)
(* copies, which have no room for their end, S.ZaVialoV's search for the end   *)
(* of a file that fills its pages, i.karakulin's last line when it has no      *)
(* newline, which is read with the length of the line before added to its      *)
(* own, numbers that nobody checks, and the time-out handler of I.Trushkin/6   *)
(* and D.Dolgov/t6, which starts with the element before the first: it shows   *)
(* one piece of foreign memory, or anything happens to it. Memory that         *)
(* nobody wrote is shown behind lines only by mChelbaev/5 and 6, and in        *)
(* place of one that is not reached only by n.bedareva/lab6.                   *)
FewAndShort == /\ Newlines + 2 <= Room
               /\ \A k \in 1 .. Newlines + 1 : LineLength(k) < Min({Buffer - 1, Cut})
KeepsToMemory ==
  /\ FewAndShort /\ Overrun(prog, text) =>
       \/ prog.grow = "lines" /\ \E i \in 0 .. Newlines : Doubled[i] = Newlines
       \/ prog.closed = "over"
       \/ prog.map = "past" /\ Len(text) % Page = 0
  /\ FewAndShort => \A k \in DOMAIN table : PastBuffer(prog, table[k]) =>
       /\ prog.entry = "previous" /\ k = Newlines + 1
       /\ LineLength(k - 1) + LineLength(k) >= Buffer
  /\ out.kind = "wild" => \/ out.number < 1 /\ prog.low = "wild"
                          \/ out.number > Newlines /\ prog.high = "wild"
                          \/ out.number > Room /\ prog.high = "blank"
                          \/ out = Note("wild") /\ pc = "done" /\ prog.dump = "before" /\ table # <<>>
  /\ \A i \in DOMAIN out.bytes : out.bytes[i].open =>
       \/ prog.closed = "open"
       \/ prog.closed = "unset" /\ out.bytes[i].from >= Len(text)
       \/ out.kind = "dump" /\ prog.dump = "before" /\ i = 1

(*******************************************************************************)
(* A program that cannot get past a token, or past the end of the keyboard.    *)
(*******************************************************************************)
StuckOnToken == /\ stdio # <<>> /\ Token = Junk
                /\ prog.junk \in {"stay", "keep", "unset"}
StuckAtEnd == eof /\ (prog.eof # "timeout" \/ pc = "retry")

(* Five seconds of silence end a program that has a timer. They do not when    *)
(* it turns round on a token that is no number or at the end of the keyboard   *)
(* (the timer starts anew each time), when it only timed the first number      *)
(* (mChelbaev/task6), when it asks again without a timer (k.makanin), when     *)
(* the handler's variable is looked at only after the next line (l.perminov),  *)
(* when an empty line woke select(), which scanf() skips to wait for more,     *)
(* and when SIGALRM came to k.makanin before scanf() was waiting: its empty    *)
(* handler returns, and nothing sets the alarm again.                          *)
SilenceEnds ==
  <>[](\/ prog.timer = "none" \/ pc = "done"
       \/ StuckOnToken /\ (prog.timer = "select" => tty # <<>>)
       \/ prog.timer = "select" /\ Waits
       \/ StuckAtEnd
       \/ prog.timer = "first" /\ pc # "select"
       \/ prog.timer = "interrupt" /\ pc = "retry"
       \/ prog.timer = "interrupt" /\ Waits /\ ~alarm
       \/ prog.timer = "flag" /\ expired)

(* Whatever is typed is read, unless the program ends or is stuck before. A    *)
(* number that came on one line with another waits, in a program that calls    *)
(* select(), for the next line or the time-out.                                *)
TypedIsRead ==
  <>[](\/ pc = "done" \/ StuckOnToken
       \/ StuckAtEnd
       \/ tty = <<>> /\ stdio = <<>>)
=============================================================================
