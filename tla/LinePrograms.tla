---------------------------- MODULE LinePrograms ----------------------------
(******************************************************************************)
(* The programs of laboratories 5, 6 and 7. All of them read a text file,     *)
(* note where its lines are, and then show the lines whose numbers the user   *)
(* types. A record says in which of the ways that matter a program does it;   *)
(* programs that agree in all of them have equal records.                     *)
(******************************************************************************)
EXTENDS Integers

CONSTANTS
  NoNumber,  \* what an uninitialised number holds
  Room,      \* elements of an array of fixed size: 100, 256, 500 or 1000
  Buffer,    \* bytes of a line buffer of fixed size: 256
  Cut,       \* bytes fgets() takes at once: 49 or 199
  Chunk,     \* bytes m.tsyrenov's read() takes at once: 255
  Page       \* bytes of a page of memory

ASSUME LineAssumption ==
  /\ {Room, Buffer, Cut, Chunk, Page} \subseteq Nat \ {0}
  /\ NoNumber \notin Int

(******************************************************************************)
(* The table.                                                                 *)
(*   nl      1 if the length of a line counts its newline, else 0             *)
(*   tail    what becomes of the bytes after the last newline: an entry       *)
(*           "always", if there are "some", or "never"                        *)
(*   cut     bytes after which fgets() ends an entry without a newline, or 0  *)
(*   chunk   bytes after which a line is entered as it is, or 0               *)
(*   step    0 if the offset of the next line adds what the line took, or     *)
(*           what it adds to the line's length instead                        *)
(*   entry   "line", "previous" (each gets the length of the line before) or  *)
(*           "break" (each starts at the newline before it)                   *)
(*   blanks  whether leading blanks are left out                              *)
(*   grow    how the array grows: "fixed", "exact", "double", or "lines"      *)
(*           (doubled for lines, but not for the entry of the tail)           *)
(*   full    what a full array does: "over" (written past its end), "skip"    *)
(*           (the line is not entered) or "stop" (the file is not read on)    *)
(*   marks   0 if an entry uses one element; otherwise every newline does,    *)
(*           and so many more                                                 *)
(*   buf     bytes of the buffer a line is shown from, 0 if it is made to fit *)
(*   closed  "yes" if what is shown is terminated, "open" if the bytes after  *)
(*           it are shown too, "unset" if a buffer that nothing was read      *)
(*           into is, "over" if its end lies outside its memory               *)
(*   map     whether the text is mapped, which an empty one cannot be: "no"   *)
(*           (or nobody checks), "checked", or "past" (the text is also read  *)
(*           on until a '\0')                                                 *)
(* The questions.                                                             *)
(*   reader  what reads a number: "token" (scanf()), or a line of which the   *)
(*           "prefix" or the "whole" must be one                              *)
(*   junk    what is no number is taken away with the rest of its line        *)
(*           ("clear"), taken as a number that no line has ("value"), asked   *)
(*           for again at once ("retry"), left where it is ("stay"), left     *)
(*           there while the old number is used again ("keep") or one that    *)
(*           was never set ("unset"), ends the program ("quit") or is 0       *)
(*           ("zero")                                                         *)
(*   eof     what the end of the keyboard does: "again", "keep", "unset",     *)
(*           "timeout"                                                        *)
(*   kept    the number before the first one is read                          *)
(*   quit    the number that ends the program                                 *)
(*   low     what happens to numbers below 1, high: to those above the last,  *)
(*           "refuse", "retry", "wild" (an element outside the table) or      *)
(*           "blank" (an element of the array that no line has)               *)
(*   lag     1 if line_number - 1 is taken twice                              *)
(*   last    1 if the last line is not shown                                  *)
(*   once    whether the program asks only once                               *)
(*   timer   "none", "select" (before every number), "first" (before the      *)
(*           first), "kill" (SIGALRM ends the program), "interrupt" (SIGALRM  *)
(*           interrupts scanf()) or "flag" (SIGALRM sets a variable)          *)
(*   dump    what a time-out shows: "nothing", the "file", the "rest" of it   *)
(*           behind the descriptor's position, the "entries", or what lies    *)
(*           "before" each entry in memory                                    *)
(******************************************************************************)
Komarevtsev5 ==
  [nl |-> 0, tail |-> "some", cut |-> 0, chunk |-> 0, step |-> 0, entry |-> "line",
   blanks |-> FALSE, grow |-> "double", full |-> "over", marks |-> 0, buf |-> 0,
   closed |-> "yes", map |-> "no",
   reader |-> "token", junk |-> "stay", eof |-> "again", kept |-> NoNumber, quit |-> 0,
   low |-> "refuse", high |-> "refuse", lag |-> 0, last |-> 0, once |-> FALSE,
   timer |-> "none", dump |-> "nothing"]
Komarevtsev6 == [Komarevtsev5 EXCEPT !.timer = "select", !.dump = "entries"]
Komarevtsev7 == [Komarevtsev6 EXCEPT !.map = "checked"]

Daniil5 == [Komarevtsev5 EXCEPT !.nl = 1, !.tail = "never", !.grow = "exact", !.junk = "clear"]
Daniil6 == [Daniil5 EXCEPT !.timer = "select", !.dump = "file"]
Daniil7 == [Daniil6 EXCEPT !.lag = 1]
Zelenkov5 == Daniil5
Zelenkov6 == Daniil6
Zelenkov7 == Daniil7
Dolgov7 == Daniil7

Trushkin5 ==
  [Komarevtsev5 EXCEPT !.nl = 1, !.cut = Cut, !.grow = "fixed", !.buf = Cut + 1,
     !.reader = "prefix", !.junk = "zero", !.last = 1]
Trushkin7 ==
  [Trushkin5 EXCEPT !.reader = "token", !.junk = "keep", !.eof = "keep", !.kept = 0, !.last = 0]
Trushkin6 == [Trushkin7 EXCEPT !.timer = "kill", !.dump = "before"]
Dolgov6 == Trushkin6

Shestakov5 ==
  [Komarevtsev5 EXCEPT !.tail = "always", !.blanks = TRUE, !.grow = "fixed", !.full = "stop",
     !.buf = Buffer, !.junk = "value", !.eof = "keep", !.kept = 0]
Shestakov6 == [Shestakov5 EXCEPT !.quit = 48, !.timer = "kill"]
Shestakov7 == [Shestakov5 EXCEPT !.blanks = FALSE, !.buf = 0, !.timer = "kill", !.map = "checked"]

ZaVialoV5 ==
  [Komarevtsev5 EXCEPT !.tail = "never", !.grow = "fixed", !.marks = 1, !.junk = "quit",
     !.eof = "unset", !.once = TRUE]
ZaVialoV6 == [ZaVialoV5 EXCEPT !.timer = "kill"]
ZaVialoV7 == [ZaVialoV6 EXCEPT !.grow = "exact", !.map = "past"]

Karakulin5 ==
  [Komarevtsev5 EXCEPT !.nl = 1, !.entry = "previous", !.grow = "fixed", !.marks = 1,
     !.buf = Buffer + 1, !.junk = "clear", !.high = "blank"]

Makanin5 ==
  [Komarevtsev5 EXCEPT !.nl = 1, !.tail = "always", !.grow = "lines", !.junk = "retry",
     !.eof = "keep", !.low = "retry"]
Makanin6 == [Makanin5 EXCEPT !.eof = "timeout", !.timer = "interrupt", !.dump = "rest"]
Makanin7 == [Makanin6 EXCEPT !.dump = "file", !.map = "checked"]

Perminov5 ==
  [Komarevtsev5 EXCEPT !.nl = 1, !.grow = "fixed", !.buf = Buffer, !.junk = "keep",
     !.eof = "keep", !.kept = 0]
Perminov6 ==
  [Perminov5 EXCEPT !.junk = "stay", !.eof = "again", !.timer = "flag", !.dump = "entries"]
Perminov7 == [Perminov5 EXCEPT !.entry = "break", !.buf = 0]

Tsyrenov5 ==
  [Komarevtsev5 EXCEPT !.chunk = Chunk, !.grow = "fixed", !.full = "skip", !.reader = "whole",
     !.junk = "value", !.eof = "keep"]
Tsyrenov6 == [Tsyrenov5 EXCEPT !.timer = "kill", !.dump = "entries"]
Tsyrenov7 == [Tsyrenov6 EXCEPT !.chunk = 0, !.low = "wild", !.high = "blank", !.map = "checked"]

Chelbaev5 ==
  [Komarevtsev5 EXCEPT !.tail = "always", !.closed = "open", !.junk = "keep", !.eof = "keep",
     !.kept = 0, !.low = "wild"]
Chelbaev6 == [Chelbaev5 EXCEPT !.kept = 1, !.timer = "first", !.dump = "entries"]
Chelbaev7 ==
  [Chelbaev5 EXCEPT !.closed = "yes", !.grow = "fixed", !.marks = 2, !.kept = 1,
     !.low = "refuse", !.timer = "select", !.dump = "file"]

Bedareva6 ==
  [Komarevtsev5 EXCEPT !.cut = Cut, !.step = 2, !.grow = "fixed", !.closed = "unset",
     !.junk = "unset", !.eof = "unset", !.low = "wild", !.high = "wild",
     !.timer = "select", !.dump = "file"]
Bedareva7 == [Bedareva6 EXCEPT !.nl = 1, !.step = 0, !.closed = "over", !.dump = "entries"]

AllPrograms ==
  {Komarevtsev5, Komarevtsev6, Komarevtsev7, Daniil5, Daniil6, Daniil7, Zelenkov5, Zelenkov6,
   Zelenkov7, Dolgov7, Trushkin5, Trushkin6, Trushkin7, Dolgov6, Shestakov5, Shestakov6,
   Shestakov7, ZaVialoV5, ZaVialoV6, ZaVialoV7, Karakulin5, Makanin5, Makanin6, Makanin7,
   Perminov5, Perminov6, Perminov7, Tsyrenov5, Tsyrenov6, Tsyrenov7, Chelbaev5, Chelbaev6,
   Chelbaev7, Bedareva6, Bedareva7}
=============================================================================
