----------------------------- MODULE LineEditor -----------------------------
(*****************************************************************************)
(* Laboratory 17: a line editor on a terminal without echo and line          *)
(* discipline. Keys wait in the terminal until the program reads them; each  *)
(* key changes the line the program holds and what it writes to the screen.  *)
(* The screen is the row the cursor is in; the rows above cannot be edited.  *)
(*****************************************************************************)
EXTENDS Integers, Sequences, FiniteSets, FiniteSetsExt

CONSTANTS
  Letters,   \* printable characters other than the blank
  Editors,   \* the programs to look at
  Width,     \* MAX_LEN: 40
  Room,      \* bytes of the line's array where it is longer than a line: 512
  Rows,      \* lines m.tsyrenov has: 512
  Columns,   \* columns of the row, whose end no program reaches; m.tsyrenov's goes
             \* on in it over the newlines it counts
  Ahead      \* keys that may wait to be read

ASSUME EditorAssumption ==
  /\ {Width, Room, Rows, Columns, Ahead} \subseteq Nat \ {0}
  /\ Room > Width /\ Columns > Room /\ Columns >= Rows * Width

Blank == " "
Unwritten == "?"   \* memory nobody has written
Erase == "erase"
Kill == "kill"
WordErase == "werase"
EndOfFile == "^D"
Enter == "enter"
Printable == Letters \union {Blank}
Key == Printable \union {Erase, Kill, WordErase, EndOfFile, Enter}

ASSUME LettersAssumption ==
  Letters \intersect {Blank, Unwritten, Erase, Kill, WordErase, EndOfFile, Enter} = {}

(*****************************************************************************)
(* The programs.                                                             *)
(*   full    what a full line does: the next character starts a row          *)
(*           ("break"), the last word moves to the next row ("word"), it     *)
(*           moves on the screen but not in the array ("screen"), or it      *)
(*           moves to an array that is not written ("next")                  *)
(*   word    what WERASE takes first: "blanks", or the "word"                *)
(*   empty   what ERASE does in an empty line: "nothing", or "below"         *)
(*   newline what it does: "bell", "row", "quit" or "count"                  *)
(*   leave   whether ^D ends the program at once or on an "empty" line       *)
(*   flush   whether KILL discards the keys that wait                        *)
(*****************************************************************************)
Daniil17 == [full |-> "break", word |-> "blanks", empty |-> "nothing", newline |-> "bell",
             leave |-> "empty", flush |-> FALSE]
Zelenkov17 == Daniil17
ZaVialoV17 == Daniil17
Karakulin17 == [Daniil17 EXCEPT !.leave = "always"]
Makanin17 == [Daniil17 EXCEPT !.newline = "quit"]
Trushkin17 == [Daniil17 EXCEPT !.full = "word", !.newline = "row"]
Komarevtsev17 == [Daniil17 EXCEPT !.full = "screen", !.word = "word", !.flush = TRUE]
Chelbaev17 == Komarevtsev17
Tsyrenov17 == [Daniil17 EXCEPT !.full = "next", !.empty = "below", !.newline = "count"]
AllEditors == {Daniil17, Zelenkov17, ZaVialoV17, Karakulin17, Makanin17, Trushkin17,
               Komarevtsev17, Chelbaev17, Tsyrenov17}

ASSUME EditorsAssumption == Editors \subseteq AllEditors

VARIABLES
  editor,   \* which program runs
  ed,       \* its line and the row on the screen
  ahead,    \* keys typed and not read
  key       \* the key read last
editorVars == <<editor, ed, ahead, key>>

Bytes == 0 .. Room - 1
Glyphs == 0 .. Columns - 1

(* line, pos: the array and the number of bytes in it; row, col: the screen; *)
(* rows: lines begun; wrapped: a full line was continued in the next row;    *)
(* over: a byte outside the array was written; on: the program runs.         *)
EmptyEditor == [line |-> [i \in Bytes |-> Unwritten], pos |-> 0,
                row |-> [i \in Glyphs |-> Blank], col |-> 0,
                rows |-> 0, wrapped |-> FALSE, over |-> FALSE, on |-> TRUE]

EditorInit == editor \in Editors /\ ed = EmptyEditor /\ ahead = <<>> /\ key = Enter

(*****************************************************************************)
(* The screen: a glyph at the cursor, "\b \b" n times, and the next row.     *)
(*****************************************************************************)
Put(e, c) == [e EXCEPT !.row = [@ EXCEPT ![e.col] = c], !.col = @ + 1]
Wiped(e, n) ==
  LET c == Max({0, e.col - n})
  IN [e EXCEPT !.row = [i \in Glyphs |-> IF i \in c .. e.col - 1 THEN Blank ELSE @[i]], !.col = c]
NextRow(e) == [e EXCEPT !.row = [i \in Glyphs |-> Blank], !.col = 0]
Written(e, s) == [e EXCEPT !.row = [i \in Glyphs |-> IF i < Len(s) THEN s[i + 1] ELSE Blank],
                           !.col = Len(s)]

(* Where a backward loop over bytes of a kind ends. *)
Back(e, n, kind) == Min({m \in 0 .. n : \A i \in m .. n - 1 : e.line[i] \in kind})
NotBlank == Letters \union {Unwritten}
Word(e) == [i \in 1 .. e.pos - Back(e, e.pos, NotBlank) |-> e.line[Back(e, e.pos, NotBlank) + i - 1]]

\* faulty: one glyph is wiped, however many bytes go
ShortenedByOne(e, n) == [Wiped(e, 1) EXCEPT !.pos = n]

Shortened(e, n) == [Wiped(e, e.pos - n) EXCEPT !.pos = n]

(*****************************************************************************)
(* Keys that shorten the line.                                               *)
(*****************************************************************************)
DoErase(p, e) ==
  CASE e.pos > 0                       -> Shortened(e, e.pos - 1)
    [] e.pos = 0 /\ p.empty = "below" -> [Wiped(e, 1) EXCEPT !.pos = -1]
    [] e.pos < 0                       -> [e EXCEPT !.over = TRUE, !.on = FALSE]
    [] OTHER                           -> e

DoKill(p, e) ==
  IF p.full # "next" THEN Shortened(e, 0)
  ELSE [e EXCEPT !.pos = 0, !.col = 0, !.line = EmptyEditor.line,
                 !.row = [i \in Glyphs |-> IF i < Width THEN Blank ELSE @[i]]]

WordBegin(p, e) ==
  IF p.word = "blanks" THEN Back(e, Back(e, e.pos, {Blank}), NotBlank)
  ELSE Back(e, Back(e, e.pos, NotBlank), {Blank})
DoWordErase(p, e) == IF e.pos > 0 THEN Shortened(e, WordBegin(p, e)) ELSE e

(*****************************************************************************)
(* A printable character.                                                    *)
(*****************************************************************************)
Stored(e, c) == [Put(e, c) EXCEPT !.line = [@ EXCEPT ![e.pos] = c], !.pos = @ + 1]

\* faulty: the length is tested one too late
BrokenLate(e, c) == IF e.pos <= Width THEN Stored(e, c)
                    ELSE Stored([NextRow(e) EXCEPT !.pos = 0, !.wrapped = TRUE], c)

\* faulty: the character that follows a full line is lost
BrokenDropping(e, c) == IF e.pos < Width THEN Stored(e, c)
                        ELSE [NextRow(e) EXCEPT !.pos = 0, !.wrapped = TRUE]

Broken(e, c) == IF e.pos < Width THEN Stored(e, c)
                ELSE Stored([NextRow(e) EXCEPT !.pos = 0, !.wrapped = TRUE], c)

(* I.Trushkin: a full line that does not end in a blank gives its last word  *)
(* to the next row; this is looked at after every key.                       *)
WordMoved(e, k) ==
  IF e.pos < Width \/ k = Blank THEN e
  ELSE LET w == IF Back(e, e.pos, NotBlank) > 0 THEN Word(e) ELSE <<>>
       IN [Written(e, w) EXCEPT !.pos = Len(w), !.wrapped = TRUE,
             !.line = [i \in Bytes |-> IF i < Len(w) THEN w[i + 1] ELSE @[i]]]

(* Y.komarevtsev, mChelbaev: the last word is written again in the next row; *)
(* the array keeps the line as it was, and the new character is dropped.     *)
OnScreen(e, c) ==
  IF e.pos < Width THEN Stored(e, c)
  ELSE [Written(e, Word(e)) EXCEPT !.pos = Len(Word(e)), !.wrapped = TRUE]

(* m.tsyrenov: the character behind a full line is written, then the last    *)
(* word goes to the next row, or only the character, or a blank (which       *)
(* shows). The next line's array is fresh memory.                            *)
NextLine(e, c) ==
  IF e.pos < 0 THEN [e EXCEPT !.over = TRUE, !.on = FALSE]
  ELSE IF e.pos < Width THEN Stored(e, c)
  ELSE LET f == Stored(e, c)
           w == IF Back(f, f.pos, NotBlank) > 0 THEN Word(f) ELSE <<c>>
       IN [Written(f, IF c = Blank THEN <<Blank>> ELSE w) EXCEPT
             !.pos = IF c = Blank THEN 0 ELSE Len(w),
             !.line = EmptyEditor.line, !.rows = @ + 1, !.wrapped = TRUE]

DoPrintable(p, e, c) ==
  CASE p.full = "break"  -> Broken(e, c)
    [] p.full = "screen" -> OnScreen(e, c)
    [] p.full = "next"   -> NextLine(e, c)
    [] p.full = "word"   -> IF e.pos = Room THEN [e EXCEPT !.over = TRUE, !.on = FALSE]
                            ELSE Stored(e, c)

(*****************************************************************************)
(* One key. m.tsyrenov uses the array of a line that it counted but does not *)
(* have when there were too many; Rows stands for every count from there on. *)
(*****************************************************************************)
Uses(e, k) == k \in Printable \union {Erase, Kill} \/ (k = WordErase /\ e.pos > 0)
Leaves(p, e, k) == \/ k = EndOfFile /\ (p.leave = "always" \/ e.pos = 0)
                   \/ k = Enter /\ p.newline = "quit"

DoNewline(p, e) ==
  CASE p.newline = "row"   -> [NextRow(e) EXCEPT !.pos = 0]
    [] p.newline = "count" ->
         [e EXCEPT !.pos = 0, !.rows = Min({Rows, @ + 1}), !.line = EmptyEditor.line]
    [] OTHER               -> e

Edited(p, e, k) ==
  CASE k \in Printable  -> DoPrintable(p, e, k)
    [] k = Erase        -> DoErase(p, e)
    [] k = Kill         -> DoKill(p, e)
    [] k = WordErase    -> DoWordErase(p, e)
    [] k = Enter      -> DoNewline(p, e)
    [] k = EndOfFile    -> e

(* Bytes behind the line are never read before they are written again.       *)
Forgotten(e) == [e EXCEPT !.line = [i \in Bytes |-> IF i < e.pos THEN @[i] ELSE Unwritten]]

Edit ==
  LET k == Head(ahead)
      e == Forgotten(Edited(editor, ed, k))
  IN /\ ed.on /\ ahead # <<>>
     /\ key' = k
     /\ ed' = IF Leaves(editor, ed, k) THEN [ed EXCEPT !.on = FALSE]
              ELSE IF ed.rows = Rows /\ Uses(ed, k) THEN [ed EXCEPT !.over = TRUE, !.on = FALSE]
              ELSE IF editor.full = "word" /\ e.on THEN WordMoved(e, k) ELSE e
     /\ ahead' = IF k = Kill /\ editor.flush THEN <<>> ELSE Tail(ahead)
     /\ UNCHANGED editor

(* Keys are typed at any time.                                               *)
TypeKey == /\ ed.on /\ Len(ahead) < Ahead
           /\ \E k \in Key : ahead' = Append(ahead, k)
           /\ UNCHANGED <<editor, ed, key>>

EditorNext == TypeKey \/ Edit
EditorSpec == EditorInit /\ [][EditorNext]_editorVars /\ WF_editorVars(Edit)

(*****************************************************************************)
(* What an editor should do.                                                 *)
(*****************************************************************************)
(* The row shows the line the program holds, with the cursor behind it, so   *)
(* that the user erases what he sees. Not so in the programs that move a     *)
(* word on the screen and not in the array, once they did; nor in            *)
(* m.tsyrenov's after a newline, which is counted but not shown.             *)
ScreenIsLine ==
  ed.on /\ ~(ed.wrapped /\ editor.full \in {"screen", "next"})
        /\ ~(editor.newline = "count" /\ ed.rows > 0) =>
    /\ ed.col = Max({0, ed.pos})
    /\ \A i \in Glyphs : ed.row[i] = IF i < ed.pos THEN ed.line[i] ELSE Blank

(* No key writes outside the array, except m.tsyrenov's second ERASE in an   *)
(* empty line or key behind the first, its lines behind the last it has, and *)
(* the blanks I.Trushkin never wraps.                                        *)
InsideLine ==
  /\ ed.pos <= (IF editor.full = "word" THEN Room ELSE Width)
  /\ ed.over => \/ editor.full = "next" /\ (ed.pos < 0 \/ ed.rows = Rows)
                \/ editor.full = "word" /\ ed.pos = Room /\ ed.line[Room - 1] = Blank

(* A letter that is read is shown and held: it is the last of the row and of *)
(* the line. Y.komarevtsev's and mChelbaev's programs drop the one that      *)
(* follows a full line.                                                      *)
LetterIsHeld ==
  [][key' \in Letters /\ ed'.on /\ ahead' # ahead /\ Len(ahead') < Len(ahead) =>
       \/ /\ ed'.col > 0 /\ ed'.row[ed'.col - 1] = key'
          /\ ed'.pos > 0 /\ (editor.full # "next" \/ ~ed'.wrapped => ed'.line[ed'.pos - 1] = key')
       \/ editor.full = "screen" /\ ed.pos = Width
       \/ editor.full = "word" /\ ed'.pos = 0 /\ \A i \in 0 .. Width - 2 : ed.line[i] \in Letters]_editorVars
=============================================================================
