---------------------------- MODULE PipeTransfer ----------------------------
(*****************************************************************************)
(* Laboratory 25: one process writes what the user types into a pipe, the    *)
(* other shows it in upper case. The pipe is what was written to it (sent)   *)
(* and how much of that was read (rd); it cuts the bytes where it likes, and *)
(* it is at its end when no process holds its write end any more.            *)
(*****************************************************************************)
EXTENDS CText, SequencesExt

CONSTANTS
  Transfers,  \* the programs to look at
  Typed,      \* what the user may type: a set of sequences of lines
  ExitLine,   \* the line "exit"
  Memory,     \* what a buffer may hold that nobody wrote to; a '\0' ends it
  Piece,      \* bytes of the reader's buffer: 40, 256 or 1024
  Pipe,       \* bytes the pipe holds
  Repeats     \* bytes after which N.Shestakov's endless writer is not followed

(*****************************************************************************)
(* The programs.                                                             *)
(*   frame   what is written of a line: "bare", with "zero" or "newline"     *)
(*   many    whether more than one line is asked for                         *)
(*   exit    what ends the input: the "line" exit, any that has it as a      *)
(*           "prefix", or "none"                                             *)
(*   eof     what its end does: it "ends", "repeats" the last line, or the   *)
(*           line is "unset" memory                                          *)
(*   text    "typed", or a "constant"                                        *)
(*   size    what one read() takes at most: the "buffer", all of it but one  *)
(*           byte ("less"), or one "byte"                                    *)
(*   until   reads "end" at the pipe's end, at a "zero", or after "one"      *)
(*   ends    where a piece is taken to end: where the "read" did, at a '\0'  *)
(*           that is put behind the "piece", or at one in the "buffer",      *)
(*           which is cleared after each read() but not before the first; or *)
(*           at one in the buffer that has the "char" '0' behind the piece   *)
(*   child   which process is the child                                      *)
(*   waits   whether the parent waits for it "last", "first" or "never"      *)
(*****************************************************************************)
Daniil25 == [frame |-> "bare", many |-> TRUE, exit |-> "line", eof |-> "ends", text |-> "typed",
             size |-> "less", until |-> "end", ends |-> "piece",
             child |-> "reader", waits |-> "last"]
Zelenkov25 == Daniil25
Trushkin25 == [Daniil25 EXCEPT !.frame = "zero", !.exit = "none", !.size = "buffer",
                               !.ends = "char"]
Shestakov25 == [Daniil25 EXCEPT !.frame = "newline", !.exit = "prefix", !.eof = "repeats",
                                !.size = "buffer", !.ends = "buffer"]
Komarevtsev25 == [Daniil25 EXCEPT !.frame = "newline", !.many = FALSE, !.exit = "none",
                    !.eof = "unset", !.size = "buffer", !.ends = "read"]
Chelbaev25 == Komarevtsev25
Karakulin25 == [Komarevtsev25 EXCEPT !.frame = "bare"]
Makanin25 == [Komarevtsev25 EXCEPT !.many = TRUE, !.eof = "ends", !.child = "writer",
                !.waits = "never"]
Tsyrenov25 == [Komarevtsev25 EXCEPT !.size = "byte", !.until = "zero", !.child = "writer",
                 !.waits = "first"]
ZaVialoV25 == [Komarevtsev25 EXCEPT !.frame = "zero", !.text = "constant", !.until = "one",
                 !.waits = "never"]
Bedareva25 == [Komarevtsev25 EXCEPT !.text = "constant", !.waits = "never"]
AllTransfers == {Daniil25, Zelenkov25, Trushkin25, Shestakov25, Komarevtsev25, Chelbaev25,
                 Karakulin25, Makanin25, Tsyrenov25, ZaVialoV25, Bedareva25}

ASSUME TransferAssumption ==
  /\ Transfers \subseteq AllTransfers
  /\ Typed \subseteq Seq(Seq(Byte)) /\ Memory \subseteq Seq(Byte)
  /\ {Piece, Pipe, Repeats} \subseteq Nat /\ Piece > 1

VARIABLES
  transfer,  \* which program runs
  toType,    \* lines the user has still to type
  line,      \* the writer's buffer
  writer,    \* where the writer is: "ask", "write", "close", "wait", "gone"
  reader,    \* where the reader is: "wait", "close", "read", "gone", or
             \* "astray" when it reads or writes behind its buffer
  holders,   \* processes that hold the write end of the pipe
  sent, rd, shown,
  strays     \* after how many shown bytes memory was shown that nobody wrote to
pipeVars == <<transfer, toType, line, writer, reader, holders, sent, rd, shown, strays>>

TransferInit ==
  /\ transfer \in Transfers /\ toType \in Typed
  /\ line = <<Nul>> /\ sent = <<>> /\ rd = 0 /\ shown = <<>> /\ strays = {}
  /\ writer = (IF transfer.text = "constant" THEN "write" ELSE "ask")
  /\ reader = (IF transfer.waits = "first" THEN "wait" ELSE "close")
  /\ holders = {"writer", "reader"}

(*****************************************************************************)
(* The writer. Lines fit its buffer. (scanf("%s") skips an empty line.)      *)
(*****************************************************************************)
AtEndOfInput ==
  CASE transfer.eof = "ends"    -> writer' = "close" /\ UNCHANGED line
    [] transfer.eof = "repeats" -> writer' = "write" /\ UNCHANGED line
    [] transfer.eof = "unset"   -> writer' = "write" /\ line' \in Memory

IsExit(l) == CASE transfer.exit = "line"   -> l = ExitLine
               [] transfer.exit = "prefix" -> IsPrefix(ExitLine, l)
               [] transfer.exit = "none"   -> FALSE

AskLine ==
  /\ writer = "ask"
  /\ IF toType = <<>> THEN AtEndOfInput /\ UNCHANGED toType
     ELSE LET l == Head(toType)
          IN /\ toType' = Tail(toType)
             /\ IF IsExit(l) THEN writer' = "close" /\ UNCHANGED line
                ELSE IF transfer = Karakulin25 /\ l = <<>> THEN UNCHANGED <<writer, line>>
                ELSE writer' = "write" /\ line' = l
  /\ UNCHANGED <<transfer, reader, holders, sent, rd, shown, strays>>

(* strlen() bytes are written. m.tsyrenov writes a '\0' behind them.         *)
Constant == <<120, 49>>
Text == IF transfer.text = "constant" THEN Constant ELSE line
Framed ==
  (CASE transfer.frame = "bare" -> CString(Unframed(Text))
     [] transfer.frame = "zero" -> NulFramed(CString(Text))
     [] OTHER                   -> CString(NewlineFramed(Text)))
  \o (IF transfer.until = "zero" THEN <<Nul>> ELSE <<>>)

(* write() waits until the pipe has room for all of it.                      *)
WriteLine ==
  /\ writer = "write"
  /\ Len(sent) - rd + Len(Framed) <= Pipe
  /\ Len(sent) <= Repeats
  /\ sent' = sent \o Framed
  /\ writer' = (IF transfer.many THEN "ask" ELSE "close")
  /\ UNCHANGED <<transfer, toType, line, reader, holders, rd, shown, strays>>

\* faulty: the parent does not wait
CloseNoWait ==
  /\ writer = "close"
  /\ holders' = holders \ {"writer"}
  /\ writer' = "gone"
  /\ UNCHANGED <<transfer, toType, line, reader, sent, rd, shown, strays>>

CloseAfterLast ==
  /\ writer = "close"
  /\ holders' = holders \ {"writer"}
  /\ writer' = (IF transfer.child = "reader" /\ transfer.waits = "last" THEN "wait" ELSE "gone")
  /\ UNCHANGED <<transfer, toType, line, reader, sent, rd, shown, strays>>

WaitForReader ==
  /\ writer = "wait" /\ reader = "gone" /\ writer' = "gone"
  /\ UNCHANGED <<transfer, toType, line, reader, holders, sent, rd, shown, strays>>

(*****************************************************************************)
(* The reader.                                                               *)
(*****************************************************************************)
WaitForWriter ==
  /\ reader = "wait" /\ writer = "gone" /\ reader' = "close"
  /\ UNCHANGED <<transfer, toType, line, writer, holders, sent, rd, shown, strays>>

\* faulty: the writing end stays open
CloseOwnKept == /\ reader = "close" /\ reader' = "read"
                /\ UNCHANGED <<transfer, toType, line, writer, holders, sent, rd, shown, strays>>

CloseOwn == /\ reader = "close" /\ reader' = "read"
            /\ holders' = holders \ {"reader"}
            /\ UNCHANGED <<transfer, toType, line, writer, sent, rd, shown, strays>>

Most == CASE transfer.size = "buffer" -> Piece
          [] transfer.size = "less"   -> Piece - 1
          [] transfer.size = "byte"   -> 1

(* What is shown of the bytes of one read(); labels are left out.            *)
Shows(s) == UpperText(CString(s))

(* A buffer filled to its end has no room for a '\0'.                        *)
RunsOver(n) == n = Piece /\ transfer.ends # "read"

(* What printf() finds behind a piece: a '\0' in it or put there, or memory  *)
(* nobody wrote to, and a '\0' in the buffer or none before its end.         *)
Behind(s) ==
  IF RunsOver(Len(s)) THEN {"no end"}
  ELSE IF Nul \in {s[k] : k \in 1 .. Len(s)} THEN {"end"}
  ELSE CASE transfer.ends = "char"              -> {"memory", "no end"}
         [] transfer.ends = "buffer" /\ rd = 0 -> {"end", "memory", "no end"}
         [] OTHER                               -> {"end"}

AfterPiece(n) ==
  IF transfer.until = "one" \/ (transfer.until = "zero" /\ sent[rd + n] = Nul) THEN "gone"
  ELSE "read"

\* faulty: the byte before a piece is shown again
ReadPieceAgain ==
  LET n == Min({Most, Len(sent) - rd})
      piece == SubSeq(sent, Max({1, rd}), rd + n)
  IN /\ reader = "read" /\ n > 0
     /\ rd' = rd + n /\ shown' = shown \o Shows(piece)
     /\ reader' = AfterPiece(n) /\ strays' = strays
     /\ UNCHANGED <<transfer, toType, line, writer, holders, sent>>

ReadPiece ==
  LET n == Min({Most, Len(sent) - rd})
      piece == SubSeq(sent, rd + 1, rd + n)
  IN /\ reader = "read" /\ n > 0
     /\ rd' = rd + n /\ shown' = shown \o Shows(piece)
     /\ \E behind \in Behind(piece) :
          /\ reader' = (IF behind = "no end" THEN "astray" ELSE AfterPiece(n))
          /\ strays' = strays \union (IF behind = "memory" THEN {Len(shown')} ELSE {})
     /\ UNCHANGED <<transfer, toType, line, writer, holders, sent>>

ReadEnd ==
  /\ reader = "read" /\ rd = Len(sent) /\ holders = {}
  /\ reader' = "gone"
  /\ UNCHANGED <<transfer, toType, line, writer, holders, sent, rd, shown, strays>>

WriterStep == AskLine \/ WriteLine \/ CloseAfterLast \/ WaitForReader
ReaderStep == WaitForWriter \/ CloseOwn \/ ReadPiece \/ ReadEnd
TransferNext == WriterStep \/ ReaderStep
TransferSpec == /\ TransferInit /\ [][TransferNext]_pipeVars
                /\ WF_pipeVars(WriterStep) /\ WF_pipeVars(ReaderStep)

(*****************************************************************************)
(* What the two processes should do.                                         *)
(*****************************************************************************)
(* What was written is shown once, in order and in upper case, however lines *)
(* coalesce in the pipe and wherever read() cuts them. Bytes are lost only   *)
(* behind a '\0' that the same read() took: of the lines that I.Trushkin     *)
(* ends with one, only the first of each read is shown. What did not come    *)
(* through the pipe is shown once at most: N.Shestakov's reader shows what   *)
(* its memory holds behind the first piece.                                  *)
Transferred ==
  /\ ShownOnce(shown, SubSeq(sent, 1, rd), Most)
  /\ strays = {} \/ (transfer.ends = "buffer" /\ \E k \in 1 .. Most : strays = {k})

(* When the parent is gone, and the shell asks for the next command, all     *)
(* that was written has been shown. S.ZaVialoV's and n.bedareva's parents do *)
(* not wait for the child that shows it.                                     *)
Parent == IF transfer.child = "reader" THEN writer ELSE reader
ParentEndsLast ==
  Parent = "gone" =>
    \/ rd = Len(sent) /\ writer = "gone" /\ reader = "gone"
    \/ transfer.waits = "never" /\ transfer.child = "reader"

(* Both processes end once the input does, except N.Shestakov's when the     *)
(* input ends without the line "exit", and those whose reader looks for a    *)
(* '\0' behind its buffer: N.Shestakov's in its first piece, and both it and *)
(* I.Trushkin's when lines coalesced and filled the buffer, or with a line   *)
(* that fills I.Trushkin's alone.                                            *)
PipeDrains ==
  <>\/ writer = "gone" /\ reader = "gone"
    \/ transfer.eof = "repeats" /\ toType = <<>> /\ writer = "write"
    \/ /\ reader = "astray" /\ transfer.size = "buffer"
       /\ \/ transfer.frame = "zero" \/ rd <= Piece
          \/ \E i \in 1 .. rd - 1 : sent[i] = Newline
=============================================================================
