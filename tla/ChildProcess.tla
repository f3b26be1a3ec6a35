---------------------------- MODULE ChildProcess ----------------------------
(******************************************************************************)
(* Laboratories 9 and 10: a program starts a child that becomes a command,    *)
(* waits for it, and says so, from laboratory 10 on with its exit code.       *)
(* What the two processes say goes through stdio: to a terminal at once, to   *)
(* a file when a process exits. fork() copies the buffer, exec() drops it.    *)
(******************************************************************************)
EXTENDS Integers, Sequences, SequencesExt, FiniteSets

CONSTANTS
  Launchers,  \* the programs to look at
  Codes,      \* exit codes of the command, 0 .. 255
  Signals     \* signals that may kill it

(******************************************************************************)
(* The programs.                                                              *)
(*   shell    whether the child gives the command to system() and exits with  *)
(*            what that returns, instead of becoming the command              *)
(*   says     what is said besides the command's text and the last message:   *)
(*            by the parent "before" fork(), by the "child", by the parent    *)
(*            "meanwhile"                                                     *)
(*   fails    the child's exit code if there is no such command, or Falls:    *)
(*            it goes on as if it were the parent                             *)
(*   forkless what a failed fork() does: it "exits", goes on as if there      *)
(*            were a child ("on"), or notices when it waits ("notices")       *)
(*   report   the last message: "after", whether the child "ended", its exit  *)
(*            code if it exited ("checked": with a message in the other case  *)
(*            too, "exited": with none) or in any case ("code"), its          *)
(*            "status", or a variable that is "unset"                         *)
(******************************************************************************)
Falls == -1

Daniil9 == [shell |-> FALSE, says |-> {}, fails |-> 1, forkless |-> "exits", report |-> "after"]
Zelenkov9 == Daniil9
Trushkin9 == [Daniil9 EXCEPT !.says = {"child", "meanwhile"}]
Shestakov9 == [Daniil9 EXCEPT !.says = {"meanwhile"}]
Karakulin9 == Shestakov9
ZaVialoV9 == [Daniil9 EXCEPT !.shell = TRUE]
Komarevtsev9 == [Trushkin9 EXCEPT !.fails = 0]
Makanin9 == [Daniil9 EXCEPT !.fails = 255]
Tsyrenov9 == [Daniil9 EXCEPT !.fails = 0]
Chelbaev9 == [Komarevtsev9 EXCEPT !.says = @ \union {"before"}]
Bedareva9 == [Shestakov9 EXCEPT !.fails = 0, !.forkless = "on", !.report = "ended"]

Daniil10 == [Daniil9 EXCEPT !.report = "checked"]
Zelenkov10 == Daniil10
Shestakov10 == Daniil10
Komarevtsev10 == [Daniil9 EXCEPT !.report = "exited"]
Trushkin10 == [Trushkin9 EXCEPT !.report = "unset"]
ZaVialoV10 == [ZaVialoV9 EXCEPT !.report = "code"]
Karakulin10 == [Daniil9 EXCEPT !.forkless = "notices", !.report = "code"]
Makanin10 == [Makanin9 EXCEPT !.report = "checked"]
Tsyrenov10 == [Daniil9 EXCEPT !.fails = Falls, !.report = "status"]
Chelbaev10 == Chelbaev9
Bedareva10 == [Bedareva9 EXCEPT !.says = {}]
AllLaunchers == {Daniil9, Zelenkov9, Trushkin9, Shestakov9, Karakulin9, ZaVialoV9, Komarevtsev9,
                 Makanin9, Tsyrenov9, Chelbaev9, Bedareva9, Daniil10, Zelenkov10, Shestakov10,
                 Komarevtsev10, Trushkin10, ZaVialoV10, Karakulin10, Makanin10, Tsyrenov10,
                 Chelbaev10, Bedareva10}

ASSUME LauncherAssumption ==
  Launchers \subseteq AllLaunchers /\ Codes \subseteq 0 .. 255 /\ Signals \subseteq 1 .. 127

VARIABLES
  launcher,  \* which program runs
  toFile,    \* whether its output goes to a file
  parent,    \* "start", "fork", "meanwhile", "wait", "report", "gone"
  child,     \* "none", "start", "exec", "command", "last", "exit", "zombie", "reaped"
  unsaid,    \* what each process has said and stdio still holds
  output,    \* what the terminal or the file has got
  ending,    \* how the command ended: a code, a signal, or what it did not do
  status,    \* how the child ended
  told       \* what the parent's last message said
childVars == <<launcher, toFile, parent, child, unsaid, output, ending, status, told>>

Exited(c) == [by |-> "exit", n |-> c]
Killed(n) == [by |-> "signal", n |-> n]
Nothing == [by |-> "nothing", n |-> 0]
Unset == [by |-> "unset", n |-> 0]

LauncherInit ==
  /\ launcher \in Launchers /\ toFile \in BOOLEAN
  /\ parent = "start" /\ child = "none"
  /\ unsaid = [p \in {"parent", "child"} |-> <<>>] /\ output = <<>>
  /\ ending = Nothing /\ status = Nothing /\ told = Nothing

Say(p, what) ==
  IF toFile THEN unsaid' = [unsaid EXCEPT ![p] = Append(@, what)] /\ UNCHANGED output
  ELSE output' = Append(output, what) /\ UNCHANGED unsaid
SayIf(p, what) ==
  IF what \in launcher.says THEN Say(p, what) ELSE UNCHANGED <<unsaid, output>>
Flush(p) == output' = output \o unsaid[p] /\ unsaid' = [unsaid EXCEPT ![p] = <<>>]

(******************************************************************************)
(* The parent, until it waits.                                                *)
(******************************************************************************)
SayBefore ==
  /\ parent = "start" /\ parent' = "fork" /\ SayIf("parent", "before")
  /\ UNCHANGED <<launcher, toFile, child, ending, status, told>>

Fork ==
  /\ parent = "fork" /\ parent' = "meanwhile" /\ child' = "start"
  /\ unsaid' = [unsaid EXCEPT !["child"] = unsaid["parent"]]
  /\ UNCHANGED <<launcher, toFile, output, ending, status, told>>

ForkFails ==
  /\ parent = "fork" /\ ending' = [Nothing EXCEPT !.by = "no child"]
  /\ IF launcher.forkless = "exits" THEN parent' = "gone" /\ Flush("parent")
     ELSE parent' = "meanwhile" /\ UNCHANGED <<unsaid, output>>
  /\ UNCHANGED <<launcher, toFile, child, status, told>>

SayMeanwhile ==
  /\ parent = "meanwhile" /\ parent' = "wait" /\ SayIf("parent", "meanwhile")
  /\ UNCHANGED <<launcher, toFile, child, ending, status, told>>

(******************************************************************************)
(* The child.                                                                 *)
(******************************************************************************)
SayAsChild ==
  /\ child = "start" /\ child' = "exec" /\ SayIf("child", "child")
  /\ UNCHANGED <<launcher, toFile, parent, ending, status, told>>

Exec ==
  /\ child = "exec" /\ child' = "command"
  /\ unsaid' = IF launcher.shell THEN unsaid ELSE [unsaid EXCEPT !["child"] = <<>>]
  /\ UNCHANGED <<launcher, toFile, parent, output, ending, status, told>>

(* There is no such command, or (I.Trushkin) no name for it. A shell starts,  *)
(* says so, and exits.                                                        *)
ExecFails ==
  /\ child = "exec" /\ ~launcher.shell
  /\ ending' = [Nothing EXCEPT !.by = "no command"]
  /\ IF launcher.fails = Falls THEN child' = "last" /\ UNCHANGED status
     ELSE child' = "exit" /\ status' = Exited(launcher.fails)
  /\ UNCHANGED <<launcher, toFile, parent, unsaid, output, told>>

(* m.tsyrenov's child has no child to wait for and tells a status nobody set. *)
FallThrough ==
  /\ child = "last" /\ child' = "exit" /\ status' = Exited(0)
  /\ Say("child", "last")
  /\ UNCHANGED <<launcher, toFile, parent, ending, told>>

(* The command writes its text and ends. system() returns a status, of which  *)
(* exit() keeps the low byte; a shell may report a signal as its own code.    *)
Command ==
  /\ child = "command" /\ output' = Append(output, "text")
  /\ ending' \in {Exited(c) : c \in Codes} \union {Killed(n) : n \in Signals}
  /\ IF ~launcher.shell THEN child' = "zombie" /\ status' = ending'
     ELSE /\ child' = "exit"
          /\ status' \in {Exited(0)} \union
                         (IF ending'.by = "signal" THEN {Exited(ending'.n)} ELSE {})
  /\ UNCHANGED <<launcher, toFile, parent, unsaid, told>>

\* faulty: _exit() instead of exit()
ChildExitsUnflushed ==
  /\ child = "exit" /\ child' = "zombie" /\ unsaid' = [unsaid EXCEPT !["child"] = <<>>]
  /\ UNCHANGED <<launcher, toFile, parent, output, ending, status, told>>

ChildExits ==
  /\ child = "exit" /\ child' = "zombie" /\ Flush("child")
  /\ UNCHANGED <<launcher, toFile, parent, ending, status, told>>

(******************************************************************************)
(* The parent waits and tells.                                                *)
(******************************************************************************)
Wait ==
  /\ parent = "wait" /\ child = "zombie" /\ child' = "reaped" /\ parent' = "report"
  /\ UNCHANGED <<launcher, toFile, unsaid, output, ending, status, told>>

WaitFails ==
  /\ parent = "wait" /\ child = "none"
  /\ IF launcher.forkless = "notices" THEN parent' = "gone" /\ Flush("parent") /\ UNCHANGED status
     ELSE parent' = "report" /\ status' = Unset /\ UNCHANGED <<unsaid, output>>
  /\ UNCHANGED <<launcher, toFile, child, ending, told>>

\* faulty: the status is taken for the code
LowByte(s) == s.n

(* WEXITSTATUS() of a status is its second byte, which a signal leaves 0.     *)
ExitStatus(s) == IF s.by = "exit" THEN s.n ELSE 0
RawStatus(s) == IF s.by = "exit" THEN 256 * s.n ELSE s.n

(* An unset status may look like any other.                                   *)
Tell ==
  LET s == status
      abnormal == [Nothing EXCEPT !.by = "abnormal"]
      silent == [Nothing EXCEPT !.by = "silent"]
      done == [Nothing EXCEPT !.by = "done"]
  IN CASE launcher.report = "after"   -> told' = done
       [] launcher.report = "ended"   ->
            told' \in (IF s.by # "signal" THEN {done} ELSE {}) \union
                      (IF s.by # "exit" THEN {abnormal} ELSE {})
       [] launcher.report = "checked" -> told' = IF s.by = "exit" THEN s ELSE abnormal
       [] launcher.report = "exited"  -> told' = IF s.by = "exit" THEN s ELSE silent
       [] launcher.report = "code"    -> told' = Exited(ExitStatus(s))
       [] launcher.report = "status"  -> told' = Exited(RawStatus(s))
       [] launcher.report = "unset"   -> told' = Unset

Report ==
  /\ parent = "report" /\ parent' = "gone" /\ Tell
  /\ output' = output \o unsaid["parent"] \o (IF told'.by = "silent" THEN <<>> ELSE <<"last">>)
  /\ unsaid' = [unsaid EXCEPT !["parent"] = <<>>]
  /\ UNCHANGED <<launcher, toFile, child, ending, status>>

ParentStep == SayBefore \/ Fork \/ ForkFails \/ SayMeanwhile \/ Wait \/ WaitFails \/ Report
ChildStep == SayAsChild \/ Exec \/ ExecFails \/ FallThrough \/ Command \/ ChildExits
LauncherNext == ParentStep \/ ChildStep
LauncherSpec == /\ LauncherInit /\ [][LauncherNext]_childVars
                /\ WF_childVars(ParentStep) /\ WF_childVars(ChildStep)

(******************************************************************************)
(* What the programs should do.                                               *)
(******************************************************************************)
Signalled(report) == CASE report = "code"   -> Exited(0)
                       [] report = "exited" -> [Nothing EXCEPT !.by = "silent"]
                       [] OTHER             -> [Nothing EXCEPT !.by = "abnormal"]

(* A program that reports an exit code reports the command's, and says so if  *)
(* a signal ended it. The exceptions: one that does not look how it ended     *)
(* reports 0 for a signal (i.karakulin), one says nothing (Y.komarevtsev),    *)
(* m.tsyrenov reports 256 times the code, S.ZaVialoV 0 for every code, for    *)
(* exit() cuts the shell's status, and I.Trushkin never sets what it          *)
(* reports. n.bedareva says that a child that was never started completed,    *)
(* as it says of one without a command.                                       *)
ReportsTheCode ==
  told # Nothing =>
    LET e == ending
        report == launcher.report
    IN  /\ report = "after" => e.by # "no child"
        /\ report = "unset" => told = Unset
        /\ report = "ended" =>
             /\ e.by \in {"exit", "no command"} => told.by = "done"
             /\ e.by = "signal" => told.by = "abnormal"
        /\ launcher.shell => told.n = 0 \/ e.by = "signal"
        /\ report = "status" =>
             IF e.by = "no command" THEN told.n = 0 ELSE told.n = RawStatus(e)
        /\ report \in {"checked", "exited", "code"} /\ ~launcher.shell =>
             CASE e.by = "exit"   -> told = e
               [] e.by = "signal" -> told = Signalled(report)
               [] OTHER           -> told = Exited(launcher.fails)

Childless(then) == ending.by = "no child" /\ launcher.forkless = then
Times(what) == Cardinality({i \in DOMAIN output : output[i] = what})

(* What is said is said once, the command's text and the last message too.    *)
(* In a file, what the child said before it became the command is lost, and   *)
(* what the parent said before fork() is said again by a child that could     *)
(* not become the command (mChelbaev). m.tsyrenov says the last message       *)
(* twice then: its child goes on as the parent does. Y.komarevtsev's is not   *)
(* said if a signal ended the command, and none without a child to wait for.  *)
SaidOnce ==
  parent = "gone" /\ child \in {"none", "reaped"} =>
    /\ Times("before") =
         (IF "before" \notin launcher.says THEN 0
          ELSE IF toFile /\ ending.by = "no command" THEN 2 ELSE 1)
    /\ Times("child") =
         (IF "child" \notin launcher.says \/ child = "none" THEN 0
          ELSE IF toFile /\ ending.by # "no command" THEN 0 ELSE 1)
    /\ Times("text") = (IF ending.by \in {"exit", "signal"} THEN 1 ELSE 0)
    /\ Times("meanwhile") =
         (IF "meanwhile" \notin launcher.says \/ Childless("exits") THEN 0 ELSE 1)
    /\ Times("last") =
         (IF Childless("exits") \/ Childless("notices") THEN 0
          ELSE IF launcher.fails = Falls /\ ending.by = "no command" THEN 2
          ELSE IF launcher.report = "exited" /\ ending.by = "signal" THEN 0 ELSE 1)

=============================================================================
