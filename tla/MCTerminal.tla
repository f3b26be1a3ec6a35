----------------------------- MODULE MCTerminal -----------------------------
(***************************************************************************)
(* The programs a user works with through the keys of a terminal: the line *)
(* editors of laboratory 17, on lines of three characters, two letters and *)
(* the blank, with up to two keys typed ahead; and the signal counters of  *)
(* laboratory 21, with up to four signals. A behaviour is one program's.   *)
(***************************************************************************)
EXTENDS LineEditor, SignalCounter

MCEditors == AllEditors
MCCounters == AllCounters

VARIABLE lab
terminalVars == <<lab, editorVars, counterVars>>

(* The program that does not run: nothing is typed, or it has ended.       *)
NoEditor == editor = Daniil17 /\ ed = EmptyEditor /\ ahead = <<>> /\ key = Enter
NoCounter ==
  /\ counter = Daniil21 /\ handling = [reset |-> FALSE, blocks |-> Own] /\ main = "int"
  /\ frames = <<>> /\ pending = {} /\ installed = {} /\ state = "killed"
  /\ tally = NoTally /\ ready = FALSE

TerminalInit == \/ lab = 17 /\ EditorInit /\ NoCounter
                \/ lab = 21 /\ CounterInit /\ NoEditor

TerminalNext == \/ lab = 17 /\ EditorNext /\ UNCHANGED <<lab, counterVars>>
                \/ lab = 21 /\ CounterNext /\ UNCHANGED <<lab, editorVars>>

TerminalSpec == /\ TerminalInit /\ [][TerminalNext]_terminalVars
                /\ WF_editorVars(Edit) /\ WF_counterVars(CounterStep)
=============================================================================
