SPECIFICATION TerminalSpec
CONSTANTS
  Letters = {"a", "b"}
  Editors <- MCEditors
  Width = 3
  Room = 5
  Rows = 2
  Columns = 12
  Ahead = 2
  Counters <- MCCounters
  Presses = 4
INVARIANTS
  ScreenIsLine
  InsideLine
PROPERTIES
  LetterIsHeld
  ReportIsBells
  KilledOnlyInWindow
CHECK_DEADLOCK FALSE
