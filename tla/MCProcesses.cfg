SPECIFICATION ProcessSpec
CONSTANTS
  Launchers <- MCLaunchers
  Codes = {0, 1, 3}
  Signals = {9}
  Transfers <- MCTransfers
  Typed <- MCTyped
  ExitLine <- MCExitLine
  Memory <- MCMemory
  Piece = 4
  Pipe = 8
  Repeats = 8
  OneShots <- MCOneShots
  Starts = 3
  Connects = 2
  Started = 4
  Backlog = 1
  Writes = 1
INVARIANTS
  ReportsTheCode
  SaidOnce
  ParentEndsLast
  FoundByName
  Transferred
PROPERTIES
  PipeDrains
  RestartBinds
  EndsWithClient
CHECK_DEADLOCK FALSE
