SPECIFICATION Spec
CONSTANTS
  NoNumber = NoNumber
  Junk = Junk
  Room = 4
  Buffer = 4
  Cut = 3
  Chunk = 4
  Page = 4
  Programs <- MCPrograms
  Files <- MCFiles
  Numbers <- MCNumbers
  Typing <- MCTyping
INVARIANTS
  KeepsToMemory
  ShowsTheLine
  TimeoutShowsFile
PROPERTIES
  SilenceEnds
  TypedIsRead
CHECK_DEADLOCK FALSE
