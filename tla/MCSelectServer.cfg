SPECIFICATION Spec
CONSTANTS
  c1 = c1
  c2 = c2
  c3 = c3
  Clients <- ThreeClients
  NoClient = NoClient
  ServerFd = 3
  FdLimit = 6
  Backlog = 1
  Inbox = 5
  MaxBytes <- OneLong
  ShortRead = 3
  LongRead = 4
  Programs <- BothLoops
  Texts <- OneText
INVARIANTS
  FreshReadiness
  WatchedAreOpen
  ReadIsShown
PROPERTIES
  EventuallyAccepted
CHECK_DEADLOCK FALSE
