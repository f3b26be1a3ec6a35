SPECIFICATION TwoSpec
CONSTANTS
  c1 = c1
  c2 = c2
  c3 = c3
  Clients <- ThreeClients
  NoClient = NoClient
  ServerFd = 3
  FdLimit = 6
  Backlog = 1
  Inbox = 4
  MaxBytes <- OneLong
  Entries = 3
  StrSize = 3
  Texts <- ShortAndLong
INVARIANTS
  BlindOnlyOnReuse
  BufferHolds
CHECK_DEADLOCK FALSE
