SPECIFICATION EdgeSpec
CONSTANTS
  c1 = c1
  c2 = c2
  c3 = c3
  Clients <- ThreeClients
  NoClient = NoClient
  ServerFd = 3
  FdLimit = 6
  Backlog = 1
  Inbox = 4
  MaxBytes <- OneLong
  MaxEvents = 2
  EdgeSize = 2
  EdgeLines <- ShortAndLong
INVARIANTS
  ForgottenEdges
PROPERTIES
  EventuallyReadShort
CHECK_DEADLOCK FALSE
