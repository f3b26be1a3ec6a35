SPECIFICATION Spec
CONSTANTS
  c1 = c1
  c2 = c2
  c3 = c3
  Clients <- ThreeClients
  NoClient = NoClient
  ServerFd = 3
  FdLimit = 6
  Backlog = 1
  Inbox = 3
  MaxBytes <- Unequal
  Programs <- BothSizes
  BufSize = 2
  Lines <- TwoBytes
INVARIANTS
  BlindOnlyOnNewest
  LimitIsKept
CHECK_DEADLOCK FALSE
