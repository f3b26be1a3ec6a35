SPECIFICATION AsyncSpec
CONSTANTS
  c1 = c1
  c2 = c2
  c3 = c3
  Clients <- ThreeClients
  NoClient = NoClient
  ServerFd = 3
  FdLimit = 7
  Backlog = 1
  Inbox = 3
  MaxBytes <- Unequal
  Slots = 2
  BufSize = 2
  Lines <- MCLines
  AioSize = 2
  AioLines <- MCBlocks
  AioClients = 2
  AioPrograms <- MCAio
  TickClients = 2
  TickSize = 2
  TickRoom = 1
  TickLines <- MCBlocks
INVARIANTS
  BlocksOnlyOnPublished
  ForgottenOnly
  OneOperation
  ArrayIsOpen
PROPERTIES
  EventuallyFetched
CHECK_DEADLOCK FALSE
