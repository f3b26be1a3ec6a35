SPECIFICATION OwnSpec
CONSTANTS
  c1 = c1
  c2 = c2
  c3 = c3
  Clients <- ThreeClients
  NoClient = NoClient
  ServerFd = 3
  FdLimit = 6
  Backlog = 1
  Inbox = 2
  MaxBytes <- TwoTalk
  BufSize = 2
  Lines <- ThreeLetters
PROPERTIES
  AtomicBroadcast
  EventuallyRelayed
CHECK_DEADLOCK FALSE
