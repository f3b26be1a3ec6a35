SPECIFICATION Spec
CONSTANTS
  c1 = c1
  c2 = c2
  c3 = c3
  t1 = t1
  t2 = t2
  Clients <- ThreeClients
  NoClient = NoClient
  ServerFd = 3
  FdLimit = 6
  Backlog = 1
  Inbox = 3
  MaxBytes <- OneLong
  Threads <- TwoThreads
  BufSize = 2
  Lines <- TextWithNul
INVARIANTS
  OneServant
PROPERTIES
  ThreadedContract
  EventuallyClosed
CHECK_DEADLOCK FALSE
